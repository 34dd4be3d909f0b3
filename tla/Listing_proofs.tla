--------------------------- MODULE Listing_proofs ---------------------------
(***************************************************************************)
(* What the parser of explanations and the viewer of files promise, proved *)
(* for explanations and files of any length and any number of files:       *)
(* however far the parser looks ahead and however much it puts back, it    *)
(* writes every character once and in order, and it has made links of and  *)
(* lit up what the explanation names; and the rows of the viewer are the   *)
(* lines that were counted when a file was stored, in order and without    *)
(* losing a character.                                                     *)
(***************************************************************************)
EXTENDS Listing, SequenceTheorems, FiniteSetTheorems, WellFoundedInduction, TLAPS

-----------------------------------------------------------------------------
(* Numbers *)

LEMMA SetInduction ==
  ASSUME NEW S \in SUBSET Nat, 0 \in S, \A n \in S : n + 1 \in S
  PROVE  S = Nat
<1> SUFFICES ASSUME Nat \ S # {} PROVE FALSE
  OBVIOUS
<1>1. \E R : R = {m \in Nat \X Nat : m[1] < m[2]} /\ IsWellFoundedOn(R, Nat)
  <2>1. OpToRel(<, Nat) = {m \in Nat \X Nat : m[1] < m[2]}
    BY DEF OpToRel
  <2>2. IsWellFoundedOn(OpToRel(<, Nat), Nat)
    BY NatLessThanWellFounded
  <2>3. IsWellFoundedOn({m \in Nat \X Nat : m[1] < m[2]}, Nat)
    BY <2>1, <2>2
  <2> QED
    BY <2>3
<1>2. PICK R : R = {m \in Nat \X Nat : m[1] < m[2]} /\ IsWellFoundedOn(R, Nat)
  BY <1>1
<1>3. PICK x \in Nat \ S : \A y \in Nat \ S : ~(<<y, x>> \in R)
  BY <1>2, WFMin
<1>4. \A y \in Nat \ S : ~(y < x)
  BY <1>2, <1>3
<1>5. x # 0 /\ x - 1 \in Nat /\ x - 1 < x
  BY <1>3
<1>6. x - 1 \in S
  BY <1>4, <1>5
<1>7. (x - 1) + 1 = x
  BY <1>3
<1> QED
  BY <1>3, <1>6, <1>7

\* The least of some naturals.
LEMMA LeastOf ==
  ASSUME NEW S \in SUBSET Nat, S # {}
  PROVE  \E m \in S : \A x \in S : m <= x
<1> SUFFICES ASSUME \A m \in S : \E x \in S : x < m PROVE FALSE
  OBVIOUS
<1> DEFINE Above == {b \in Nat : \A x \in S : b <= x}
<1>1. 0 \in Above
  OBVIOUS
<1>2. ASSUME NEW b \in Above PROVE b + 1 \in Above
  <2>1. b \notin S
    BY <1>2
  <2> QED
    BY <1>2, <2>1
<1>3. Above = Nat
  <2> HIDE DEF Above
  <2>1. Above \subseteq Nat
    BY DEF Above
  <2> QED
    BY <1>1, <1>2, <2>1, SetInduction
<1>4. PICK m \in S : TRUE
  OBVIOUS
<1>5. m + 1 \in Above
  BY <1>3, <1>4
<1> QED
  BY <1>4, <1>5

\* A function that goes up from one place to another.
GoesUp(f, a, b, base, step) ==
  \A p \in a .. b : f[p] = IF p = a THEN base ELSE step[p][f[p - 1]]

\* There is such a function.
LEMMA Recursion ==
  ASSUME NEW a \in Nat, NEW b \in Nat, a <= b, NEW V, NEW base \in V,
         NEW step \in [a + 1 .. b -> [V -> V]]
  PROVE  \E f \in [a .. b -> V] : GoesUp(f, a, b, base, step)
<1> DEFINE Sound(f, n) == GoesUp(f, a, n, base, step)
           D == {d \in Nat : a + d <= b => \E f \in [a .. a + d -> V] : Sound(f, a + d)}
<1>1. 0 \in D
  <2>1. PICK f : f = [p \in a .. a + 0 |-> base]
    OBVIOUS
  <2>2. f \in [a .. a + 0 -> V] /\ Sound(f, a + 0)
    BY <2>1 DEF GoesUp
  <2> QED
    BY <2>2
<1>2. ASSUME NEW d \in D PROVE d + 1 \in D
  <2> SUFFICES ASSUME a + (d + 1) <= b
               PROVE  \E f \in [a .. a + (d + 1) -> V] : Sound(f, a + (d + 1))
    OBVIOUS
  <2>1. a + d <= b /\ a + (d + 1) \in a + 1 .. b /\ (a + (d + 1)) - 1 = a + d
    OBVIOUS
  <2>2. PICK g \in [a .. a + d -> V] : Sound(g, a + d)
    BY <1>2, <2>1
  <2> DEFINE e == a + (d + 1)
             f == [p \in a .. e |-> IF p = e THEN step[e][g[a + d]] ELSE g[p]]
  <2>3. e \in a + 1 .. b /\ e - 1 = a + d /\ e \in Nat
    BY <2>1
  <2>4. g[a + d] \in V /\ step[e] \in [V -> V]
    BY <2>2, <2>3
  <2>5. \A p \in a .. e : p # e => p \in a .. a + d
    BY <2>3
  <2> HIDE DEF e
  <2>6. f \in [a .. e -> V]
    <3>1. step[e][g[a + d]] \in V
      BY <2>4
    <3>2. \A p \in a .. e : p # e => g[p] \in V
      BY <2>2, <2>5
    <3> QED
      BY <3>1, <3>2
  <2>7. /\ f[e] = step[e][g[a + d]]
        /\ \A p \in a .. a + d : f[p] = g[p]
    BY <2>3
  <2> HIDE DEF f
  <2>8. ASSUME NEW p \in a .. e
        PROVE  f[p] = IF p = a THEN base ELSE step[p][f[p - 1]]
    <3>1. CASE p = e
      <4>1. p # a /\ p - 1 = a + d /\ a + d \in a .. a + d
        BY <2>3, <3>1
      <4> QED
        BY <2>7, <3>1, <4>1
    <3>2. CASE p # e
      <4>1. p \in a .. a + d /\ (p # a => p - 1 \in a .. a + d)
        BY <2>5, <3>2
      <4> QED
        BY <2>2, <2>7, <3>2, <4>1 DEF GoesUp
    <3> QED
      BY <3>1, <3>2
  <2> QED
    BY <2>6, <2>8 DEF e, GoesUp
<1>3. D = Nat
  <2> HIDE DEF D
  <2>1. D \subseteq Nat
    BY DEF D
  <2> QED
    BY <1>1, <1>2, <2>1, SetInduction
<1>4. \A d \in Nat : a + d <= b => \E f \in [a .. a + d -> V] : Sound(f, a + d)
  <2> HIDE DEF Sound
  <2> QED
    BY <1>3
<1>5. b - a \in Nat /\ a + (b - a) <= b
  OBVIOUS
<1>6. \E f \in [a .. a + (b - a) -> V] : Sound(f, a + (b - a))
  <2> HIDE DEF Sound
  <2> QED
    BY <1>4, <1>5
<1>7. a + (b - a) = b
  OBVIOUS
<1> QED
  BY <1>6, <1>7

-----------------------------------------------------------------------------
(* Tokens *)

Texts == Seq(Characters \cup Eol)

\* The characters that are passed over end where they are said to.
LEMMA SkipStops ==
  ASSUME NEW S, NEW s \in Seq(Characters \cup Eol), NEW p \in 1 .. Len(s) + 1
  PROVE  /\ Skip(S, s, p) \in p .. Len(s) + 1
         /\ Skip(S, s, p) = Len(s) + 1 \/ s[Skip(S, s, p)] \notin S
         /\ \A j \in p .. Skip(S, s, p) - 1 : s[j] \in S
<1> DEFINE Ends == {q \in p .. Len(s) + 1 : q = Len(s) + 1 \/ s[q] \notin S}
           Stops(q) == /\ q = Len(s) + 1 \/ s[q] \notin S
                       /\ \A j \in p .. q - 1 : s[j] \in S
<1>0. Len(s) \in Nat
  OBVIOUS
<1>1. Ends \in SUBSET Nat /\ Len(s) + 1 \in Ends
  BY <1>0
<1>2. PICK q \in Ends : \A x \in Ends : q <= x
  BY <1>1, LeastOf
<1>3. q \in p .. Len(s) + 1 /\ Stops(q)
  <2>1. ASSUME NEW j \in p .. q - 1
        PROVE  s[j] \in S
    <3>1. j \in p .. Len(s) + 1 /\ j < q /\ j # Len(s) + 1
      BY <1>0, <1>2, <2>1
    <3>2. j \notin Ends
      BY <1>0, <1>1, <1>2, <3>1
    <3> QED
      BY <3>1, <3>2
  <2> QED
    BY <1>2, <2>1
<1>4. \E x \in p .. Len(s) + 1 : Stops(x)
  BY <1>3
<1>5. Skip(S, s, p) = CHOOSE x \in p .. Len(s) + 1 : Stops(x)
  BY DEF Skip
<1> HIDE DEF Stops
<1>6. Skip(S, s, p) \in p .. Len(s) + 1 /\ Stops(Skip(S, s, p))
  BY <1>4, <1>5
<1> QED
  BY <1>6 DEF Stops

\* There is no other place where they could end.
LEMMA SkipOnce ==
  ASSUME NEW S, NEW s \in Seq(Characters \cup Eol), NEW p \in 1 .. Len(s), s[p] \in S
  PROVE  Skip(S, s, p) = Skip(S, s, p + 1)
<1> DEFINE q == Skip(S, s, p)
           r == Skip(S, s, p + 1)
<1>0. Len(s) \in Nat /\ p \in 1 .. Len(s) + 1 /\ p + 1 \in 1 .. Len(s) + 1
  OBVIOUS
<1>1. /\ q \in p .. Len(s) + 1
      /\ q = Len(s) + 1 \/ s[q] \notin S
      /\ \A j \in p .. q - 1 : s[j] \in S
  BY <1>0, SkipStops
<1>2. /\ r \in p + 1 .. Len(s) + 1
      /\ r = Len(s) + 1 \/ s[r] \notin S
      /\ \A j \in p + 1 .. r - 1 : s[j] \in S
  BY <1>0, SkipStops
<1> HIDE DEF q, r
<1>3. q # p
  BY <1>0, <1>1
<1>4. ASSUME q < r PROVE FALSE
  <2>1. q \in p + 1 .. r - 1 /\ q # Len(s) + 1
    BY <1>0, <1>1, <1>2, <1>3, <1>4
  <2> QED
    BY <1>1, <1>2, <2>1
<1>5. ASSUME r < q PROVE FALSE
  <2>1. r \in p .. q - 1 /\ r # Len(s) + 1
    BY <1>0, <1>1, <1>2, <1>5
  <2> QED
    BY <1>1, <1>2, <2>1
<1>6. q = r
  BY <1>0, <1>1, <1>2, <1>4, <1>5
<1> QED
  BY <1>6 DEF q, r

-----------------------------------------------------------------------------
(* The number in a token *)

\* The text up to p, read as a number from a place on.
Reads(n, s, from, to) ==
  n = [p \in from .. to |->
        IF p = from THEN 0
        ELSE IF s[p - 1] \in Digit THEN 10 * n[p - 1] + DigitValue(s[p - 1])
        ELSE n[p - 1]]

ValueIn(s, from, to) == (CHOOSE n : Reads(n, s, from, to))[to]

LEMMA ValueIs == \A from, to : Value(from, to) = ValueIn(text, from, to)
  BY DEF Value, ValueIn, Reads

LEMMA ReadsOn ==
  ASSUME NEW s, NEW from \in Nat, NEW to \in Nat, from <= to
  PROVE  \E n \in [from .. to -> Nat] : /\ Reads(n, s, from, to)
                                        /\ ValueIn(s, from, to) = n[to]
<1> DEFINE up == [p \in from + 1 .. to |-> [v \in Nat |->
                   IF s[p - 1] \in Digit THEN 10 * v + DigitValue(s[p - 1]) ELSE v]]
           Body(n, p) == IF p = from THEN 0
                         ELSE IF s[p - 1] \in Digit THEN 10 * n[p - 1] + DigitValue(s[p - 1])
                         ELSE n[p - 1]
<1>1. \A d \in Digit : DigitValue(d) \in Nat
  BY DEF Digit, DigitValue
<1>2. \A x, y \in Nat : 10 * x + y \in Nat
  OBVIOUS
<1>3. up \in [from + 1 .. to -> [Nat -> Nat]]
  BY <1>1, <1>2
<1>4. \A p \in from + 1 .. to, v \in Nat :
        up[p][v] = IF s[p - 1] \in Digit THEN 10 * v + DigitValue(s[p - 1]) ELSE v
  OBVIOUS
<1> HIDE DEF up
<1>5. PICK n \in [from .. to -> Nat] : GoesUp(n, from, to, 0, up)
  <2>1. 0 \in Nat
    OBVIOUS
  <2> QED
    BY <1>3, <2>1, Recursion
<1>6. ASSUME NEW p \in from .. to PROVE n[p] = Body(n, p)
  <2>1. CASE p = from
    BY <1>5, <2>1 DEF GoesUp
  <2>2. CASE p # from
    <3>1. p \in from + 1 .. to /\ p - 1 \in from .. to
      BY <2>2
    <3>2. n[p - 1] \in Nat
      BY <3>1
    <3> QED
      BY <1>4, <1>5, <2>2, <3>1, <3>2 DEF GoesUp
  <2> QED
    BY <2>1, <2>2
<1>7. n = [p \in from .. to |-> Body(n, p)]
  <2> HIDE DEF Body
  <2> QED
    BY <1>6
<1>8. Reads(n, s, from, to)
  BY <1>7 DEF Reads
<1> DEFINE m == CHOOSE x : Reads(x, s, from, to)
<1>9. Reads(m, s, from, to)
  BY <1>8
<1>10. ValueIn(s, from, to) = m[to]
  BY DEF ValueIn
<1> HIDE DEF m
<1>11. m \in [from .. to -> Nat]
  <2>1. m = [p \in from .. to |-> Body(m, p)]
    BY <1>9 DEF Reads
  <2>2. \A p \in from .. to : m[p] = Body(m, p)
    <3> HIDE DEF Body
    <3> QED
      BY <2>1
  <2> DEFINE D == {d \in Nat : from + d <= to => m[from + d] \in Nat}
  <2>3. 0 \in D
    <3>1. from + 0 = from /\ from \in from .. to
      OBVIOUS
    <3>2. m[from] = 0
      BY <2>2, <3>1
    <3> QED
      BY <3>1, <3>2
  <2>4. ASSUME NEW d \in D PROVE d + 1 \in D
    <3> SUFFICES ASSUME from + (d + 1) <= to PROVE m[from + (d + 1)] \in Nat
      OBVIOUS
    <3> DEFINE p == from + (d + 1)
    <3>1. p \in from .. to /\ p # from /\ p - 1 = from + d /\ from + d <= to
      OBVIOUS
    <3>2. m[from + d] \in Nat
      BY <2>4, <3>1
    <3> HIDE DEF p
    <3>3. m[p] = Body(m, p) /\ m[p - 1] \in Nat
      BY <2>2, <3>1, <3>2
    <3>4. m[p] \in Nat
      BY <1>1, <1>2, <3>1, <3>3
    <3> QED
      BY <3>4 DEF p
  <2>5. D = Nat
    <3> HIDE DEF D
    <3>1. D \subseteq Nat
      BY DEF D
    <3> QED
      BY <2>3, <2>4, <3>1, SetInduction
  <2>6. ASSUME NEW p \in from .. to PROVE m[p] \in Nat
    <3>1. PICK d \in Nat : from + d = p
      <4>1. p - from \in Nat /\ from + (p - from) = p
        OBVIOUS
      <4> QED
        BY <4>1
    <3>2. d \in D
      <4> HIDE DEF D
      <4> QED
        BY <2>5, <3>1
    <3> QED
      BY <3>1, <3>2
  <2>7. DOMAIN m = from .. to /\ m = [p \in from .. to |-> m[p]]
    BY <2>1
  <2> QED
    BY <2>6, <2>7
<1> QED
  BY <1>9, <1>10, <1>11

\* Characters that are no digits do not count.
LEMMA SameValue ==
  ASSUME NEW s, NEW from \in Nat, NEW e \in Nat, NEW to \in Nat, from <= e, e <= to,
         \A j \in e .. to - 1 : s[j] \notin Digit
  PROVE  ValueIn(s, from, to) = ValueIn(s, from, e)
<1> DEFINE Body(n, p) == IF p = from THEN 0
                         ELSE IF s[p - 1] \in Digit THEN 10 * n[p - 1] + DigitValue(s[p - 1])
                         ELSE n[p - 1]
<1>1. PICK n : Reads(n, s, from, to) /\ ValueIn(s, from, to) = n[to]
  BY ReadsOn
<1>2. PICK m : Reads(m, s, from, e) /\ ValueIn(s, from, e) = m[e]
  BY ReadsOn
<1>3. \A p \in from .. to : n[p] = Body(n, p)
  <2>1. n = [p \in from .. to |-> Body(n, p)]
    BY <1>1 DEF Reads
  <2> HIDE DEF Body
  <2> QED
    BY <2>1
<1>4. \A p \in from .. e : m[p] = Body(m, p)
  <2>1. m = [p \in from .. e |-> Body(m, p)]
    BY <1>2 DEF Reads
  <2> HIDE DEF Body
  <2> QED
    BY <2>1
<1> DEFINE D == {d \in Nat : from + d <= e => n[from + d] = m[from + d]}
<1>5. D = Nat
  <2>1. 0 \in D
    <3>1. from + 0 = from /\ from \in from .. to /\ from \in from .. e
      OBVIOUS
    <3>2. n[from] = 0 /\ m[from] = 0
      BY <1>3, <1>4, <3>1
    <3> QED
      BY <3>1, <3>2
  <2>2. ASSUME NEW d \in D PROVE d + 1 \in D
    <3> SUFFICES ASSUME from + (d + 1) <= e
                 PROVE  n[from + (d + 1)] = m[from + (d + 1)]
      OBVIOUS
    <3> DEFINE p == from + (d + 1)
    <3>1. p \in from .. to /\ p \in from .. e /\ p - 1 = from + d /\ from + d <= e
      OBVIOUS
    <3>2. n[from + d] = m[from + d]
      BY <2>2, <3>1
    <3> HIDE DEF p
    <3>3. n[p] = m[p]
      BY <1>3, <1>4, <3>1, <3>2
    <3> QED
      BY <3>3 DEF p
  <2> HIDE DEF D
  <2>3. D \subseteq Nat
    BY DEF D
  <2> QED
    BY <2>1, <2>2, <2>3, SetInduction
<1>6. n[e] = m[e]
  <2>1. PICK d \in Nat : from + d = e
    <3>1. e - from \in Nat /\ from + (e - from) = e
      OBVIOUS
    <3> QED
      BY <3>1
  <2>2. d \in D
    BY <1>5
  <2> QED
    BY <2>1, <2>2
<1> DEFINE K == {d \in Nat : e + d <= to => n[e + d] = n[e]}
<1>7. K = Nat
  <2>1. 0 \in K
    OBVIOUS
  <2>2. ASSUME NEW d \in K PROVE d + 1 \in K
    <3> SUFFICES ASSUME e + (d + 1) <= to
                 PROVE  n[e + (d + 1)] = n[e]
      OBVIOUS
    <3> DEFINE p == e + (d + 1)
    <3>1. p \in from .. to /\ p # from /\ p - 1 = e + d /\ e + d <= to /\ p - 1 \in e .. to - 1
      OBVIOUS
    <3>2. n[e + d] = n[e] /\ s[e + d] \notin Digit
      BY <2>2, <3>1
    <3> HIDE DEF p
    <3>3. n[p] = n[e]
      BY <1>3, <3>1, <3>2
    <3> QED
      BY <3>3 DEF p
  <2> HIDE DEF K
  <2>3. K \subseteq Nat
    BY DEF K
  <2> QED
    BY <2>1, <2>2, <2>3, SetInduction
<1>8. n[to] = n[e]
  <2>1. PICK d \in Nat : e + d = to
    <3>1. to - e \in Nat /\ e + (to - e) = to
      OBVIOUS
    <3> QED
      BY <3>1
  <2>2. d \in K
    BY <1>7
  <2> QED
    BY <2>1, <2>2
<1> QED
  BY <1>1, <1>2, <1>6, <1>8

-----------------------------------------------------------------------------
(* What a text names, as operators of the text *)

EndIn(s, p) == Skip(Digit, s, p + 1)
TagIn(s, p) == p < Len(s) /\ s[p] = "L" /\ s[p + 1] \in Digit
BeginsIn(s, p) == s[p] \in Digit \cup {"-"} \/ TagIn(s, p)

TokenIn(s, p) ==
  CASE p > Len(s)                        -> Tok("eof", p, p)
    [] p \in DOMAIN s /\ s[p] \in Digit  -> Tok("digits", p, Skip({"s"}, s, Skip(Digit, s, p)))
    [] p \in DOMAIN s /\ s[p] = "-"      -> Tok("dash", p, Skip({"s"}, s, p + 1))
    [] TagIn(s, p)                       -> Tok("tag", p, Skip({"s"}, s, Skip(Digit, s, p + 1)))
    [] OTHER -> Tok("other", p, CHOOSE q \in p + 1 .. Len(s) + 1 :
                                  /\ q = Len(s) + 1 \/ BeginsIn(s, q)
                                  /\ \A j \in p + 1 .. q - 1 : ~BeginsIn(s, j))

RangeIn(s, p) ==
  LET dash == Skip({"s"}, s, Skip(Digit, s, p + 1))
      to == Skip({"s"}, s, dash + 1)
  IN IF dash < Len(s) /\ s[dash] = "-" /\ to <= Len(s) /\ (s[to] \in Digit \/ TagIn(s, to)) THEN to ELSE 0

\* The second parts of ranges: those that a first part, not itself a second, is followed by.
AreSeconds(s, second) ==
  second = [p \in DOMAIN s |-> \E j \in 1 .. p - 1 : TagIn(s, j) /\ RangeIn(s, j) = p /\ ~second[j]]

SecondsIn(s) ==
  LET second == CHOOSE f : AreSeconds(s, f) IN {p \in DOMAIN s : second[p]}
FirstsIn(s) == {p \in DOMAIN s : TagIn(s, p)} \ SecondsIn(s)

NumberIn(s, p) == ValueIn(s, p, EndIn(s, p))

LEMMA TokenSame == \A p : Token(p) = TokenIn(text, p)
  BY DEF Token, TokenIn, TagAt, TagIn, Begins, BeginsIn

LEMMA FirstsSame ==
  /\ \A p : TagAt(p) = TagIn(text, p) /\ RangeTo(p) = RangeIn(text, p) /\ Number(p) = NumberIn(text, p)
  /\ Seconds = SecondsIn(text)
  /\ Firsts = FirstsIn(text)
<1>1. \A p : TagAt(p) = TagIn(text, p)
  BY DEF TagAt, TagIn
<1>2. \A p : RangeTo(p) = RangeIn(text, p)
  BY <1>1 DEF RangeTo, RangeIn
<1>3. \A p : Number(p) = NumberIn(text, p)
  BY ValueIs DEF Number, NumberIn, EndIn
<1>4. Seconds = SecondsIn(text)
  BY <1>1, <1>2 DEF Seconds, SecondsIn, AreSeconds
<1>5. Firsts = FirstsIn(text)
  BY <1>1, <1>4 DEF Firsts, FirstsIn
<1> QED
  BY <1>1, <1>2, <1>3, <1>4, <1>5

\* There are such second parts.
LEMMA SecondsExist ==
  ASSUME NEW s \in Texts
  PROVE  \E f \in [1 .. Len(s) -> BOOLEAN] : AreSeconds(s, f)
<1> DEFINE Follows(S, p) == \E j \in 1 .. p - 1 : TagIn(s, j) /\ RangeIn(s, j) = p /\ j \notin S
           Right(S, n) == \A p \in 1 .. n : p \in S <=> Follows(S, p)
           D == {n \in Nat : \E S \in SUBSET (1 .. n) : Right(S, n)}
<1>1. 0 \in D
  <2>1. {} \in SUBSET (1 .. 0) /\ Right({}, 0)
    OBVIOUS
  <2> QED
    BY <2>1
<1>2. ASSUME NEW n \in D PROVE n + 1 \in D
  <2>1. PICK S \in SUBSET (1 .. n) : Right(S, n)
    BY <1>2
  <2>2. PICK T : T = IF Follows(S, n + 1) THEN S \cup {n + 1} ELSE S
    OBVIOUS
  <2>3. T \in SUBSET (1 .. n + 1) /\ n \in Nat
    BY <2>2
  <2>4. \A j \in 1 .. n : j \in T <=> j \in S
    BY <2>2
  <2>5. ASSUME NEW p \in 1 .. n + 1 PROVE p \in T <=> Follows(T, p)
    <3>1. Follows(T, p) <=> Follows(S, p)
      <4>1. \A j \in 1 .. p - 1 : j \in T <=> j \in S
        BY <2>3, <2>4
      <4> QED
        BY <4>1
    <3>2. CASE p = n + 1
      <4>1. p \notin S
        BY <2>3, <3>2
      <4> QED
        BY <2>2, <3>1, <3>2, <4>1
    <3>3. CASE p # n + 1
      <4>1. p \in 1 .. n
        BY <2>3, <3>3
      <4> HIDE DEF Follows
      <4> QED
        BY <2>1, <2>4, <3>1, <4>1
    <3> QED
      BY <3>2, <3>3
  <2>6. Right(T, n + 1)
    BY <2>5
  <2> HIDE DEF Right
  <2> QED
    BY <2>3, <2>6
<1>3. D = Nat
  <2> HIDE DEF D
  <2>1. D \subseteq Nat
    BY DEF D
  <2> QED
    BY <1>1, <1>2, <2>1, SetInduction
<1>4. Len(s) \in Nat /\ DOMAIN s = 1 .. Len(s)
  BY DEF Texts
<1>5. PICK S \in SUBSET (1 .. Len(s)) : Right(S, Len(s))
  <2> HIDE DEF Right
  <2> QED
    BY <1>3, <1>4
<1>6. PICK f : f = [p \in 1 .. Len(s) |-> p \in S]
  OBVIOUS
<1>7. f \in [1 .. Len(s) -> BOOLEAN] /\ \A p \in 1 .. Len(s) : f[p] = (p \in S)
  BY <1>6
<1>8. ASSUME NEW p \in 1 .. Len(s)
      PROVE  f[p] = \E j \in 1 .. p - 1 : TagIn(s, j) /\ RangeIn(s, j) = p /\ ~f[j]
  <2>1. \A j \in 1 .. p - 1 : f[j] = (j \in S)
    <3>1. 1 .. p - 1 \subseteq 1 .. Len(s)
      BY <1>4
    <3> QED
      BY <1>7, <3>1
  <2>2. f[p] = (p \in S) /\ ((p \in S) = Follows(S, p))
    BY <1>5, <1>7
  <2> QED
    BY <2>1, <2>2
<1>9. f = [p \in DOMAIN s |-> \E j \in 1 .. p - 1 : TagIn(s, j) /\ RangeIn(s, j) = p /\ ~f[j]]
  BY <1>4, <1>6, <1>8
<1> QED
  BY <1>7, <1>9 DEF AreSeconds

\* A second part is what it is because a first part is before it.
LEMMA SecondAfterFirst ==
  ASSUME NEW s \in Texts
  PROVE  /\ FirstsIn(s) \subseteq {p \in 1 .. Len(s) : TagIn(s, p)}
         /\ SecondsIn(s) \subseteq 1 .. Len(s)
         /\ \A p \in 1 .. Len(s) : TagIn(s, p) => (p \in FirstsIn(s) <=> p \notin SecondsIn(s))
         /\ \A p \in 1 .. Len(s) :
              p \in SecondsIn(s) <=> \E j \in FirstsIn(s) : j < p /\ RangeIn(s, j) = p
<1>0. Len(s) \in Nat /\ DOMAIN s = 1 .. Len(s)
  BY DEF Texts
<1> DEFINE f == CHOOSE g : AreSeconds(s, g)
<1>1. AreSeconds(s, f)
  BY SecondsExist
<1>2. SecondsIn(s) = {p \in DOMAIN s : f[p]}
  BY DEF SecondsIn
<1> HIDE DEF f
<1>3. \A p \in 1 .. Len(s) : f[p] = \E j \in 1 .. p - 1 : TagIn(s, j) /\ RangeIn(s, j) = p /\ ~f[j]
  BY <1>0, <1>1 DEF AreSeconds
<1>4. \A p \in 1 .. Len(s) : p \in SecondsIn(s) <=> f[p]
  BY <1>0, <1>2
<1>5. \A p \in 1 .. Len(s) : p \in FirstsIn(s) <=> (TagIn(s, p) /\ ~f[p])
  BY <1>0, <1>4 DEF FirstsIn
<1>6. ASSUME NEW p \in 1 .. Len(s)
      PROVE  p \in SecondsIn(s) <=> \E j \in FirstsIn(s) : j < p /\ RangeIn(s, j) = p
  <2>1. \A j : j \in FirstsIn(s) => j \in 1 .. Len(s)
    BY <1>0 DEF FirstsIn
  <2>2. \A j : j \in 1 .. p - 1 <=> (j \in 1 .. Len(s) /\ j < p)
    BY <1>0
  <2> QED
    BY <1>3, <1>4, <1>5, <2>1, <2>2
<1> QED
  BY <1>0, <1>2, <1>4, <1>5, <1>6 DEF FirstsIn

-----------------------------------------------------------------------------
(* The tokens of a text *)

Tokens == [type : {"eof", "digits", "dash", "tag", "other"}, from : Nat, to : Nat]

\* White space and digits, once passed over, hold no tag.
LEMMA PassedOver ==
  ASSUME NEW s \in Texts, NEW p \in 1 .. Len(s)
  PROVE  /\ EndIn(s, p) \in p + 1 .. Len(s) + 1
         /\ Skip({"s"}, s, EndIn(s, p)) \in EndIn(s, p) .. Len(s) + 1
         /\ \A j \in p + 1 .. Skip({"s"}, s, EndIn(s, p)) - 1 : ~TagIn(s, j)
         /\ \A j \in EndIn(s, p) .. Skip({"s"}, s, EndIn(s, p)) - 1 : s[j] \notin Digit
         /\ Skip({"s"}, s, p + 1) \in p + 1 .. Len(s) + 1
         /\ \A j \in p + 1 .. Skip({"s"}, s, p + 1) - 1 : ~TagIn(s, j)
<1> DEFINE e == EndIn(s, p)
           r == Skip({"s"}, s, e)
           d == Skip({"s"}, s, p + 1)
<1>0. Len(s) \in Nat /\ s \in Seq(Characters \cup Eol) /\ p + 1 \in 1 .. Len(s) + 1
  BY DEF Texts
<1>1. /\ e \in p + 1 .. Len(s) + 1
      /\ \A j \in p + 1 .. e - 1 : s[j] \in Digit
  BY <1>0, SkipStops DEF EndIn
<1>2. /\ d \in p + 1 .. Len(s) + 1
      /\ \A j \in p + 1 .. d - 1 : s[j] \in {"s"}
  BY <1>0, SkipStops
<1> HIDE DEF e
<1>3. /\ r \in e .. Len(s) + 1
      /\ \A j \in e .. r - 1 : s[j] \in {"s"}
  <2>1. e \in 1 .. Len(s) + 1
    BY <1>0, <1>1
  <2> QED
    BY <1>0, <2>1, SkipStops
<1> HIDE DEF r, d
<1>4. "s" \notin Digit /\ "L" \notin Digit /\ "s" # "L"
  BY DEF Digit
<1>5. ASSUME NEW j \in p + 1 .. r - 1 PROVE ~TagIn(s, j)
  <2>1. j \in p + 1 .. e - 1 \/ j \in e .. r - 1
    BY <1>0, <1>1, <1>3
  <2>2. s[j] # "L"
    BY <1>1, <1>3, <1>4, <2>1
  <2> QED
    BY <2>2 DEF TagIn
<1>6. ASSUME NEW j \in p + 1 .. d - 1 PROVE ~TagIn(s, j)
  BY <1>2, <1>4 DEF TagIn
<1> QED
  BY <1>1, <1>2, <1>3, <1>4, <1>5, <1>6 DEF e, r, d

LEMMA TokensOf ==
  ASSUME NEW s \in Texts, NEW p \in 1 .. Len(s)
  PROVE  LET t == TokenIn(s, p) IN
         /\ t \in Tokens
         /\ t.from = p /\ t.to \in p + 1 .. Len(s) + 1 /\ t.type # "eof"
         /\ t.type = "tag" <=> TagIn(s, p)
         /\ t.type = "dash" <=> s[p] = "-"
         /\ t.type = "digits" <=> s[p] \in Digit
         /\ \A j \in p + 1 .. t.to - 1 : ~TagIn(s, j)
         /\ t.type \in {"tag", "digits"} => t.to = Skip({"s"}, s, EndIn(s, p))
         /\ t.type = "dash" => t.to = Skip({"s"}, s, p + 1)
<1> DEFINE t == TokenIn(s, p)
           e == EndIn(s, p)
           r == Skip({"s"}, s, e)
           d == Skip({"s"}, s, p + 1)
<1>0. /\ Len(s) \in Nat /\ s \in Seq(Characters \cup Eol)
      /\ p \in DOMAIN s /\ ~(p > Len(s)) /\ p + 1 \in 1 .. Len(s) + 1
  BY DEF Texts
<1>1. /\ r \in p + 1 .. Len(s) + 1 /\ \A j \in p + 1 .. r - 1 : ~TagIn(s, j)
      /\ d \in p + 1 .. Len(s) + 1 /\ \A j \in p + 1 .. d - 1 : ~TagIn(s, j)
  <2>1. /\ e \in p + 1 .. Len(s) + 1 /\ r \in e .. Len(s) + 1
        /\ \A j \in p + 1 .. r - 1 : ~TagIn(s, j)
        /\ d \in p + 1 .. Len(s) + 1
        /\ \A j \in p + 1 .. d - 1 : ~TagIn(s, j)
    BY PassedOver
  <2> HIDE DEF e, r, d
  <2> QED
    BY <1>0, <2>1
<1> HIDE DEF r, d
<1>2. r \in Nat /\ d \in Nat
  BY <1>0, <1>1
<1>3. "-" \notin Digit /\ "L" \notin Digit /\ "L" # "-"
  BY DEF Digit
<1>4. CASE s[p] \in Digit
  <2>1. t = Tok("digits", p, Skip({"s"}, s, Skip(Digit, s, p)))
    BY <1>0, <1>3, <1>4 DEF TokenIn, TagIn
  <2>2. Skip(Digit, s, p) = e
    BY <1>0, <1>4, SkipOnce DEF EndIn
  <2>3. t = Tok("digits", p, r)
    BY <2>1, <2>2 DEF r
  <2>4. ~TagIn(s, p) /\ s[p] # "-"
    BY <1>3, <1>4 DEF TagIn
  <2> HIDE DEF e
  <2>5. t.from = p /\ t.to = r /\ t.type = "digits" /\ t \in Tokens
    BY <1>0, <1>2, <2>3 DEF Tok, Tokens
  <2> HIDE DEF t
  <2> QED
    BY <1>1, <1>4, <2>4, <2>5 DEF t, r, e
<1>5. CASE s[p] = "-"
  <2>1. t = Tok("dash", p, d)
    BY <1>0, <1>3, <1>5 DEF TokenIn, TagIn, d
  <2>2. ~TagIn(s, p) /\ s[p] \notin Digit
    BY <1>3, <1>5 DEF TagIn
  <2> HIDE DEF e
  <2>3. t.from = p /\ t.to = d /\ t.type = "dash" /\ t \in Tokens
    BY <1>0, <1>2, <2>1 DEF Tok, Tokens
  <2> HIDE DEF t
  <2> QED
    BY <1>1, <1>5, <2>2, <2>3 DEF t, d
<1>6. CASE TagIn(s, p)
  <2>1. s[p] \notin Digit /\ s[p] # "-"
    BY <1>3, <1>6 DEF TagIn
  <2>2. t = Tok("tag", p, r)
    BY <1>0, <1>6, <2>1 DEF TokenIn, EndIn, r
  <2> HIDE DEF e
  <2>3. t.from = p /\ t.to = r /\ t.type = "tag" /\ t \in Tokens
    BY <1>0, <1>2, <2>2 DEF Tok, Tokens
  <2> HIDE DEF t
  <2> QED
    BY <1>1, <1>6, <2>1, <2>3 DEF t, r, e
<1>7. CASE s[p] \notin Digit /\ s[p] # "-" /\ ~TagIn(s, p)
  <2> DEFINE Rest(x) == /\ x = Len(s) + 1 \/ BeginsIn(s, x)
                        /\ \A j \in p + 1 .. x - 1 : ~BeginsIn(s, j)
             Ends == {x \in p + 1 .. Len(s) + 1 : x = Len(s) + 1 \/ BeginsIn(s, x)}
             q == CHOOSE x \in p + 1 .. Len(s) + 1 : Rest(x)
  <2>1. t = Tok("other", p, q)
    BY <1>0, <1>7 DEF TokenIn
  <2>2. Ends \in SUBSET Nat /\ Len(s) + 1 \in Ends
    BY <1>0
  <2>3. PICK m \in Ends : \A x \in Ends : m <= x
    BY <2>2, LeastOf
  <2>4. ASSUME NEW j \in p + 1 .. m - 1 PROVE ~BeginsIn(s, j)
    <3>1. j \in p + 1 .. Len(s) + 1 /\ j < m
      BY <1>0, <2>3, <2>4
    <3>2. j \notin Ends
      BY <1>0, <2>3, <3>1
    <3> QED
      BY <3>1, <3>2
  <2>5. m \in p + 1 .. Len(s) + 1 /\ Rest(m)
    BY <2>3, <2>4
  <2> HIDE DEF Rest
  <2>6. q \in p + 1 .. Len(s) + 1 /\ Rest(q)
    BY <2>5
  <2> HIDE DEF q
  <2>7. \A j \in p + 1 .. q - 1 : ~TagIn(s, j)
    BY <2>6 DEF Rest, BeginsIn
  <2>8. t.from = p /\ t.to = q /\ t.type = "other" /\ t \in Tokens
    BY <1>0, <2>1, <2>6 DEF Tok, Tokens
  <2> HIDE DEF t, e
  <2> QED
    BY <1>7, <2>6, <2>7, <2>8 DEF t
<1> QED
  BY <1>4, <1>5, <1>6, <1>7

\* A tag starts a range just when a dash and a number follow it.
LEMMA RangeOf ==
  ASSUME NEW s \in Texts, NEW p \in 1 .. Len(s), TagIn(s, p),
         NEW a, NEW b, NEW c, a = TokenIn(s, p), b = TokenIn(s, a.to), c = TokenIn(s, b.to)
  PROVE  IF b.type = "dash" /\ c.type \in {"tag", "digits"}
         THEN RangeIn(s, p) = b.to /\ a.to \in 1 .. Len(s) /\ b.to \in 1 .. Len(s)
         ELSE RangeIn(s, p) = 0
<1> DEFINE dash == Skip({"s"}, s, Skip(Digit, s, p + 1))
           to == Skip({"s"}, s, dash + 1)
<1>0. Len(s) \in Nat /\ s \in Seq(Characters \cup Eol)
  BY DEF Texts
<1>1. a.to = dash /\ dash \in 1 .. Len(s) + 1
  BY <1>0, TokensOf DEF EndIn
<1>2. RangeIn(s, p) = IF dash < Len(s) /\ s[dash] = "-" /\ to <= Len(s) /\ (s[to] \in Digit \/ TagIn(s, to)) THEN to ELSE 0
  BY DEF RangeIn
<1>3. ASSUME NEW q \in Nat, q > Len(s) PROVE TokenIn(s, q) = Tok("eof", q, q)
  <2>1. q \notin DOMAIN s /\ ~(q < Len(s))
    BY <1>0, <1>3
  <2> QED
    BY <1>3, <2>1 DEF TokenIn, TagIn
<1> HIDE DEF dash
<1>4. CASE dash > Len(s)
  <2>1. b.type = "eof"
    BY <1>1, <1>3, <1>4 DEF Tok
  <2>2. ~(dash < Len(s))
    BY <1>0, <1>1, <1>4
  <2> QED
    BY <1>2, <2>1, <2>2
<1>5. CASE dash <= Len(s)
  <2>0. dash \in 1 .. Len(s) /\ dash + 1 \in 1 .. Len(s) + 1
    BY <1>0, <1>1, <1>5
  <2>1. /\ b.type = "dash" <=> s[dash] = "-"
        /\ b.type = "dash" => b.to = to
    BY <1>1, <2>0, TokensOf
  <2>2. to \in dash + 1 .. Len(s) + 1
    BY <1>0, <2>0, SkipStops
  <2> HIDE DEF to
  <2>3. CASE s[dash] # "-"
    BY <1>2, <2>1, <2>3
  <2>4. CASE s[dash] = "-" /\ to > Len(s)
    <3>1. c.type = "eof"
      <4>1. to \in Nat
        BY <1>0, <1>1, <2>2
      <4> QED
        BY <1>3, <2>1, <2>4, <4>1 DEF Tok
    <3>2. ~(to <= Len(s))
      BY <1>0, <2>2, <2>4
    <3> QED
      BY <1>2, <3>1, <3>2
  <2>5. CASE s[dash] = "-" /\ to <= Len(s)
    <3>1. to \in 1 .. Len(s) /\ dash < Len(s)
      BY <1>0, <2>0, <2>2, <2>5
    <3>2. b.to = to /\ b.type = "dash"
      BY <2>1, <2>5
    <3>3. c.type \in {"tag", "digits"} <=> (s[to] \in Digit \/ TagIn(s, to))
      BY <3>1, <3>2, TokensOf
    <3> QED
      BY <1>1, <1>2, <2>0, <2>5, <3>1, <3>2, <3>3
  <2> QED
    BY <1>0, <2>2, <2>3, <2>4, <2>5
<1> QED
  BY <1>0, <1>1, <1>4, <1>5

\* The number of a token is the one after its letter, or in its digits.
LEMMA NumberOf ==
  ASSUME NEW s \in Texts, NEW p \in 1 .. Len(s), TokenIn(s, p).type \in {"tag", "digits"}
  PROVE  /\ ValueIn(s, p, TokenIn(s, p).to) = NumberIn(s, p)
         /\ NumberIn(s, p) \in Nat
<1> DEFINE e == EndIn(s, p)
           r == TokenIn(s, p).to
<1>0. Len(s) \in Nat /\ s \in Seq(Characters \cup Eol) /\ p \in Nat
  BY DEF Texts
<1>1. /\ e \in p + 1 .. Len(s) + 1 /\ r \in e .. Len(s) + 1
      /\ \A j \in e .. r - 1 : s[j] \notin Digit
  BY PassedOver, TokensOf
<1> HIDE DEF e, r
<1>2. e \in Nat /\ r \in Nat /\ p <= e /\ e <= r
  BY <1>0, <1>1
<1>3. ValueIn(s, p, r) = ValueIn(s, p, e)
  BY <1>0, <1>1, <1>2, SameValue
<1>4. ValueIn(s, p, e) \in Nat
  <2>1. PICK n \in [p .. e -> Nat] : ValueIn(s, p, e) = n[e]
    BY <1>0, <1>2, ReadsOn
  <2>2. e \in p .. e
    BY <1>0, <1>2
  <2> QED
    BY <2>1, <2>2
<1> QED
  BY <1>3, <1>4 DEF NumberIn, e, r

\* A token of the text: where it is, that only the end of the text is the last
\* one, and that a link around its digits lies in it.
IsToken(t) ==
  /\ t \in Tokens
  /\ t = TokenIn(text, t.from)
  /\ t.from \in 1 .. Len(text) + 1 /\ t.to \in t.from .. Len(text) + 1
  /\ t.type = "eof" => t.from = Len(text) + 1
  /\ t.type \in {"tag", "digits"} =>
       t.from <= Len(text) /\ Skip(Digit, text, t.from + 1) \in t.from .. t.to

LEMMA TokenIs ==
  ASSUME text \in Texts, NEW p \in 1 .. Len(text) + 1
  PROVE  IsToken(Token(p)) /\ Token(p).from = p
<1> DEFINE t == TokenIn(text, p)
<1>0. Len(text) \in Nat /\ Token(p) = t
  BY TokenSame DEF Texts
<1>1. CASE p = Len(text) + 1
  <2>1. p > Len(text) /\ p \notin DOMAIN text /\ ~(p < Len(text))
    BY <1>0, <1>1 DEF Texts
  <2>2. t = Tok("eof", p, p)
    BY <2>1 DEF TokenIn, TagIn
  <2> QED
    BY <1>0, <1>1, <2>2 DEF Tok, IsToken, Tokens
<1>2. CASE p # Len(text) + 1
  <2>1. p \in 1 .. Len(text)
    BY <1>0, <1>2
  <2>2. t \in Tokens /\ t.from = p /\ t.to \in p + 1 .. Len(text) + 1 /\ t.type # "eof"
    BY <2>1, TokensOf
  <2>3. t.type \in {"tag", "digits"} => EndIn(text, p) \in p + 1 .. t.to
    <3>1. t.type \in {"tag", "digits"} => t.to = Skip({"s"}, text, EndIn(text, p))
      BY <2>1, TokensOf
    <3>2. /\ EndIn(text, p) \in p + 1 .. Len(text) + 1
          /\ Skip({"s"}, text, EndIn(text, p)) \in EndIn(text, p) .. Len(text) + 1
      BY <2>1, PassedOver
    <3> QED
      BY <1>0, <2>1, <3>1, <3>2
  <2> HIDE DEF t
  <2>4. t.from = p /\ t \in Tokens /\ t.to \in p .. Len(text) + 1 /\ t.type # "eof"
    BY <1>0, <2>1, <2>2
  <2>5. t.type \in {"tag", "digits"} => p <= Len(text) /\ Skip(Digit, text, p + 1) \in p .. t.to
    BY <1>0, <2>1, <2>3, <2>4 DEF EndIn
  <2> QED
    BY <1>0, <2>4, <2>5 DEF IsToken, t
<1> QED
  BY <1>1, <1>2

-----------------------------------------------------------------------------
(* The lexer *)

\* What was put back runs from a place to where the lexer is, the next token last.
Runs(put, from, p) ==
  /\ put \in Seq(Tokens)
  /\ p \in 1 .. Len(text) + 1
  /\ \A k \in 1 .. Len(put) : IsToken(put[k])
  /\ \A k \in 2 .. Len(put) : put[k].to = put[k - 1].from
  /\ IF Len(put) = 0 THEN from = p ELSE put[Len(put)].from = from /\ put[1].to = p

LexerAt(l, from) ==
  /\ Runs(l.put, from, l.pos)
  /\ IsToken(l.tok) /\ l.tok.from = from
  /\ l.put = <<>> => l.pos = from
  /\ l.put # <<>> => l.tok = l.put[Len(l.put)]

LEMMA LexerStarts ==
  ASSUME text \in Texts, NEW put, NEW from, NEW p, Runs(put, from, p)
  PROVE  LexerAt(Lexer(p, put), from)
<1> DEFINE l == Lexer(p, put)
<1>1. l.pos = p /\ l.put = put /\ l.tok = IF put = <<>> THEN Token(p) ELSE put[Len(put)]
  BY DEF Lexer, Last
<1>2. put = <<>> <=> Len(put) = 0
  BY DEF Runs
<1> HIDE DEF l
<1>3. CASE put = <<>>
  <2>1. from = p /\ p \in 1 .. Len(text) + 1
    BY <1>2, <1>3 DEF Runs
  <2>2. IsToken(l.tok) /\ l.tok.from = p
    BY <1>1, <1>3, <2>1, TokenIs
  <2> QED
    BY <1>1, <1>3, <2>1, <2>2 DEF LexerAt, l
<1>4. CASE put # <<>>
  <2>1. Len(put) \in 1 .. Len(put)
    BY <1>2, <1>4 DEF Runs
  <2>2. IsToken(put[Len(put)]) /\ put[Len(put)].from = from
    BY <1>2, <1>4, <2>1 DEF Runs
  <2> QED
    BY <1>1, <1>4, <2>2 DEF LexerAt, l
<1> QED
  BY <1>3, <1>4 DEF l

LEMMA PutTaken ==
  ASSUME text \in Texts, NEW put, NEW from, NEW p, Runs(put, from, p), put # <<>>
  PROVE  Runs(Front(put), put[Len(put)].to, p)
<1> DEFINE n == Len(put)
           rest == Front(put)
<1>1. n \in Nat \ {0}
  BY EmptySeq DEF Runs
<1>2. rest = [k \in 1 .. n - 1 |-> put[k]]
  <2>1. \A k \in 1 .. n - 1 : 1 + k - 1 = k
    BY <1>1
  <2> QED
    BY <1>1, <2>1 DEF Front, SubSeq
<1>3. Len(rest) = n - 1
  BY <1>1, <1>2
<1>4. /\ p \in 1 .. Len(text) + 1
      /\ \A k \in 1 .. n : IsToken(put[k])
      /\ \A k \in 2 .. n : put[k].to = put[k - 1].from
      /\ put[1].to = p
  BY <1>1 DEF Runs
<1> HIDE DEF n, rest
<1>5. \A k \in 1 .. Len(rest) : rest[k] = put[k] /\ k \in 1 .. n
  BY <1>1, <1>2, <1>3
<1>6. \A k \in 2 .. Len(rest) : rest[k].to = rest[k - 1].from
  <2>1. ASSUME NEW k \in 2 .. Len(rest)
        PROVE  rest[k].to = rest[k - 1].from
    <3>1. k \in 1 .. Len(rest) /\ k - 1 \in 1 .. Len(rest) /\ k \in 2 .. n
      BY <1>1, <1>3, <2>1
    <3> QED
      BY <1>4, <1>5, <3>1
  <2> QED
    BY <2>1
<1>7. IF Len(rest) = 0 THEN put[n].to = p ELSE rest[Len(rest)].from = put[n].to /\ rest[1].to = p
  <2>1. CASE n = 1
    BY <1>3, <1>4, <2>1
  <2>2. CASE n # 1
    <3>1. n \in 2 .. n /\ n - 1 \in 1 .. Len(rest) /\ 1 \in 1 .. Len(rest) /\ Len(rest) # 0
      BY <1>1, <1>3, <2>2
    <3> QED
      BY <1>3, <1>4, <1>5, <3>1
  <2> QED
    BY <2>1, <2>2
<1>8. rest \in Seq(Tokens)
  BY <1>1, <1>2, <1>4 DEF IsToken
<1> QED
  BY <1>4, <1>5, <1>6, <1>7, <1>8 DEF Runs, n, rest

\* The token before the ones that were put back is put back.
LEMMA PutBack ==
  ASSUME text \in Texts, NEW put, NEW t, NEW p, Runs(put, t.to, p), IsToken(t)
  PROVE  Runs(put \o <<t>>, t.from, p)
<1> DEFINE n == Len(put)
           more == put \o <<t>>
<1>1. n \in Nat /\ p \in 1 .. Len(text) + 1 /\ put \in Seq(Tokens) /\ t \in Tokens
  BY DEF Runs, IsToken
<1>2. Len(more) = n + 1 /\ more \in Seq(Tokens)
      /\ more[n + 1] = t /\ \A k \in 1 .. n : more[k] = put[k]
  BY <1>1
<1>3. /\ \A k \in 1 .. n : IsToken(put[k])
      /\ \A k \in 2 .. n : put[k].to = put[k - 1].from
      /\ IF n = 0 THEN t.to = p ELSE put[n].from = t.to /\ put[1].to = p
  BY DEF Runs
<1> HIDE DEF n, more
<1>4. \A k \in 1 .. n + 1 : IsToken(more[k])
  BY <1>1, <1>2, <1>3
<1>5. \A k \in 2 .. n + 1 : more[k].to = more[k - 1].from
  <2>1. ASSUME NEW k \in 2 .. n + 1
        PROVE  more[k].to = more[k - 1].from
    <3>1. k - 1 \in 1 .. n /\ more[k - 1] = put[k - 1]
      BY <1>1, <1>2, <2>1
    <3>2. CASE k = n + 1
      <4>1. k - 1 = n /\ n # 0
        BY <1>1, <2>1, <3>2
      <4> QED
        BY <1>2, <1>3, <3>1, <3>2, <4>1
    <3>3. CASE k # n + 1
      <4>1. k \in 2 .. n /\ k \in 1 .. n
        BY <1>1, <2>1, <3>3
      <4> QED
        BY <1>2, <1>3, <3>1, <4>1
    <3> QED
      BY <3>2, <3>3
  <2> QED
    BY <2>1
<1>6. more[n + 1].from = t.from /\ more[1].to = p /\ n + 1 # 0
  <2>1. CASE n = 0
    BY <1>1, <1>2, <1>3, <2>1
  <2>2. CASE n # 0
    BY <1>1, <1>2, <1>3, <2>2
  <2> QED
    BY <1>1, <1>2, <2>1, <2>2
<1>7. Len(more) \in Nat
  BY <1>1, <1>2
<1> QED
  BY <1>1, <1>2, <1>4, <1>5, <1>6, <1>7 DEF Runs, more

LEMMA LexerGoesOn ==
  ASSUME text \in Texts, NEW l, NEW from, LexerAt(l, from)
  PROVE  LexerAt(After(l), l.tok.to)
<1>1. CASE l.put = <<>>
  <2>1. l.tok.to \in 1 .. Len(text) + 1
    BY DEF LexerAt, IsToken, Texts
  <2>2. Runs(<<>>, l.tok.to, l.tok.to)
    BY <2>1 DEF Runs
  <2> QED
    BY <1>1, <2>2, LexerStarts DEF After
<1>2. CASE l.put # <<>>
  <2>1. Runs(Front(l.put), l.tok.to, l.pos)
    BY <1>2, PutTaken DEF LexerAt
  <2> QED
    BY <1>2, <2>1, LexerStarts DEF After
<1> QED
  BY <1>1, <1>2

-----------------------------------------------------------------------------
(* The parser *)

Marks == [at : Nat, link : BOOLEAN]

\* Characters that are written from one place to another, each once.
Writes(w, from, to) ==
  /\ w \in Seq(Marks)
  /\ from \in Nat /\ to = from + Len(w)
  /\ \A k \in 1 .. Len(w) : w[k].at = from + k - 1

LEMMA WritesOn ==
  ASSUME NEW v, NEW w, NEW a, NEW b, NEW c, Writes(v, a, b), Writes(w, b, c)
  PROVE  Writes(v \o w, a, c)
<1> DEFINE m == Len(v)
           n == Len(w)
           both == v \o w
<1>1. /\ m \in Nat /\ n \in Nat /\ a \in Nat /\ b = a + m /\ c = b + n
      /\ v \in Seq(Marks) /\ w \in Seq(Marks)
  BY DEF Writes
<1>2. Len(both) = m + n /\ both \in Seq(Marks)
      /\ \A k \in 1 .. m + n : both[k] = IF k <= m THEN v[k] ELSE w[k - m]
  BY <1>1
<1>3. \A k \in 1 .. m : v[k].at = a + k - 1
  BY DEF Writes
<1>4. \A k \in 1 .. n : w[k].at = b + k - 1
  BY DEF Writes
<1> HIDE DEF m, n, both
<1>5. ASSUME NEW k \in 1 .. m + n
      PROVE  both[k].at = a + k - 1
  <2>1. CASE k <= m
    <3>1. k \in 1 .. m /\ both[k] = v[k]
      BY <1>1, <1>2, <2>1
    <3> QED
      BY <1>3, <3>1
  <2>2. CASE ~(k <= m)
    <3>1. k - m \in 1 .. n
      BY <1>1, <2>2
    <3>2. both[k] = w[k - m] /\ w[k - m].at = b + (k - m) - 1
      BY <1>2, <1>4, <2>2, <3>1
    <3>3. \A x, y \in Nat : (x + y) + (k - y) - 1 = x + k - 1
      BY <1>1
    <3> QED
      BY <1>1, <3>2, <3>3
  <2> QED
    BY <2>1, <2>2
<1>6. Len(both) \in Nat /\ c = a + Len(both)
  BY <1>1, <1>2
<1> QED
  BY <1>1, <1>2, <1>5, <1>6 DEF Writes, both

LEMMA WrittenOnce ==
  ASSUME NEW t, t.from \in Nat, t.to \in Nat, t.from <= t.to, NEW link \in BOOLEAN
  PROVE  Writes(Written(t, link), t.from, t.to)
<1> DEFINE w == Written(t, link)
<1>1. w = [k \in 1 .. t.to - t.from |-> [at |-> t.from + k - 1, link |-> link]]
  BY DEF Written
<1>2. t.to - t.from \in Nat /\ t.to = t.from + (t.to - t.from)
  OBVIOUS
<1>3. Len(w) = t.to - t.from /\ w \in Seq(Marks)
      /\ \A k \in 1 .. Len(w) : w[k].at = t.from + k - 1
  <2>1. PICK d \in Nat : d = t.to - t.from
    BY <1>2
  <2>2. \A k \in 1 .. d : [at |-> t.from + k - 1, link |-> link] \in Marks
    BY <2>1 DEF Marks
  <2>3. w \in [1 .. d -> Marks] /\ \A k \in 1 .. d : w[k].at = t.from + k - 1
    BY <1>1, <2>1, <2>2
  <2> HIDE DEF w
  <2>4. w \in Seq(Marks) /\ Len(w) = d
    BY <2>3
  <2> QED
    BY <2>1, <2>3, <2>4
<1> HIDE DEF w
<1>4. Writes(w, t.from, t.to)
  BY <1>2, <1>3 DEF Writes
<1> QED
  BY <1>4 DEF w

LEMMA PlainOnce ==
  ASSUME text \in Texts, NEW t, IsToken(t)
  PROVE  Writes(Plain(t), t.from, t.to)
<1>1. Len(text) \in Nat
  BY DEF Texts
<1>2. t.from \in Nat /\ t.to \in Nat /\ t.from <= t.to
  BY <1>1 DEF IsToken
<1> QED
  BY <1>2, WrittenOnce DEF Plain

LEMMA LinkOnce ==
  ASSUME text \in Texts, NEW t, IsToken(t), t.type \in {"tag", "digits"}
  PROVE  Writes(Link(t), t.from, t.to)
<1> DEFINE end == Skip(Digit, text, t.from + 1)
           inside == Tok("tag", t.from, end)
           behind == Tok("other", end, t.to)
<1>1. Len(text) \in Nat
  BY DEF Texts
<1>2. t.from \in Nat /\ t.to \in Nat /\ end \in Nat /\ t.from <= end /\ end <= t.to
  BY <1>1 DEF IsToken
<1> HIDE DEF end
<1>3. inside.from = t.from /\ inside.to = end /\ behind.from = end /\ behind.to = t.to
  BY DEF Tok
<1> HIDE DEF inside, behind
<1>4. Writes(Written(inside, TRUE), t.from, end) /\ Writes(Written(behind, FALSE), end, t.to)
  BY <1>2, <1>3, WrittenOnce
<1>5. Link(t) = Written(inside, TRUE) \o Written(behind, FALSE)
  BY DEF Link, Plain, inside, behind, end
<1> QED
  BY <1>4, <1>5, WritesOn

\* What has been written ends where the lexer is, put back as it may be.
IInv ==
  /\ text \in Texts
  /\ Writes(out, 1, Len(out) + 1)
  /\ Runs(stack, Len(out) + 1, pos)
  /\ state \in {"done", "unlit"} => Len(out) = Len(text)

LEMMA TwoInOrder ==
  ASSUME NEW S, NEW a \in S, NEW b \in S
  PROVE  <<a>> \o <<b>> = <<a, b>>
<1> DEFINE s == <<a>> \o <<b>>
           t == <<a, b>>
<1>1. s \in Seq(S) /\ Len(s) = 2 /\ s[1] = a /\ s[2] = b
  OBVIOUS
<1>2. t \in Seq(S) /\ Len(t) = 2 /\ t[1] = a /\ t[2] = b
  OBVIOUS
<1> HIDE DEF s, t
<1>3. \A i \in 1 .. Len(s) : s[i] = t[i]
  <2>1. \A i \in 1 .. 2 : i = 1 \/ i = 2
    OBVIOUS
  <2> QED
    BY <1>1, <1>2, <2>1
<1>4. s = t
  BY <1>1, <1>2, <1>3, SeqEqual
<1> QED
  BY <1>4 DEF s, t

LEMMA GoesOn ==
  ASSUME IInv, NEW w, NEW from, NEW to, Writes(w, Len(out) + 1, to), out' = out \o w,
         Runs(stack', to, pos'), text' = text, state' \notin {"done", "unlit"}
  PROVE  IInv'
<1>1. Writes(out', 1, to)
  BY WritesOn DEF IInv
<1>2. Len(out') \in Nat /\ to = Len(out') + 1
  BY <1>1 DEF Writes
<1> QED
  BY <1>1, <1>2 DEF IInv, Runs, Writes, IsToken

LEMMA ParserGoesOn ==
  ASSUME IInv, ParseStep
  PROVE  IInv'
<1> DEFINE t0 == Lexer(pos, stack)
           t1 == After(t0)
           t2 == After(t1)
           start == Len(out) + 1
<1>1. text \in Texts /\ text' = text /\ state = "reading" /\ LexerAt(t0, start)
  BY LexerStarts DEF IInv, ParseStep
<1>2. LexerAt(t1, t0.tok.to)
  BY <1>1, LexerGoesOn
<1>3. LexerAt(t2, t1.tok.to)
  BY <1>1, <1>2, LexerGoesOn
<1>4. /\ LexerAt(After(t2), t2.tok.to)
      /\ IsToken(t0.tok) /\ t0.tok.from = start
      /\ IsToken(t1.tok) /\ t1.tok.from = t0.tok.to
      /\ IsToken(t2.tok) /\ t2.tok.from = t1.tok.to
  BY <1>1, <1>2, <1>3, LexerGoesOn DEF LexerAt
<1>5. \/ t0.tok.type = "eof" /\ state' = "done" /\ out' = out /\ pos' = pos /\ stack' = stack
      \/ /\ out' = out \o Plain(t0.tok) /\ GoOn(t0, <<>>) /\ state' = state
      \/ /\ t0.tok.type = "tag"
         /\ out' = out \o Link(t0.tok) /\ GoOn(t1, <<t1.tok>>) /\ state' = state
      \/ /\ t0.tok.type = "tag"
         /\ out' = out \o Link(t0.tok) /\ GoOn(t2, <<t2.tok, t1.tok>>) /\ state' = state
      \/ /\ t0.tok.type = "tag" /\ t2.tok.type \in {"tag", "digits"}
         /\ out' = out \o Link(t0.tok) \o Plain(t1.tok) \o Link(t2.tok) /\ GoOn(t2, <<>>) /\ state' = state
      \/ state' = "failed" /\ out' = out /\ pos' = pos /\ stack' = stack
  BY DEF ParseStep, parser
<1> HIDE DEF t0, t1, t2
<1>6. CASE t0.tok.type = "eof" /\ state' = "done" /\ out' = out /\ pos' = pos /\ stack' = stack
  <2>1. Len(out) = Len(text)
    BY <1>1, <1>4, <1>6 DEF IsToken, IInv, Writes, Texts
  <2> QED
    BY <1>1, <1>6, <2>1 DEF IInv, Writes, Runs, IsToken
<1>7. CASE out' = out \o Plain(t0.tok) /\ GoOn(t0, <<>>) /\ state' = state
  <2>1. Writes(Plain(t0.tok), start, t0.tok.to)
    BY <1>1, <1>4, PlainOnce
  <2>2. Runs(stack', t0.tok.to, pos')
    <3>1. Runs(t1.put, t0.tok.to, t1.pos)
      BY <1>2 DEF LexerAt
    <3>2. t1.put \o <<>> = t1.put
      BY <3>1 DEF Runs
    <3> QED
      BY <1>7, <3>1, <3>2 DEF GoOn, t1
  <2> QED
    BY <1>1, <1>7, <2>1, <2>2, GoesOn
<1>8. CASE /\ t0.tok.type = "tag"
           /\ out' = out \o Link(t0.tok) /\ GoOn(t1, <<t1.tok>>) /\ state' = state
  <2>1. Writes(Link(t0.tok), start, t0.tok.to)
    BY <1>1, <1>4, <1>8, LinkOnce
  <2>2. Runs(stack', t0.tok.to, pos')
    <3>1. Runs(t2.put, t1.tok.to, t2.pos)
      BY <1>3 DEF LexerAt
    <3>2. Runs(t2.put \o <<t1.tok>>, t0.tok.to, t2.pos)
      BY <1>1, <1>4, <3>1, PutBack
    <3> QED
      BY <1>8, <3>2 DEF GoOn, t2
  <2> QED
    BY <1>1, <1>8, <2>1, <2>2, GoesOn
<1>9. CASE /\ t0.tok.type = "tag"
           /\ out' = out \o Link(t0.tok) /\ GoOn(t2, <<t2.tok, t1.tok>>) /\ state' = state
  <2>1. Writes(Link(t0.tok), start, t0.tok.to)
    BY <1>1, <1>4, <1>9, LinkOnce
  <2>2. Runs(stack', t0.tok.to, pos')
    <3> DEFINE rest == After(t2)
    <3>1. Runs(rest.put, t2.tok.to, rest.pos)
      BY <1>4 DEF LexerAt
    <3>2. pos' = rest.pos /\ stack' = rest.put \o <<t2.tok, t1.tok>>
      BY <1>9 DEF GoOn
    <3> HIDE DEF rest
    <3>3. Runs(rest.put \o <<t2.tok>>, t1.tok.to, rest.pos)
      BY <1>1, <1>4, <3>1, PutBack
    <3>4. Runs((rest.put \o <<t2.tok>>) \o <<t1.tok>>, t0.tok.to, rest.pos)
      BY <1>1, <1>4, <3>3, PutBack
    <3>5. (rest.put \o <<t2.tok>>) \o <<t1.tok>> = rest.put \o <<t2.tok, t1.tok>>
      <4>1. rest.put \in Seq(Tokens) /\ t1.tok \in Tokens /\ t2.tok \in Tokens
        BY <1>4, <3>1 DEF Runs, IsToken
      <4>2. <<t1.tok>> \in Seq(Tokens) /\ <<t2.tok>> \in Seq(Tokens)
        BY <4>1
      <4>3. <<t2.tok>> \o <<t1.tok>> = <<t2.tok, t1.tok>>
        BY <4>1, TwoInOrder
      <4>4. (rest.put \o <<t2.tok>>) \o <<t1.tok>> = rest.put \o (<<t2.tok>> \o <<t1.tok>>)
        BY <4>1, <4>2, ConcatAssociative
      <4> QED
        BY <4>3, <4>4
    <3> QED
      BY <3>2, <3>4, <3>5
  <2> QED
    BY <1>1, <1>9, <2>1, <2>2, GoesOn
<1>10. CASE /\ t0.tok.type = "tag" /\ t2.tok.type \in {"tag", "digits"}
            /\ out' = out \o Link(t0.tok) \o Plain(t1.tok) \o Link(t2.tok) /\ GoOn(t2, <<>>) /\ state' = state
  <2> DEFINE w0 == Link(t0.tok)
             w1 == Plain(t1.tok)
             w2 == Link(t2.tok)
  <2>1. Writes(w0, start, t0.tok.to) /\ Writes(w1, t0.tok.to, t1.tok.to) /\ Writes(w2, t1.tok.to, t2.tok.to)
    BY <1>1, <1>4, <1>10, LinkOnce, PlainOnce
  <2>2. out' = ((out \o w0) \o w1) \o w2
    BY <1>10
  <2> HIDE DEF w0, w1, w2
  <2>3. Writes((w0 \o w1) \o w2, start, t2.tok.to)
    BY <2>1, WritesOn
  <2>4. out' = out \o ((w0 \o w1) \o w2)
    <3>1. /\ out \in Seq(Marks) /\ w0 \in Seq(Marks)
          /\ w1 \in Seq(Marks) /\ w2 \in Seq(Marks)
      BY <2>1 DEF Writes, IInv
    <3>2. (out \o w0) \o w1 = out \o (w0 \o w1) /\ w0 \o w1 \in Seq(Marks)
      BY <3>1, ConcatAssociative, ConcatProperties
    <3>3. (out \o (w0 \o w1)) \o w2 = out \o ((w0 \o w1) \o w2)
      BY <3>1, <3>2, ConcatAssociative
    <3> QED
      BY <2>2, <3>2, <3>3
  <2>5. Runs(stack', t2.tok.to, pos')
    <3> DEFINE rest == After(t2)
    <3>1. Runs(rest.put, t2.tok.to, rest.pos)
      BY <1>4 DEF LexerAt
    <3>2. pos' = rest.pos /\ stack' = rest.put \o <<>>
      BY <1>10 DEF GoOn
    <3> HIDE DEF rest
    <3>3. rest.put \o <<>> = rest.put
      BY <3>1 DEF Runs
    <3> QED
      BY <3>1, <3>2, <3>3
  <2> QED
    BY <1>1, <1>10, <2>3, <2>4, <2>5, GoesOn
<1>11. CASE state' = "failed" /\ out' = out /\ pos' = pos /\ stack' = stack
  BY <1>1, <1>11 DEF IInv, Writes, Runs, IsToken
<1> QED
  BY <1>5, <1>6, <1>7, <1>8, <1>9, <1>10, <1>11

LEMMA ParserStays ==
  ASSUME IInv, UNCHANGED <<text, parser>>,
         state' \in {"done", "unlit"} => state \in {"done", "unlit"}
  PROVE  IInv'
  BY DEF IInv, parser, Writes, Runs, IsToken

LEMMA Invariance == Spec => []IInv
<1>1. ASSUME Init PROVE IInv
  <2>1. text \in Texts /\ out = <<>> /\ stack = <<>> /\ pos = 1 /\ state = "unread"
    BY <1>1, ListingAssumption DEF Init, Texts
  <2>2. Writes(out, 1, Len(out) + 1)
    BY <2>1 DEF Writes
  <2>3. Runs(stack, Len(out) + 1, pos)
    BY <2>1 DEF Runs, Texts
  <2> QED
    BY <2>1, <2>2, <2>3 DEF IInv
<1>2. ASSUME IInv, [Next]_vars PROVE IInv'
  <2>1. ASSUME Upload PROVE IInv'
    <3>1. UNCHANGED <<text, parser>> /\ state' \in {state, "down"}
      BY <2>1 DEF Upload
    <3> QED
      BY <1>2, <3>1, ParserStays
  <2>2. ASSUME Reload PROVE IInv'
    BY <1>2, <2>2, ParserStays DEF Reload
  <2>3. ASSUME Read PROVE IInv'
    BY <1>2, <2>3, ParserStays DEF Read
  <2>4. ASSUME UNCHANGED vars PROVE IInv'
    BY <1>2, <2>4, ParserStays DEF vars, parser
  <2> QED
    BY <1>2, <2>1, <2>2, <2>3, <2>4, ParserGoesOn DEF Next
<1> QED
  BY <1>1, <1>2, PTL DEF Spec

\* The parser copies every character of the explanation once and in order,
\* however far it has looked ahead and put back.
THEOREM CopiesOnce == Spec => []CopiedOnce
<1>1. ASSUME IInv PROVE CopiedOnce
  <2> DEFINE n == Len(stack)
             pending == Reverse(stack)
  <2>1. /\ out \in Seq(Marks) /\ \A k \in 1 .. Len(out) : out[k].at = 1 + k - 1
        /\ n \in Nat
        /\ \A k \in 2 .. n : stack[k].to = stack[k - 1].from
        /\ IF n = 0 THEN Len(out) + 1 = pos ELSE stack[n].from = Len(out) + 1 /\ stack[1].to = pos
        /\ state \in {"done", "unlit"} => Len(out) = Len(text)
    BY <1>1 DEF IInv, Writes, Runs
  <2>2. \A k \in DOMAIN out : out[k].at = k
    BY <2>1
  <2>3. pending = [k \in 1 .. n |-> stack[(n - k) + 1]]
    BY DEF Reverse
  <2>4. Len(pending) = n /\ \A k \in 1 .. n : pending[k] = stack[(n - k) + 1]
    BY <2>1, <2>3
  <2> HIDE DEF n, pending
  <2>5. ASSUME NEW k \in 1 .. n + 1
        PROVE  (IF k > n THEN pos ELSE pending[k].from)
                 = (IF k = 1 THEN Len(out) + 1 ELSE pending[k - 1].to)
    <3>1. CASE k = 1
      BY <2>1, <2>4, <3>1
    <3>2. CASE k # 1 /\ k > n
      <4>1. k - 1 = n /\ n # 0 /\ (n - (k - 1)) + 1 = 1
        BY <2>1, <2>5, <3>2
      <4>2. pending[k - 1] = stack[1]
        <5>1. k - 1 \in 1 .. n
          BY <2>1, <4>1
        <5> QED
          BY <2>4, <4>1, <5>1
      <4> QED
        BY <2>1, <3>2, <4>1, <4>2
    <3>3. CASE k # 1 /\ ~(k > n)
      <4>1. PICK j : j = (n - (k - 1)) + 1
        OBVIOUS
      <4>2. j \in 2 .. n /\ (n - k) + 1 = j - 1 /\ k \in 1 .. n /\ k - 1 \in 1 .. n
        BY <2>1, <2>5, <3>3, <4>1
      <4>3. pending[k] = stack[j - 1] /\ pending[k - 1] = stack[j]
        BY <2>4, <4>1, <4>2
      <4> QED
        BY <2>1, <3>3, <4>2, <4>3
    <3> QED
      BY <3>1, <3>2, <3>3
  <2> QED
    BY <2>1, <2>2, <2>4, <2>5 DEF CopiedOnce, pending
<1> QED
  BY <1>1, Invariance, PTL

-----------------------------------------------------------------------------
(* What is named and linked before a place *)

FirstsTo(s, c) == {p \in FirstsIn(s) : p < c}
SecondsTo(s, c) == {p \in SecondsIn(s) : p < c}
Between(s, p) ==
  IF RangeIn(s, p) = 0 THEN {} ELSE {NumberIn(s, RangeIn(s, p))} \cup NumberIn(s, p) .. NumberIn(s, RangeIn(s, p))
NamedTo(s, c) == UNION {{NumberIn(s, p)} \cup Between(s, p) : p \in FirstsTo(s, c)}
LinkedTo(s, c) == UNION {p .. EndIn(s, p) - 1 : p \in FirstsTo(s, c) \cup SecondsTo(s, c)}
WrapsIn(s) == \E p \in FirstsIn(s) : RangeIn(s, p) # 0 /\ NumberIn(s, p) = MaxInt

\* No range lies about the place.
Whole(s, c) == \A j \in FirstsTo(s, c) : RangeIn(s, j) < c

LEMMA NamedSame ==
  ASSUME text \in Texts
  PROVE  /\ LinkedAt = LinkedTo(text, Len(text) + 1)
         /\ Named = NamedTo(text, Len(text) + 1)
         /\ Wraps = WrapsIn(text)
<1>0. Len(text) \in Nat
  BY DEF Texts
<1>1. FirstsTo(text, Len(text) + 1) = Firsts /\ SecondsTo(text, Len(text) + 1) = Seconds
  <2>1. FirstsIn(text) \subseteq 1 .. Len(text) /\ SecondsIn(text) \subseteq 1 .. Len(text)
    BY SecondAfterFirst
  <2>2. \A p \in 1 .. Len(text) : p < Len(text) + 1
    BY <1>0
  <2> QED
    BY <2>1, <2>2, FirstsSame DEF FirstsTo, SecondsTo
<1>2. LinkedAt = LinkedTo(text, Len(text) + 1)
  BY <1>1 DEF LinkedAt, LinkedTo, EndIn
<1>3. Wraps = WrapsIn(text)
  BY FirstsSame DEF Wraps, WrapsIn
<1>4. Named = NamedTo(text, Len(text) + 1)
  <2>1. ASSUME NEW x PROVE x \in Named <=> x \in NamedTo(text, Len(text) + 1)
    <3>1. x \in Named <=> \/ \E p \in Firsts : x = Number(p)
                          \/ \E p \in Firsts : /\ RangeTo(p) # 0
                                               /\ x \in {Number(RangeTo(p))} \cup Number(p) .. Number(RangeTo(p))
      BY DEF Named
    <3>2. x \in NamedTo(text, Len(text) + 1)
            <=> \E p \in Firsts : x \in {NumberIn(text, p)} \cup Between(text, p)
      BY <1>1 DEF NamedTo
    <3>3. \A p : x \in Between(text, p) <=>
            RangeTo(p) # 0 /\ x \in {Number(RangeTo(p))} \cup Number(p) .. Number(RangeTo(p))
      BY FirstsSame DEF Between
    <3>4. \A p : x \in {NumberIn(text, p)} <=> x = Number(p)
      BY FirstsSame
    <3> QED
      BY <3>1, <3>2, <3>3, <3>4
  <2> QED
    BY <2>1
<1> QED
  BY <1>2, <1>3, <1>4

\* Past a tag, or past a range of which it is the first part, or past what holds no tag.
LEMMA Passed ==
  ASSUME NEW s \in Texts, NEW c \in 1 .. Len(s), NEW d \in c + 1 .. Len(s) + 1, Whole(s, c),
         TagIn(s, c) => RangeIn(s, c) \in {0} \cup c + 1 .. d - 1,
         \A j \in c + 1 .. d - 1 : TagIn(s, j) => TagIn(s, c) /\ RangeIn(s, c) = j
  PROVE  /\ Whole(s, d)
         /\ FirstsTo(s, d) = FirstsTo(s, c) \cup {p \in {c} : TagIn(s, c)}
         /\ SecondsTo(s, d) = SecondsTo(s, c) \cup {p \in {RangeIn(s, c)} : TagIn(s, c) /\ p # 0}
<1>0. Len(s) \in Nat /\ c \in Nat /\ d \in Nat /\ c < d
  BY DEF Texts
<1>1. /\ FirstsIn(s) \subseteq {p \in 1 .. Len(s) : TagIn(s, p)}
      /\ SecondsIn(s) \subseteq 1 .. Len(s)
      /\ \A p \in 1 .. Len(s) : TagIn(s, p) => (p \in FirstsIn(s) <=> p \notin SecondsIn(s))
      /\ \A p \in 1 .. Len(s) :
           p \in SecondsIn(s) <=> \E j \in FirstsIn(s) : j < p /\ RangeIn(s, j) = p
  BY SecondAfterFirst
<1>2. \A p \in 1 .. Len(s) : p >= c /\ p \in SecondsIn(s) => \E j \in FirstsIn(s) : c <= j /\ j < p /\ RangeIn(s, j) = p
  <2>1. ASSUME NEW p \in 1 .. Len(s), p >= c, p \in SecondsIn(s)
        PROVE  \E j \in FirstsIn(s) : c <= j /\ j < p /\ RangeIn(s, j) = p
    <3>1. PICK j \in FirstsIn(s) : j < p /\ RangeIn(s, j) = p
      BY <1>1, <2>1
    <3>2. j \in Nat
      BY <1>1, <3>1
    <3>3. ~(j < c)
      BY <1>0, <2>1, <3>1, <3>2 DEF Whole, FirstsTo
    <3> QED
      BY <1>0, <3>1, <3>2, <3>3
  <2> QED
    BY <2>1
<1>3. c \in FirstsIn(s) <=> TagIn(s, c)
  <2>1. c \notin SecondsIn(s)
    <3> SUFFICES ASSUME c \in SecondsIn(s) PROVE FALSE
      OBVIOUS
    <3>1. PICK j \in FirstsIn(s) : c <= j /\ j < c
      BY <1>0, <1>2
    <3> QED
      BY <1>0, <1>1, <3>1
  <2> QED
    BY <1>1, <2>1
<1>4. TagIn(s, c) /\ RangeIn(s, c) # 0 => RangeIn(s, c) \in SecondsIn(s)
  <2> SUFFICES ASSUME TagIn(s, c), RangeIn(s, c) # 0 PROVE RangeIn(s, c) \in SecondsIn(s)
    OBVIOUS
  <2>1. RangeIn(s, c) \in 1 .. Len(s) /\ c < RangeIn(s, c)
    BY <1>0
  <2> QED
    BY <1>1, <1>3, <2>1
<1>5. ASSUME NEW j \in c + 1 .. d - 1 PROVE j \notin FirstsIn(s)
  <2>1. j \in 1 .. Len(s)
    BY <1>0
  <2>2. CASE TagIn(s, j)
    <3>1. TagIn(s, c) /\ RangeIn(s, c) = j /\ j # 0
      BY <1>0, <2>2
    <3> QED
      BY <1>1, <1>4, <2>1, <2>2, <3>1
  <2>3. CASE ~TagIn(s, j)
    BY <1>1, <2>3
  <2> QED
    BY <2>2, <2>3
<1>6. \A j \in FirstsIn(s) : j < d <=> j < c \/ j = c
  <2>1. ASSUME NEW j \in FirstsIn(s) PROVE j < d <=> j < c \/ j = c
    <3>1. j \in Nat /\ j \notin c + 1 .. d - 1
      BY <1>1, <1>5
    <3> QED
      BY <1>0, <3>1
  <2> QED
    BY <2>1
<1>7. FirstsTo(s, d) = FirstsTo(s, c) \cup {p \in {c} : TagIn(s, c)}
  BY <1>0, <1>3, <1>6 DEF FirstsTo
<1>8. ASSUME NEW p \in SecondsIn(s), p >= c, p < d
      PROVE  TagIn(s, c) /\ p = RangeIn(s, c)
  <2>1. p \in 1 .. Len(s)
    BY <1>1
  <2>2. PICK j \in FirstsIn(s) : c <= j /\ j < p /\ RangeIn(s, j) = p
    BY <1>2, <1>8, <2>1
  <2>3. j = c
    <3>1. j \in Nat /\ j < d
      BY <1>0, <1>1, <1>8, <2>1, <2>2
    <3> QED
      BY <1>0, <1>6, <2>2, <3>1
  <2> QED
    BY <1>3, <2>2, <2>3
<1>9. SecondsTo(s, d) = SecondsTo(s, c) \cup {p \in {RangeIn(s, c)} : TagIn(s, c) /\ p # 0}
  <2>1. ASSUME NEW p \in SecondsIn(s)
        PROVE  p < d <=> p < c \/ (TagIn(s, c) /\ p = RangeIn(s, c))
    <3>1. p \in 1 .. Len(s)
      BY <1>1
    <3>2. CASE p < c
      BY <1>0, <3>1, <3>2
    <3>3. CASE ~(p < c)
      <4>1. p >= c
        BY <1>0, <3>1, <3>3
      <4>2. TagIn(s, c) /\ p = RangeIn(s, c) => p < d
        <5> SUFFICES ASSUME TagIn(s, c), p = RangeIn(s, c) PROVE p < d
          OBVIOUS
        <5>1. p \in {0} \cup c + 1 .. d - 1 /\ p # 0
          BY <3>1
        <5> QED
          BY <1>0, <5>1
      <4> QED
        BY <1>8, <3>3, <4>1, <4>2
    <3> QED
      BY <3>2, <3>3
  <2>2. 0 \notin SecondsIn(s)
    BY <1>1
  <2> QED
    BY <1>4, <2>1, <2>2 DEF SecondsTo
<1>10. Whole(s, d)
  <2>1. ASSUME NEW j \in FirstsTo(s, d) PROVE RangeIn(s, j) < d
    <3>1. CASE j = c
      <4>1. TagIn(s, c)
        BY <1>3, <2>1, <3>1 DEF FirstsTo
      <4>2. RangeIn(s, c) \in {0} \cup c + 1 .. d - 1
        BY <4>1
      <4> QED
        BY <1>0, <3>1, <4>2
    <3>2. CASE j # c
      <4>1. j \in FirstsTo(s, c)
        BY <1>7, <2>1, <3>2
      <4>2. RangeIn(s, j) < c
        BY <4>1 DEF Whole
      <4>3. RangeIn(s, j) \in Nat
        <5>1. j \in 1 .. Len(s) /\ TagIn(s, j)
          BY <1>1, <4>1 DEF FirstsTo
        <5> DEFINE a == TokenIn(s, j)
                   b == TokenIn(s, a.to)
        <5>2. RangeIn(s, j) \in {0} \cup 1 .. Len(s)
          <6>1. PICK x : x = TokenIn(s, j)
            OBVIOUS
          <6>2. PICK y : y = TokenIn(s, x.to)
            OBVIOUS
          <6>3. PICK z : z = TokenIn(s, y.to)
            OBVIOUS
          <6>4. IF y.type = "dash" /\ z.type \in {"tag", "digits"}
                THEN RangeIn(s, j) = y.to /\ x.to \in 1 .. Len(s) /\ y.to \in 1 .. Len(s)
                ELSE RangeIn(s, j) = 0
            BY <5>1, <6>1, <6>2, <6>3, RangeOf
          <6> QED
            BY <6>4
        <5> QED
          BY <1>0, <5>2
      <4> QED
        BY <1>0, <4>2, <4>3
    <3> QED
      BY <3>1, <3>2
  <2> QED
    BY <2>1 DEF Whole
<1> QED
  BY <1>7, <1>9, <1>10

\* One tag more.
LEMMA NamedOn ==
  ASSUME NEW s \in Texts, NEW c, NEW d
  PROVE  /\ FirstsTo(s, d) = FirstsTo(s, c) => NamedTo(s, d) = NamedTo(s, c)
         /\ FirstsTo(s, d) = FirstsTo(s, c) \cup {c} => NamedTo(s, d) = NamedTo(s, c) \cup {NumberIn(s, c)} \cup Between(s, c)
         /\ FirstsTo(s, d) = FirstsTo(s, c) /\ SecondsTo(s, d) = SecondsTo(s, c) => LinkedTo(s, d) = LinkedTo(s, c)
         /\ FirstsTo(s, d) = FirstsTo(s, c) \cup {c} /\ SecondsTo(s, d) = SecondsTo(s, c) =>
              LinkedTo(s, d) = LinkedTo(s, c) \cup c .. EndIn(s, c) - 1
         /\ \A r : FirstsTo(s, d) = FirstsTo(s, c) \cup {c} /\ SecondsTo(s, d) = SecondsTo(s, c) \cup {r} =>
              LinkedTo(s, d) = LinkedTo(s, c) \cup c .. EndIn(s, c) - 1 \cup r .. EndIn(s, r) - 1
<1>1. FirstsTo(s, d) = FirstsTo(s, c) \cup {c} => NamedTo(s, d) = NamedTo(s, c) \cup {NumberIn(s, c)} \cup Between(s, c)
  BY DEF NamedTo
<1>2. FirstsTo(s, d) = FirstsTo(s, c) \cup {c} /\ SecondsTo(s, d) = SecondsTo(s, c) =>
        LinkedTo(s, d) = LinkedTo(s, c) \cup c .. EndIn(s, c) - 1
  BY DEF LinkedTo
<1>3. ASSUME NEW r, FirstsTo(s, d) = FirstsTo(s, c) \cup {c}, SecondsTo(s, d) = SecondsTo(s, c) \cup {r}
      PROVE  LinkedTo(s, d) = LinkedTo(s, c) \cup c .. EndIn(s, c) - 1 \cup r .. EndIn(s, r) - 1
  BY <1>3 DEF LinkedTo
<1> QED
  BY <1>1, <1>2, <1>3 DEF NamedTo, LinkedTo

-----------------------------------------------------------------------------
(* The lights *)

LinksOf(w) == {w[k].at : k \in {j \in DOMAIN w : w[j].link}}

LEMMA LinksJoin ==
  ASSUME NEW v \in Seq(Marks), NEW w \in Seq(Marks)
  PROVE  LinksOf(v \o w) = LinksOf(v) \cup LinksOf(w)
<1> DEFINE m == Len(v)
           n == Len(w)
           both == v \o w
<1>1. m \in Nat /\ n \in Nat /\ DOMAIN v = 1 .. m /\ DOMAIN w = 1 .. n
  OBVIOUS
<1>2. DOMAIN both = 1 .. m + n /\ \A k \in 1 .. m + n : both[k] = IF k <= m THEN v[k] ELSE w[k - m]
  OBVIOUS
<1> HIDE DEF m, n, both
<1>3. \A k \in 1 .. m : k \in 1 .. m + n /\ both[k] = v[k]
  BY <1>1, <1>2
<1>4. \A k \in 1 .. n : m + k \in 1 .. m + n /\ both[m + k] = w[k]
  <2>1. \A k \in 1 .. n : m + k \in 1 .. m + n /\ ~(m + k <= m) /\ (m + k) - m = k
    BY <1>1
  <2> QED
    BY <1>2, <2>1
<1>5. \A k \in 1 .. m + n : k \in 1 .. m \/ \E j \in 1 .. n : k = m + j
  <2>1. ASSUME NEW k \in 1 .. m + n, k \notin 1 .. m PROVE \E j \in 1 .. n : k = m + j
    <3>1. k - m \in 1 .. n /\ k = m + (k - m)
      BY <1>1, <2>1
    <3> QED
      BY <3>1
  <2> QED
    BY <2>1
<1>6. ASSUME NEW x PROVE x \in LinksOf(both) <=> x \in LinksOf(v) \cup LinksOf(w)
  <2>1. x \in LinksOf(both) <=> \E k \in 1 .. m + n : both[k].link /\ x = both[k].at
    BY <1>2 DEF LinksOf
  <2>2. x \in LinksOf(v) <=> \E k \in 1 .. m : v[k].link /\ x = v[k].at
    BY <1>1 DEF LinksOf
  <2>3. x \in LinksOf(w) <=> \E k \in 1 .. n : w[k].link /\ x = w[k].at
    BY <1>1 DEF LinksOf
  <2>4. (\E k \in 1 .. m + n : both[k].link /\ x = both[k].at)
          <=> \/ \E k \in 1 .. m : v[k].link /\ x = v[k].at
              \/ \E k \in 1 .. n : w[k].link /\ x = w[k].at
    <3>1. ASSUME NEW k \in 1 .. m + n, both[k].link, x = both[k].at
          PROVE  \/ \E j \in 1 .. m : v[j].link /\ x = v[j].at
                 \/ \E j \in 1 .. n : w[j].link /\ x = w[j].at
      <4>1. CASE k \in 1 .. m
        BY <1>3, <3>1, <4>1
      <4>2. CASE \E j \in 1 .. n : k = m + j
        BY <1>4, <3>1, <4>2
      <4> QED
        BY <1>5, <4>1, <4>2
    <3>2. ASSUME NEW k \in 1 .. m, v[k].link, x = v[k].at
          PROVE  \E j \in 1 .. m + n : both[j].link /\ x = both[j].at
      BY <1>3, <3>2
    <3>3. ASSUME NEW k \in 1 .. n, w[k].link, x = w[k].at
          PROVE  \E j \in 1 .. m + n : both[j].link /\ x = both[j].at
      BY <1>4, <3>3
    <3> QED
      BY <3>1, <3>2, <3>3
  <2> QED
    BY <2>1, <2>2, <2>3, <2>4
<1> QED
  BY <1>6 DEF both

LEMMA LinksWritten ==
  ASSUME NEW t, t.from \in Nat, t.to \in Nat, t.from <= t.to
  PROVE  /\ LinksOf(Written(t, TRUE)) = t.from .. t.to - 1
         /\ LinksOf(Written(t, FALSE)) = {}
<1>1. PICK a \in Nat : a = t.from
  OBVIOUS
<1>2. PICK d \in Nat : d = t.to - t.from
  OBVIOUS
<1>3. t.to - 1 = a + d - 1
  BY <1>1, <1>2
<1>4. ASSUME NEW link \in BOOLEAN
      PROVE  /\ DOMAIN Written(t, link) = 1 .. d
             /\ \A k \in 1 .. d : Written(t, link)[k].at = a + k - 1 /\ Written(t, link)[k].link = link
  BY <1>1, <1>2 DEF Written
<1>5. LinksOf(Written(t, FALSE)) = {}
  <2>1. \A k \in 1 .. d : Written(t, FALSE)[k].link = FALSE
    BY <1>4, Zenon
  <2>2. DOMAIN Written(t, FALSE) = 1 .. d
    BY <1>4
  <2> QED
    BY <2>1, <2>2 DEF LinksOf
<1>6. LinksOf(Written(t, TRUE)) = {a + k - 1 : k \in 1 .. d}
  <2>1. \A k \in 1 .. d : Written(t, TRUE)[k].link = TRUE /\ Written(t, TRUE)[k].at = a + k - 1
    BY <1>4, Zenon
  <2>2. DOMAIN Written(t, TRUE) = 1 .. d
    BY <1>4
  <2> QED
    BY <2>1, <2>2 DEF LinksOf
<1>7. {a + k - 1 : k \in 1 .. d} = a .. a + d - 1
  <2>1. ASSUME NEW x \in a .. a + d - 1 PROVE x \in {a + k - 1 : k \in 1 .. d}
    <3>1. x - a + 1 \in 1 .. d /\ x = a + (x - a + 1) - 1
      BY <2>1
    <3> QED
      BY <3>1
  <2>2. \A k \in 1 .. d : a + k - 1 \in a .. a + d - 1
    OBVIOUS
  <2> QED
    BY <2>1, <2>2
<1> QED
  BY <1>1, <1>3, <1>5, <1>6, <1>7

LEMMA LinksPlain ==
  ASSUME text \in Texts, NEW t, IsToken(t)
  PROVE  LinksOf(Plain(t)) = {}
<1>1. Len(text) \in Nat
  BY DEF Texts
<1>2. t.from \in Nat /\ t.to \in Nat /\ t.from <= t.to
  BY <1>1 DEF IsToken
<1> QED
  BY <1>2, LinksWritten DEF Plain

LEMMA LinksLink ==
  ASSUME text \in Texts, NEW t, IsToken(t), t.type \in {"tag", "digits"}
  PROVE  LinksOf(Link(t)) = t.from .. EndIn(text, t.from) - 1
<1> DEFINE end == EndIn(text, t.from)
           inside == Tok("tag", t.from, end)
           behind == Tok("other", end, t.to)
<1>1. Len(text) \in Nat
  BY DEF Texts
<1>2. t.from \in Nat /\ t.to \in Nat /\ end \in Nat /\ t.from <= end /\ end <= t.to
  BY <1>1 DEF IsToken, EndIn
<1> HIDE DEF end
<1>3. inside.from = t.from /\ inside.to = end /\ behind.from = end /\ behind.to = t.to
  BY DEF Tok
<1> HIDE DEF inside, behind
<1>4. /\ Writes(Written(inside, TRUE), t.from, end) /\ Writes(Written(behind, FALSE), end, t.to)
      /\ LinksOf(Written(inside, TRUE)) = t.from .. end - 1 /\ LinksOf(Written(behind, FALSE)) = {}
  BY <1>2, <1>3, WrittenOnce, LinksWritten
<1>5. Link(t) = Written(inside, TRUE) \o Written(behind, FALSE)
  BY DEF Link, Plain, inside, behind, end, EndIn
<1>6. Written(inside, TRUE) \in Seq(Marks) /\ Written(behind, FALSE) \in Seq(Marks)
  BY <1>4 DEF Writes
<1>7. LinksOf(Link(t)) = LinksOf(Written(inside, TRUE)) \cup LinksOf(Written(behind, FALSE))
  BY <1>5, <1>6, LinksJoin
<1> QED
  BY <1>4, <1>7 DEF end

\* The line that the viewer scrolls to, of those noted.
Least(f, S) == IF S = {} THEN f = 0 ELSE f \in S /\ \A x \in S : f <= x

\* The characters written, the rows that are lit and the one scrolled to are
\* those of the tags and ranges before the place that is reached.
Lights(s, w, lamps, dom, f) ==
  LET c == Len(w) + 1 IN
  /\ Whole(s, c)
  /\ LinksOf(w) = LinkedTo(s, c)
  /\ ~WrapsIn(s) => lamps = NamedTo(s, c) \cap dom
  /\ ~WrapsIn(s) /\ 0 \notin NamedTo(s, c) => Least(f, NamedTo(s, c))

LightInv ==
  /\ state = "unread" => out = <<>> /\ lit = {} /\ first = 0
  /\ state \in {"unread", "reading", "done"} => Lights(text, out, lit, DOMAIN rows, first)

LEMMA NoLights ==
  ASSUME NEW s \in Texts, NEW dom
  PROVE  Lights(s, <<>>, {}, dom, 0)
<1>1. FirstsTo(s, 1) = {} /\ SecondsTo(s, 1) = {}
  <2>1. FirstsIn(s) \subseteq 1 .. Len(s) /\ SecondsIn(s) \subseteq 1 .. Len(s) /\ Len(s) \in Nat
    BY SecondAfterFirst DEF Texts
  <2> QED
    BY <2>1 DEF FirstsTo, SecondsTo
<1>2. Whole(s, 1) /\ NamedTo(s, 1) = {} /\ LinkedTo(s, 1) = {}
  BY <1>1 DEF Whole, NamedTo, LinkedTo
<1>3. LinksOf(<<>>) = {} /\ Len(<<>>) + 1 = 1
  BY DEF LinksOf
<1> QED
  BY <1>2, <1>3 DEF Lights, Least

\* Noting lines keeps the least of them.
LEMMA Noted ==
  ASSUME NEW S \in SUBSET Nat, NEW f, Least(f, S), NEW a \in Nat \ {0}, 0 \notin S
  PROVE  Least(Note(f, a), S \cup {a})
<1>1. CASE S = {}
  BY <1>1 DEF Least, Note
<1>2. CASE S # {}
  <2>1. f \in S /\ f \in Nat /\ f # 0 /\ \A y \in S : f <= y
    BY <1>2 DEF Least
  <2>2. CASE a < f
    <3>1. Note(f, a) = a
      BY <2>2 DEF Note
    <3>2. \A y \in S : a <= y
      BY <2>1, <2>2
    <3> QED
      BY <3>1, <3>2 DEF Least
  <2>3. CASE ~(a < f)
    <3>1. Note(f, a) = f /\ f <= a
      BY <2>1, <2>3 DEF Note
    <3> QED
      BY <2>1, <3>1 DEF Least
  <2> QED
    BY <2>2, <2>3
<1> QED
  BY <1>1, <1>2

LEMMA RangeNoted ==
  ASSUME NEW S \in SUBSET Nat, NEW f, Least(f, S), NEW a \in Nat \ {0}, NEW b \in Nat \ {0}, 0 \notin S,
         NEW ends, ends = Note(Note(f, a), b)
  PROVE  Least(IF a + 1 < b THEN Note(ends, a + 1) ELSE ends, S \cup {a} \cup ({b} \cup a .. b))
<1> DEFINE T == S \cup {a} \cup {b}
           U == S \cup {a} \cup ({b} \cup a .. b)
<1>1. S \cup {a} \in SUBSET Nat /\ 0 \notin S \cup {a} /\ Least(Note(f, a), S \cup {a})
  BY Noted
<1>2. Least(ends, T)
  BY <1>1, Noted
<1>3. T \in SUBSET Nat /\ 0 \notin T /\ T # {}
  BY <1>1
<1>4. ends \in T /\ \A y \in T : ends <= y
  BY <1>2, <1>3 DEF Least
<1>5. ends \in Nat /\ ends # 0 /\ ends <= a
  BY <1>3, <1>4
<1>6. \A y \in a .. b : ends <= y
  BY <1>5
<1>7. ends \in U /\ \A y \in U : ends <= y
  BY <1>4, <1>6
<1>8. Note(ends, a + 1) = ends
  <2>1. ~(a + 1 < ends) /\ ends # 0
    BY <1>5
  <2> QED
    BY <2>1 DEF Note
<1>9. Least(ends, U)
  BY <1>7 DEF Least
<1> QED
  BY <1>8, <1>9

LEMMA LightsAt ==
  ASSUME NEW s, NEW w, NEW lamps, NEW dom, NEW f, NEW d, d = Len(w) + 1, Whole(s, d), LinksOf(w) = LinkedTo(s, d),
         ~WrapsIn(s) => lamps = NamedTo(s, d) \cap dom,
         ~WrapsIn(s) /\ 0 \notin NamedTo(s, d) => Least(f, NamedTo(s, d))
  PROVE  Lights(s, w, lamps, dom, f)
  BY DEF Lights

LEMMA NumbersNamed ==
  ASSUME NEW s \in Texts
  PROVE  /\ \A p \in 1 .. Len(s) : TagIn(s, p) =>
              /\ NumberIn(s, p) \in Nat
              /\ RangeIn(s, p) = 0 \/ (RangeIn(s, p) \in 1 .. Len(s) /\ NumberIn(s, RangeIn(s, p)) \in Nat)
         /\ \A c : NamedTo(s, c) \in SUBSET Nat
<1>1. ASSUME NEW p \in 1 .. Len(s), TagIn(s, p)
      PROVE  /\ NumberIn(s, p) \in Nat
             /\ RangeIn(s, p) = 0 \/ (RangeIn(s, p) \in 1 .. Len(s) /\ NumberIn(s, RangeIn(s, p)) \in Nat)
  <2>1. PICK x : x = TokenIn(s, p)
    OBVIOUS
  <2>2. PICK y : y = TokenIn(s, x.to)
    OBVIOUS
  <2>3. PICK z : z = TokenIn(s, y.to)
    OBVIOUS
  <2>4. IF y.type = "dash" /\ z.type \in {"tag", "digits"}
        THEN RangeIn(s, p) = y.to /\ x.to \in 1 .. Len(s) /\ y.to \in 1 .. Len(s)
        ELSE RangeIn(s, p) = 0
    BY <1>1, <2>1, <2>2, <2>3, RangeOf
  <2>5. NumberIn(s, p) \in Nat
    <3>1. TokenIn(s, p).type = "tag"
      BY <1>1, TokensOf
    <3> QED
      BY <3>1, NumberOf
  <2>6. y.to \in 1 .. Len(s) /\ z.type \in {"tag", "digits"} => NumberIn(s, y.to) \in Nat
    BY <2>3, NumberOf
  <2> QED
    BY <2>4, <2>5, <2>6
<1>2. ASSUME NEW c PROVE NamedTo(s, c) \in SUBSET Nat
  <2>1. ASSUME NEW p \in FirstsTo(s, c) PROVE {NumberIn(s, p)} \cup Between(s, p) \subseteq Nat
    <3>1. p \in 1 .. Len(s) /\ TagIn(s, p)
      BY <2>1, SecondAfterFirst DEF FirstsTo
    <3>2. NumberIn(s, p) \in Nat /\ (RangeIn(s, p) = 0 \/ NumberIn(s, RangeIn(s, p)) \in Nat)
      BY <1>1, <3>1
    <3>3. \A a, b \in Nat : {b} \cup a .. b \subseteq Nat
      OBVIOUS
    <3> QED
      BY <3>2, <3>3 DEF Between
  <2> QED
    BY <2>1 DEF NamedTo
<1> QED
  BY <1>1, <1>2

\* What is written after a text: no tag,
LEMMA LightsPlain ==
  ASSUME NEW s \in Texts, NEW w \in Seq(Marks), NEW lamps, NEW dom, NEW f, Lights(s, w, lamps, dom, f),
         NEW c \in 1 .. Len(s), c = Len(w) + 1, NEW d \in c + 1 .. Len(s) + 1, NEW v, Writes(v, c, d),
         ~TagIn(s, c), \A j \in c + 1 .. d - 1 : ~TagIn(s, j), LinksOf(v) = {}
  PROVE  Lights(s, w \o v, lamps, dom, f)
<1>1. /\ Len(w \o v) + 1 = d
      /\ LinksOf(w \o v) = LinksOf(w) \cup LinksOf(v)
  <2>1. v \in Seq(Marks) /\ d = c + Len(v)
    BY DEF Writes
  <2>2. Len(w \o v) = Len(w) + Len(v) /\ Len(w) \in Nat /\ Len(v) \in Nat
    BY <2>1
  <2>3. Len(w \o v) + 1 = d
    BY <2>1, <2>2
  <2> QED
    BY <2>1, <2>3, LinksJoin
<1>2. /\ Whole(s, c)
      /\ LinksOf(w) = LinkedTo(s, c)
      /\ ~WrapsIn(s) => lamps = NamedTo(s, c) \cap dom
      /\ ~WrapsIn(s) /\ 0 \notin NamedTo(s, c) => Least(f, NamedTo(s, c))
  BY DEF Lights
<1>3. /\ Whole(s, d)
      /\ FirstsTo(s, d) = FirstsTo(s, c) \cup {p \in {c} : TagIn(s, c)}
      /\ SecondsTo(s, d) = SecondsTo(s, c) \cup {p \in {RangeIn(s, c)} : TagIn(s, c) /\ p # 0}
  BY <1>2, Passed
<1>4. FirstsTo(s, d) = FirstsTo(s, c) /\ SecondsTo(s, d) = SecondsTo(s, c)
  BY <1>3
<1>5. NamedTo(s, d) = NamedTo(s, c) /\ LinkedTo(s, d) = LinkedTo(s, c)
  BY <1>4, NamedOn
<1> QED
  BY <1>1, <1>2, <1>3, <1>5, LightsAt

\* a tag,
LEMMA LightsTag ==
  ASSUME NEW s \in Texts, NEW w \in Seq(Marks), NEW lamps, NEW dom, NEW f, Lights(s, w, lamps, dom, f),
         NEW c \in 1 .. Len(s), c = Len(w) + 1, NEW d \in c + 1 .. Len(s) + 1, NEW v, Writes(v, c, d),
         TagIn(s, c), RangeIn(s, c) = 0, \A j \in c + 1 .. d - 1 : ~TagIn(s, j),
         LinksOf(v) = c .. EndIn(s, c) - 1, NEW a, a = NumberIn(s, c)
  PROVE  Lights(s, w \o v, lamps \cup ({a} \cap dom), dom, Note(f, a))
<1>1. /\ Len(w \o v) + 1 = d
      /\ LinksOf(w \o v) = LinksOf(w) \cup LinksOf(v)
  <2>1. v \in Seq(Marks) /\ d = c + Len(v)
    BY DEF Writes
  <2>2. Len(w \o v) = Len(w) + Len(v) /\ Len(w) \in Nat /\ Len(v) \in Nat
    BY <2>1
  <2>3. Len(w \o v) + 1 = d
    BY <2>1, <2>2
  <2> QED
    BY <2>1, <2>3, LinksJoin
<1>2. /\ Whole(s, c)
      /\ LinksOf(w) = LinkedTo(s, c)
      /\ ~WrapsIn(s) => lamps = NamedTo(s, c) \cap dom
      /\ ~WrapsIn(s) /\ 0 \notin NamedTo(s, c) => Least(f, NamedTo(s, c))
  BY DEF Lights
<1>3. /\ Whole(s, d)
      /\ FirstsTo(s, d) = FirstsTo(s, c) \cup {p \in {c} : TagIn(s, c)}
      /\ SecondsTo(s, d) = SecondsTo(s, c) \cup {p \in {RangeIn(s, c)} : TagIn(s, c) /\ p # 0}
  BY <1>2, Passed
<1>4. FirstsTo(s, d) = FirstsTo(s, c) \cup {c} /\ SecondsTo(s, d) = SecondsTo(s, c)
  BY <1>3
<1>5. Between(s, c) = {}
  BY DEF Between
<1>6. /\ NamedTo(s, d) = NamedTo(s, c) \cup {a}
      /\ LinkedTo(s, d) = LinkedTo(s, c) \cup c .. EndIn(s, c) - 1
  BY <1>4, <1>5, NamedOn
<1>7. a \in Nat /\ NamedTo(s, c) \in SUBSET Nat
  BY NumbersNamed
<1>8. ASSUME ~WrapsIn(s), 0 \notin NamedTo(s, d)
      PROVE  Least(Note(f, a), NamedTo(s, d))
  <2>1. 0 \notin NamedTo(s, c) /\ a \in Nat \ {0}
    BY <1>6, <1>7, <1>8
  <2> QED
    BY <1>2, <1>6, <1>7, <1>8, <2>1, Noted
<1>9. ~WrapsIn(s) => lamps \cup ({a} \cap dom) = NamedTo(s, d) \cap dom
  BY <1>2, <1>6
<1> QED
  <2>1. PICK more, g : more = lamps \cup ({a} \cap dom) /\ g = Note(f, a)
    OBVIOUS
  <2>2. LinksOf(w \o v) = LinkedTo(s, d)
    BY <1>1, <1>2, <1>6
  <2>3. Lights(s, w \o v, more, dom, g)
    BY <1>1, <1>3, <1>8, <1>9, <2>1, <2>2, LightsAt
  <2> QED
    BY <2>1, <2>3

\* or a range, from c to d, of which r is the second part and that is from line a to line b.
RangeAt(s, c, d, r) ==
  /\ TagIn(s, c) /\ RangeIn(s, c) = r
  /\ \A j \in c + 1 .. d - 1 : TagIn(s, j) => j = r

RangeLit(a, b, lamps, dom, f, more, g) ==
  LET ends == Note(Note(f, a), b) IN
  \/ more = lamps \cup (({a, b} \cup a .. b) \cap dom) /\ g = IF a + 1 < b THEN Note(ends, a + 1) ELSE ends
  \/ a = MaxInt

LEMMA LightsRange ==
  ASSUME NEW s \in Texts, NEW w \in Seq(Marks), NEW lamps, NEW dom, NEW f, Lights(s, w, lamps, dom, f),
         NEW c \in 1 .. Len(s), c = Len(w) + 1, NEW d \in c + 1 .. Len(s) + 1, NEW v, Writes(v, c, d),
         NEW r \in c + 1 .. d - 1,
         RangeAt(s, c, d, r),
         LinksOf(v) = c .. EndIn(s, c) - 1 \cup r .. EndIn(s, r) - 1,
         NEW a, a = NumberIn(s, c), NEW b, b = NumberIn(s, r), NEW more, NEW g,
         RangeLit(a, b, lamps, dom, f, more, g)
  PROVE  Lights(s, w \o v, more, dom, g)
<1>0. /\ TagIn(s, c) /\ RangeIn(s, c) = r
      /\ \A j \in c + 1 .. d - 1 : TagIn(s, j) => j = r
  BY DEF RangeAt
<1>1. /\ Len(w \o v) + 1 = d /\ c \in Nat
      /\ LinksOf(w \o v) = LinksOf(w) \cup LinksOf(v)
  <2>1. v \in Seq(Marks) /\ d = c + Len(v)
    BY DEF Writes
  <2>2. Len(w \o v) = Len(w) + Len(v) /\ Len(w) \in Nat /\ Len(v) \in Nat
    BY <2>1
  <2>3. Len(w \o v) + 1 = d /\ c \in Nat
    BY <2>1, <2>2
  <2> QED
    BY <2>1, <2>3, LinksJoin
<1>2. /\ Whole(s, c)
      /\ LinksOf(w) = LinkedTo(s, c)
      /\ ~WrapsIn(s) => lamps = NamedTo(s, c) \cap dom
      /\ ~WrapsIn(s) /\ 0 \notin NamedTo(s, c) => Least(f, NamedTo(s, c))
  BY DEF Lights
<1>3. /\ Whole(s, d)
      /\ FirstsTo(s, d) = FirstsTo(s, c) \cup {p \in {c} : TagIn(s, c)}
      /\ SecondsTo(s, d) = SecondsTo(s, c) \cup {p \in {RangeIn(s, c)} : TagIn(s, c) /\ p # 0}
  BY <1>0, <1>2, Passed
<1>4. r # 0
  BY <1>1
<1>5. FirstsTo(s, d) = FirstsTo(s, c) \cup {c} /\ SecondsTo(s, d) = SecondsTo(s, c) \cup {r}
  BY <1>0, <1>3, <1>4
<1>6. Between(s, c) = {b} \cup a .. b
  BY <1>0, <1>4 DEF Between
<1>7. /\ NamedTo(s, d) = NamedTo(s, c) \cup {a} \cup ({b} \cup a .. b)
      /\ LinkedTo(s, d) = LinkedTo(s, c) \cup c .. EndIn(s, c) - 1 \cup r .. EndIn(s, r) - 1
  <2>1. NamedTo(s, d) = NamedTo(s, c) \cup {NumberIn(s, c)} \cup Between(s, c)
    BY <1>5, NamedOn
  <2>2. LinkedTo(s, d) = LinkedTo(s, c) \cup c .. EndIn(s, c) - 1 \cup r .. EndIn(s, r) - 1
    BY <1>5, NamedOn
  <2> QED
    BY <1>6, <2>1, <2>2
<1>8. a \in Nat /\ b \in Nat /\ NamedTo(s, c) \in SUBSET Nat
  BY <1>0, <1>4, NumbersNamed
<1>9. LinksOf(w \o v) = LinkedTo(s, d)
  BY <1>1, <1>2, <1>7
<1>10. CASE a = MaxInt
  <2>1. c \in FirstsIn(s)
    BY <1>5 DEF FirstsTo
  <2>2. WrapsIn(s)
    BY <1>0, <1>4, <1>10, <2>1 DEF WrapsIn
  <2> QED
    BY <1>1, <1>3, <1>9, <2>2, LightsAt
<1>11. CASE a # MaxInt
  <2>0. PICK ends : ends = Note(Note(f, a), b)
    OBVIOUS
  <2>1. more = lamps \cup (({a, b} \cup a .. b) \cap dom) /\ g = IF a + 1 < b THEN Note(ends, a + 1) ELSE ends
    BY <1>11, <2>0 DEF RangeLit
  <2>2. ~WrapsIn(s) /\ 0 \notin NamedTo(s, d) => Least(g, NamedTo(s, d))
    <3> SUFFICES ASSUME ~WrapsIn(s), 0 \notin NamedTo(s, d) PROVE Least(g, NamedTo(s, d))
      OBVIOUS
    <3>1. 0 \notin NamedTo(s, c) /\ a \in Nat \ {0} /\ b \in Nat \ {0}
      BY <1>7, <1>8
    <3>2. Least(f, NamedTo(s, c))
      BY <1>2, <3>1
    <3>3. Least(IF a + 1 < b THEN Note(ends, a + 1) ELSE ends, NamedTo(s, c) \cup {a} \cup ({b} \cup a .. b))
      BY <1>8, <2>0, <3>1, <3>2, RangeNoted
    <3> QED
      BY <1>7, <2>1, <3>3
  <2>3. ~WrapsIn(s) => more = NamedTo(s, d) \cap dom
    BY <1>2, <1>7, <2>1
  <2> QED
    BY <1>1, <1>3, <1>9, <2>2, <2>3, LightsAt
<1> QED
  BY <1>10, <1>11

\* The tokens that a step of the parser looks at.
LEMMA Looks ==
  ASSUME IInv
  PROVE  LET t0 == Lexer(pos, stack)
             t1 == After(t0)
             t2 == After(t1)
         IN /\ IsToken(t0.tok) /\ t0.tok.from = Len(out) + 1
            /\ IsToken(t1.tok) /\ t1.tok.from = t0.tok.to
            /\ IsToken(t2.tok) /\ t2.tok.from = t1.tok.to
<1> DEFINE t0 == Lexer(pos, stack)
           t1 == After(t0)
           t2 == After(t1)
<1>1. text \in Texts /\ LexerAt(t0, Len(out) + 1)
  BY LexerStarts DEF IInv
<1>2. LexerAt(t1, t0.tok.to)
  BY <1>1, LexerGoesOn
<1>3. LexerAt(t2, t1.tok.to)
  BY <1>1, <1>2, LexerGoesOn
<1> QED
  BY <1>1, <1>2, <1>3 DEF LexerAt

LEMMA LightsGoOn ==
  ASSUME IInv, LightInv, ParseStep
  PROVE  LightInv'
<1> DEFINE t0 == Lexer(pos, stack)
           t1 == After(t0)
           t2 == After(t1)
<1>1. PICK x : x = t0.tok
  OBVIOUS
<1>2. PICK y : y = t1.tok
  OBVIOUS
<1>3. PICK z : z = t2.tok
  OBVIOUS
<1>4. PICK s : s = text
  OBVIOUS
<1>5. PICK c : c = Len(out) + 1
  OBVIOUS
<1>6. PICK dom : dom = DOMAIN rows
  OBVIOUS
<1>7. /\ text \in Texts /\ out \in Seq(Marks)
      /\ IsToken(x) /\ x.from = c /\ IsToken(y) /\ y.from = x.to /\ IsToken(z) /\ z.from = y.to
  BY <1>1, <1>2, <1>3, <1>5, Looks DEF IInv, Writes
<1>8. /\ s \in Texts /\ Len(s) \in Nat /\ c \in 1 .. Len(s) + 1
      /\ x = TokenIn(s, c) /\ y = TokenIn(s, x.to) /\ z = TokenIn(s, y.to)
  BY <1>4, <1>7 DEF IsToken, Texts
<1>9. state = "reading" /\ text' = text /\ rows' = rows /\ Lights(s, out, lit, dom, first)
  BY <1>4, <1>6 DEF ParseStep, LightInv
<1>10. \/ x.type = "eof" /\ state' = "done" /\ lit' = lit /\ out' = out /\ first' = first
       \/ /\ x.type \notin {"eof", "tag"} /\ out' = out \o Plain(x)
          /\ lit' = lit /\ first' = first /\ state' = state
       \/ /\ x.type = "tag" /\ ~(y.type = "dash" /\ z.type \in {"tag", "digits"})
          /\ out' = out \o Link(x) /\ Highlight(Line(x)) /\ state' = state
       \/ /\ x.type = "tag" /\ y.type = "dash" /\ z.type \in {"tag", "digits"}
          /\ out' = out \o Link(x) \o Plain(y) \o Link(z)
          /\ HighlightRange(Line(x), Line(z)) /\ state' = state
       \/ state' = "failed"
  BY <1>1, <1>2, <1>3 DEF ParseStep, parser
<1> HIDE DEF t0, t1, t2
<1>11. ASSUME Lights(s, out', lit', dom, first'), state' \in {"reading", "done"} PROVE LightInv'
  BY <1>4, <1>6, <1>9, <1>11 DEF LightInv
<1>12. ASSUME NEW p \in 1 .. Len(s), NEW t, t = TokenIn(s, p), t.type \in {"tag", "digits"}
       PROVE  Line(t) = NumberIn(s, p)
  <2>1. t.from = p
    BY <1>8, <1>12, TokensOf
  <2>2. Line(t) = ValueIn(s, p, t.to)
    BY <1>4, <2>1, ValueIs DEF Line
  <2> QED
    BY <1>8, <1>12, <2>2, NumberOf
<1>13. x.type # "eof" =>
         /\ c \in 1 .. Len(s) /\ x.to \in c + 1 .. Len(s) + 1
         /\ x.type = "tag" <=> TagIn(s, c)
         /\ \A j \in c + 1 .. x.to - 1 : ~TagIn(s, j)
  <2> SUFFICES ASSUME x.type # "eof"
               PROVE  /\ c \in 1 .. Len(s) /\ x.to \in c + 1 .. Len(s) + 1
                      /\ x.type = "tag" <=> TagIn(s, c)
                      /\ \A j \in c + 1 .. x.to - 1 : ~TagIn(s, j)
    OBVIOUS
  <2>1. c # Len(s) + 1
    <3> SUFFICES ASSUME c = Len(s) + 1 PROVE FALSE
      OBVIOUS
    <3>1. c > Len(s) /\ c \notin DOMAIN s /\ ~(c < Len(s))
      BY <1>8 DEF Texts
    <3>2. x = Tok("eof", c, c)
      BY <1>8, <3>1 DEF TokenIn, TagIn
    <3> QED
      BY <3>2 DEF Tok
  <2>2. c \in 1 .. Len(s)
    BY <1>8, <2>1
  <2> QED
    BY <1>8, <2>2, TokensOf
<1>14. CASE x.type = "eof" /\ state' = "done" /\ lit' = lit /\ out' = out /\ first' = first
  BY <1>9, <1>11, <1>14
<1>15. CASE /\ x.type \notin {"eof", "tag"} /\ out' = out \o Plain(x)
            /\ lit' = lit /\ first' = first /\ state' = state
  <2>1. Writes(Plain(x), c, x.to) /\ LinksOf(Plain(x)) = {}
    BY <1>7, PlainOnce, LinksPlain
  <2>2. Lights(s, out \o Plain(x), lit, dom, first)
    BY <1>5, <1>7, <1>8, <1>9, <1>13, <1>15, <2>1, LightsPlain
  <2> QED
    BY <1>9, <1>11, <1>15, <2>2
<1>16. CASE /\ x.type = "tag" /\ ~(y.type = "dash" /\ z.type \in {"tag", "digits"})
            /\ out' = out \o Link(x) /\ Highlight(Line(x)) /\ state' = state
  <2>1. Writes(Link(x), c, x.to) /\ LinksOf(Link(x)) = c .. EndIn(s, c) - 1
    BY <1>4, <1>7, <1>16, LinkOnce, LinksLink
  <2>2. RangeIn(s, c) = 0
    BY <1>8, <1>13, <1>16, RangeOf
  <2>3. Line(x) = NumberIn(s, c)
    BY <1>8, <1>12, <1>13, <1>16
  <2>4. lit' = lit \cup ({NumberIn(s, c)} \cap dom) /\ first' = Note(first, NumberIn(s, c))
    BY <1>6, <1>16, <2>3 DEF Highlight, Light
  <2>5. Lights(s, out \o Link(x), lit \cup ({NumberIn(s, c)} \cap dom), dom, Note(first, NumberIn(s, c)))
    BY <1>5, <1>7, <1>8, <1>9, <1>13, <1>16, <2>1, <2>2, LightsTag
  <2> QED
    BY <1>9, <1>11, <1>16, <2>4, <2>5
<1>17. CASE /\ x.type = "tag" /\ y.type = "dash" /\ z.type \in {"tag", "digits"}
            /\ out' = out \o Link(x) \o Plain(y) \o Link(z)
            /\ HighlightRange(Line(x), Line(z)) /\ state' = state
  <2>1. /\ TagIn(s, c) /\ c \in 1 .. Len(s) /\ x.to \in c + 1 .. Len(s) + 1
        /\ \A j \in c + 1 .. x.to - 1 : ~TagIn(s, j)
    BY <1>13, <1>17
  <2>2. RangeIn(s, c) = y.to /\ x.to \in 1 .. Len(s) /\ y.to \in 1 .. Len(s)
    BY <1>8, <1>17, <2>1, RangeOf
  <2>3. /\ y.to \in x.to + 1 .. Len(s) + 1 /\ ~TagIn(s, x.to)
        /\ \A j \in x.to + 1 .. y.to - 1 : ~TagIn(s, j)
    <3>1. ~(y.type = "tag")
      BY <1>17
    <3> QED
      BY <1>8, <2>2, <3>1, TokensOf
  <2>4. /\ z.to \in y.to + 1 .. Len(s) + 1
        /\ \A j \in y.to + 1 .. z.to - 1 : ~TagIn(s, j)
    BY <1>8, <2>2, TokensOf
  <2>5. \A j \in c + 1 .. z.to - 1 : TagIn(s, j) => j = y.to
    <3>1. \A j \in c + 1 .. z.to - 1 : \/ j \in c + 1 .. x.to - 1 \/ j = x.to
                                       \/ j \in x.to + 1 .. y.to - 1 \/ j = y.to
                                       \/ j \in y.to + 1 .. z.to - 1
      BY <1>8, <2>1, <2>3, <2>4
    <3> QED
      BY <2>1, <2>3, <2>4, <3>1
  <2>6. y.to \in c + 1 .. z.to - 1 /\ z.to \in c + 1 .. Len(s) + 1
    BY <1>8, <2>1, <2>3, <2>4
  <2>7. PICK u : u = Link(x)
    OBVIOUS
  <2>8. PICK v : v = Plain(y)
    OBVIOUS
  <2>9. PICK w : w = Link(z)
    OBVIOUS
  <2>10. /\ Writes(u, c, x.to) /\ LinksOf(u) = c .. EndIn(s, c) - 1
         /\ Writes(v, x.to, y.to) /\ LinksOf(v) = {}
         /\ Writes(w, y.to, z.to) /\ LinksOf(w) = y.to .. EndIn(s, y.to) - 1
    BY <1>4, <1>7, <1>17, <2>7, <2>8, <2>9, LinkOnce, LinksLink, PlainOnce, LinksPlain
  <2>11. u \in Seq(Marks) /\ v \in Seq(Marks) /\ w \in Seq(Marks) /\ u \o v \in Seq(Marks)
    BY <2>10, ConcatProperties DEF Writes
  <2>12. Writes((u \o v) \o w, c, z.to)
    BY <2>10, WritesOn
  <2>13. LinksOf((u \o v) \o w) = c .. EndIn(s, c) - 1 \cup y.to .. EndIn(s, y.to) - 1
    <3>1. LinksOf(u \o v) = LinksOf(u) \cup LinksOf(v)
      BY <2>11, LinksJoin
    <3>2. LinksOf((u \o v) \o w) = LinksOf(u \o v) \cup LinksOf(w)
      BY <2>11, LinksJoin
    <3> QED
      BY <2>10, <3>1, <3>2
  <2>14. out' = out \o ((u \o v) \o w)
    <3>1. out' = ((out \o u) \o v) \o w
      BY <1>17, <2>7, <2>8, <2>9
    <3>2. \A m, n, k \in Seq(Marks) : (m \o n) \o k = m \o (n \o k)
      BY ConcatAssociative
    <3>3. (out \o u) \o v = out \o (u \o v)
      BY <1>7, <2>11, <3>2
    <3>4. (out \o (u \o v)) \o w = out \o ((u \o v) \o w)
      BY <1>7, <2>11, <3>2
    <3> QED
      BY <3>1, <3>3, <3>4
  <2>15. Line(x) = NumberIn(s, c) /\ Line(z) = NumberIn(s, y.to)
    BY <1>8, <1>12, <1>17, <2>1, <2>2
  <2>16. PICK a, b : a = NumberIn(s, c) /\ b = NumberIn(s, y.to)
    OBVIOUS
  <2>17. RangeLit(a, b, lit, dom, first, lit', first')
    BY <1>6, <1>17, <2>15, <2>16 DEF HighlightRange, Light, RangeLit
  <2>18. PICK o : o = (u \o v) \o w
    OBVIOUS
  <2>19. /\ s \in Texts /\ out \in Seq(Marks) /\ c \in 1 .. Len(s) /\ z.to \in c + 1 .. Len(s) + 1
         /\ Writes(o, c, z.to) /\ y.to \in c + 1 .. z.to - 1
    BY <1>7, <1>8, <2>1, <2>6, <2>12, <2>18
  <2>20. /\ RangeAt(s, c, z.to, y.to)
         /\ LinksOf(o) = c .. EndIn(s, c) - 1 \cup y.to .. EndIn(s, y.to) - 1
    BY <2>1, <2>2, <2>5, <2>13, <2>18 DEF RangeAt
  <2>21. Lights(s, out \o o, lit', dom, first')
    <3>1. PICK m, lamps, more, f, g, d, r : /\ m = out /\ lamps = lit /\ more = lit' /\ f = first
                                           /\ g = first' /\ d = z.to /\ r = y.to
      OBVIOUS
    <3>2. /\ m \in Seq(Marks) /\ Lights(s, m, lamps, dom, f)
          /\ c = Len(m) + 1 /\ d \in c + 1 .. Len(s) + 1 /\ Writes(o, c, d)
          /\ r \in c + 1 .. d - 1 /\ RangeAt(s, c, d, r)
          /\ LinksOf(o) = c .. EndIn(s, c) - 1 \cup r .. EndIn(s, r) - 1
          /\ a = NumberIn(s, c) /\ b = NumberIn(s, r) /\ RangeLit(a, b, lamps, dom, f, more, g)
      BY <1>5, <1>9, <2>16, <2>17, <2>19, <2>20, <3>1
    <3>3. Lights(s, m \o o, more, dom, g)
      BY <2>19, <3>2, LightsRange
    <3> QED
      BY <3>1, <3>3
  <2> QED
    BY <1>9, <1>11, <1>17, <2>14, <2>18, <2>21
<1>18. CASE state' = "failed"
  BY <1>18 DEF LightInv
<1> QED
  BY <1>10, <1>14, <1>15, <1>16, <1>17, <1>18

(* Once an explanation is read, the links are around the lines that it names, those that the viewer has are lit up  *)
(* and it scrolls to the first of them, however the citations, ranges and dashes are mixed; but for line 0, and for  *)
(* a range that starts at the largest int (Explanation_parser.C:69-107 and 208-213, File_viewer.C:241-251).          *)
THEOREM NamedAreLit == Spec => []LightsNamed
<1>1. ASSUME Init PROVE LightInv
  <2>1. text \in Texts /\ out = <<>> /\ lit = {} /\ first = 0
    BY <1>1, ListingAssumption DEF Init, Texts
  <2> QED
    BY <2>1, NoLights DEF LightInv
<1>2. ASSUME IInv, IInv', LightInv, [Next]_vars PROVE LightInv'
  <2>1. CASE Upload
    BY <1>2, <2>1 DEF Upload, LightInv, parser
  <2>2. CASE Reload
    <3>1. state' = "unread" => out' = <<>> /\ lit' = {} /\ first' = 0 /\ state = "unread"
      BY <1>2, <2>2 DEF Reload, LightInv, parser
    <3>2. state' \notin {"reading", "done"}
      BY <1>2, <2>2 DEF Reload
    <3>3. text' \in Texts
      BY <1>2 DEF IInv
    <3>4. PICK s, dom : s = text' /\ dom = DOMAIN rows'
      OBVIOUS
    <3>5. Lights(s, <<>>, {}, dom, 0)
      BY <3>3, <3>4, NoLights
    <3> QED
      BY <3>1, <3>2, <3>4, <3>5 DEF LightInv
  <2>3. CASE Read
    BY <1>2, <2>3 DEF Read, LightInv, parser
  <2>4. CASE UNCHANGED vars
    BY <1>2, <2>4 DEF vars, parser, LightInv
  <2> QED
    BY <1>2, <2>1, <2>2, <2>3, <2>4, LightsGoOn DEF Next
<1>3. ASSUME IInv, LightInv PROVE LightsNamed
  <2> SUFFICES ASSUME state = "done" PROVE LightsNamed
    BY DEF LightsNamed
  <2>1. text \in Texts /\ Len(out) = Len(text) /\ Lights(text, out, lit, DOMAIN rows, first)
    BY <1>3 DEF IInv, LightInv
  <2>2. /\ LinksOf(out) = LinkedAt
        /\ ~Wraps => lit = Named \cap DOMAIN rows
        /\ ~Wraps /\ 0 \notin Named => Least(first, Named)
    BY <2>1, NamedSame DEF Lights
  <2> QED
    BY <2>2 DEF LightsNamed, LinksOf, Least
<1> QED
  BY <1>1, <1>2, <1>3, Invariance, PTL DEF Spec

-----------------------------------------------------------------------------
(* Up and down an interval *)

LEMMA GoingUp ==
  ASSUME NEW a \in Nat, NEW b \in Nat, NEW S, a \in S, \A p \in a .. b - 1 : p \in S => p + 1 \in S
  PROVE  \A p \in a .. b : p \in S
<1> DEFINE D == {d \in Nat : a + d <= b => a + d \in S}
<1>1. 0 \in D
  OBVIOUS
<1>2. ASSUME NEW d \in D PROVE d + 1 \in D
  <2> SUFFICES ASSUME a + (d + 1) <= b PROVE a + (d + 1) \in S
    OBVIOUS
  <2>1. a + d \in a .. b - 1 /\ (a + d) + 1 = a + (d + 1)
    OBVIOUS
  <2> QED
    BY <1>2, <2>1
<1>3. D = Nat
  <2> HIDE DEF D
  <2>1. D \subseteq Nat
    BY DEF D
  <2> QED
    BY <1>1, <1>2, <2>1, SetInduction
<1>4. \A d \in Nat : a + d <= b => a + d \in S
  BY <1>3
<1>5. ASSUME NEW p \in a .. b PROVE p \in S
  <2>1. p - a \in Nat /\ a + (p - a) = p /\ p <= b
    OBVIOUS
  <2> QED
    BY <1>4, <2>1
<1> QED
  BY <1>5

LEMMA GoingDown ==
  ASSUME NEW a \in Nat, NEW b \in Nat, NEW S,
         \A p \in a .. b : (\A q \in p + 1 .. b : q \in S) => p \in S
  PROVE  \A p \in a .. b : p \in S
<1> DEFINE D == {d \in Nat : \A q \in a .. b : q + d >= b => q \in S}
<1>1. 0 \in D
  <2>1. ASSUME NEW q \in a .. b, q + 0 >= b PROVE q \in S
    <3>1. \A r \in q + 1 .. b : FALSE
      BY <2>1
    <3> QED
      BY <3>1
  <2> QED
    BY <2>1
<1>2. ASSUME NEW d \in D PROVE d + 1 \in D
  <2>1. ASSUME NEW q \in a .. b, q + (d + 1) >= b PROVE q \in S
    <3>1. \A r \in q + 1 .. b : r \in a .. b /\ r + d >= b
      BY <2>1
    <3> QED
      BY <1>2, <3>1
  <2> QED
    BY <2>1
<1>3. D = Nat
  <2> HIDE DEF D
  <2>1. D \subseteq Nat
    BY DEF D
  <2> QED
    BY <1>1, <1>2, <2>1, SetInduction
<1>4. ASSUME NEW p \in a .. b PROVE p \in S
  <2>1. b \in D
    <3> HIDE DEF D
    <3> QED
      BY <1>3
  <2>2. p + b >= b
    OBVIOUS
  <2> QED
    BY <2>1, <2>2
<1> QED
  BY <1>4

-----------------------------------------------------------------------------
(* Sequences put one after another *)

\* Each of them added to those before it.
Flattens(f, seqs) ==
  f = [i \in 1 .. Len(seqs) |-> IF i = 1 THEN seqs[i] ELSE f[i - 1] \o seqs[i]]

LEMMA FlattenSame ==
  \A seqs : FlattenSeq(seqs) = IF Len(seqs) = 0 THEN seqs ELSE (CHOOSE f : Flattens(f, seqs))[Len(seqs)]
  BY DEF FlattenSeq, Flattens

\* The sequences over some set, which can be put one after another.
Strings(V) == \E S : V = Seq(S)

LEMMA StringsJoin ==
  ASSUME NEW V, Strings(V)
  PROVE  /\ <<>> \in V
         /\ \A u, v \in V : u \o v \in V
         /\ \A u, v, w \in V : (u \o v) \o w = u \o (v \o w)
         /\ \A u \in V : u \o <<>> = u /\ <<>> \o u = u
<1>1. PICK S : V = Seq(S)
  BY DEF Strings
<1>2. \A u, v \in Seq(S) : u \o v \in Seq(S)
  BY ConcatProperties
<1>3. \A u, v, w \in Seq(S) : (u \o v) \o w = u \o (v \o w)
  BY ConcatAssociative
<1>4. \A u \in Seq(S) : u \o <<>> = u /\ <<>> \o u = u
  BY ConcatEmptySeq
<1>5. <<>> \in Seq(S)
  OBVIOUS
<1> QED
  BY <1>1, <1>2, <1>3, <1>4, <1>5

\* What a sequence of sequences flattens to, with those of its first members.
Flat(f, seqs) ==
  /\ f[1] = seqs[1]
  /\ \A i \in 2 .. Len(seqs) : f[i] = f[i - 1] \o seqs[i]
  /\ FlattenSeq(seqs) = f[Len(seqs)]

LEMMA FlattenIs ==
  ASSUME NEW V, Strings(V), NEW seqs \in Seq(V), Len(seqs) # 0
  PROVE  \E f \in [1 .. Len(seqs) -> V] : Flat(f, seqs)
<1>1. PICK n : n = Len(seqs)
  OBVIOUS
<1>2. n \in Nat /\ 1 <= n /\ \A i \in 1 .. n : seqs[i] \in V
  BY <1>1
<1> DEFINE base == seqs[1]
           step == [i \in 1 + 1 .. n |-> [v \in V |-> v \o seqs[i]]]
<1>3. \A u, v \in V : u \o v \in V
  BY StringsJoin
<1>4. base \in V /\ step \in [1 + 1 .. n -> [V -> V]]
  <2>1. \A i \in 1 + 1 .. n : \A v \in V : v \o seqs[i] \in V
    BY <1>2, <1>3
  <2>2. 1 \in 1 .. n
    BY <1>2
  <2> QED
    BY <1>2, <2>1, <2>2
<1>5. \A i \in 1 + 1 .. n, v \in V : step[i][v] = v \o seqs[i]
  OBVIOUS
<1> HIDE DEF step
<1>6. PICK g \in [1 .. n -> V] : GoesUp(g, 1, n, base, step)
  BY <1>2, <1>4, Recursion
<1>7. ASSUME NEW i \in 1 .. n PROVE g[i] = IF i = 1 THEN seqs[i] ELSE g[i - 1] \o seqs[i]
  <2>1. g[i] = IF i = 1 THEN base ELSE step[i][g[i - 1]]
    BY <1>6 DEF GoesUp
  <2>2. i # 1 => i \in 1 + 1 .. n /\ i - 1 \in 1 .. n
    BY <1>2
  <2>3. i # 1 => g[i - 1] \in V
    BY <2>2
  <2> QED
    BY <1>5, <2>1, <2>2, <2>3
<1>8. Flattens(g, seqs)
  BY <1>7, <1>1 DEF Flattens
<1> DEFINE f == CHOOSE h : Flattens(h, seqs)
<1>9. Flattens(f, seqs)
  BY <1>8
<1>10. FlattenSeq(seqs) = f[n]
  BY <1>2, <1>1, FlattenSame
<1> HIDE DEF f
<1>11. f = [i \in 1 .. n |-> f[i]]
  BY <1>9, <1>1 DEF Flattens
<1>12. \A i \in 1 .. n : f[i] = IF i = 1 THEN seqs[i] ELSE f[i - 1] \o seqs[i]
  BY <1>9, <1>1 DEF Flattens
<1>13. f[1] = seqs[1] /\ \A i \in 2 .. n : f[i] = f[i - 1] \o seqs[i]
  <2>1. 1 \in 1 .. n /\ \A i \in 2 .. n : i \in 1 .. n /\ i # 1
    BY <1>2
  <2> QED
    BY <1>12, <2>1
<1>14. \A i \in 1 .. n : f[i] \in V
  <2> DEFINE T == {i \in Nat : f[i] \in V}
  <2>1. 1 \in T
    BY <1>2, <1>13
  <2>2. ASSUME NEW i \in 1 .. n - 1, i \in T PROVE i + 1 \in T
    <3>1. f[i] \in V /\ i + 1 \in 2 .. n /\ i + 1 \in 1 .. n /\ i + 1 \in Nat /\ (i + 1) - 1 = i
      BY <1>2, <2>2
    <3>2. f[i + 1] = f[i] \o seqs[i + 1]
      BY <1>13, <3>1
    <3>3. f[i] \o seqs[i + 1] \in V
      BY <1>2, <1>3, <3>1
    <3> QED
      BY <3>1, <3>2, <3>3
  <2> HIDE DEF T
  <2>3. \A i \in 1 .. n : i \in T
    BY <1>2, <2>1, <2>2, GoingUp
  <2> QED
    BY <2>3 DEF T
<1>15. f \in [1 .. n -> V]
  BY <1>11, <1>14
<1> QED
  BY <1>10, <1>13, <1>1, <1>15 DEF Flat

\* They are added in one way only.
LEMMA FlattenOnce ==
  ASSUME NEW V, Strings(V), NEW seqs \in Seq(V), Len(seqs) # 0, NEW g, g[1] = seqs[1],
         \A i \in 2 .. Len(seqs) : g[i] = g[i - 1] \o seqs[i]
  PROVE  FlattenSeq(seqs) = g[Len(seqs)]
<1>0. PICK n : n = Len(seqs)
  OBVIOUS
<1>1. PICK f \in [1 .. n -> V] :
           /\ f[1] = seqs[1]
           /\ \A i \in 2 .. n : f[i] = f[i - 1] \o seqs[i]
           /\ FlattenSeq(seqs) = f[n]
  <2>1. PICK f \in [1 .. Len(seqs) -> V] : Flat(f, seqs)
    BY FlattenIs
  <2> QED
    BY <1>0, <2>1 DEF Flat
<1> DEFINE T == {i \in Nat : f[i] = g[i]}
<1>2. n \in Nat /\ n \in 1 .. n
  BY <1>0
<1>3. 1 \in T
  BY <1>1
<1>4. ASSUME NEW i \in 1 .. n - 1, i \in T PROVE i + 1 \in T
  <2>1. f[i] = g[i] /\ i + 1 \in 2 .. n /\ (i + 1) - 1 = i
    BY <1>2, <1>4
  <2>2. f[i + 1] = f[i] \o seqs[i + 1] /\ g[i + 1] = g[i] \o seqs[i + 1]
    BY <1>0, <1>1, <2>1
  <2>3. i + 1 \in Nat
    BY <1>4
  <2> QED
    BY <2>1, <2>2, <2>3
<1> HIDE DEF T
<1>5. \A i \in 1 .. n : i \in T
  BY <1>2, <1>3, <1>4, GoingUp
<1> QED
  BY <1>0, <1>1, <1>2, <1>5 DEF T

LEMMA FlattenType ==
  ASSUME NEW V, Strings(V), NEW seqs \in Seq(V)
  PROVE  FlattenSeq(seqs) \in V
<1>0. <<>> \in V
  BY StringsJoin
<1>1. CASE Len(seqs) = 0
  <2>1. seqs = <<>>
    BY <1>1, EmptySeq
  <2>2. FlattenSeq(seqs) = seqs
    BY <1>1, FlattenSame
  <2> QED
    BY <1>0, <2>1, <2>2
<1>2. CASE Len(seqs) # 0
  <2>1. PICK f \in [1 .. Len(seqs) -> V] : Flat(f, seqs)
    BY <1>2, FlattenIs
  <2>2. Len(seqs) \in 1 .. Len(seqs)
    BY <1>2
  <2> QED
    BY <2>1, <2>2 DEF Flat
<1> QED
  BY <1>1, <1>2

\* The first is put before the others.
LEMMA FlattenFirst ==
  ASSUME NEW V, Strings(V), NEW a \in V, NEW rest \in Seq(V)
  PROVE  /\ <<a>> \o rest \in Seq(V)
         /\ FlattenSeq(<<a>> \o rest) = a \o FlattenSeq(rest)
<1> DEFINE seqs == <<a>> \o rest
           n == Len(rest)
<1>1. n \in Nat /\ seqs \in Seq(V) /\ Len(seqs) = n + 1
      /\ seqs[1] = a /\ \A i \in 2 .. n + 1 : seqs[i] = rest[i - 1]
  <2>1. <<a>> \in Seq(V) /\ Len(<<a>>) = 1 /\ n \in Nat
    OBVIOUS
  <2>2. /\ seqs \in Seq(V) /\ Len(seqs) = 1 + n
        /\ \A i \in 1 .. 1 + n : seqs[i] = IF i <= 1 THEN <<a>>[i] ELSE rest[i - 1]
    BY <2>1, ConcatProperties
  <2> HIDE DEF seqs
  <2>3. Len(seqs) = n + 1
    BY <2>1, <2>2
  <2>4. seqs[1] = a
    <3>1. 1 \in 1 .. 1 + n
      BY <2>1
    <3>2. seqs[1] = <<a>>[1]
      BY <2>2, <3>1
    <3> QED
      BY <3>2
  <2>5. \A i \in 2 .. n + 1 : i \in 1 .. 1 + n /\ ~(i <= 1)
    BY <2>1
  <2> QED
    BY <2>1, <2>2, <2>3, <2>4, <2>5
<1> HIDE DEF seqs
<1>2. CASE n = 0
  <2>1. rest = <<>> /\ FlattenSeq(rest) = rest
    BY <1>2, EmptySeq, FlattenSame
  <2>2. Len(seqs) = 1
    BY <1>1, <1>2
  <2>3. PICK f \in [1 .. Len(seqs) -> V] : Flat(f, seqs)
    BY <1>1, <2>2, FlattenIs
  <2>4. FlattenSeq(seqs) = a
    BY <1>1, <2>2, <2>3 DEF Flat
  <2>5. a \o <<>> = a
    BY StringsJoin
  <2> QED
    BY <1>1, <2>1, <2>4, <2>5 DEF seqs
<1>3. \A x, y, z \in V : (x \o y) \o z = x \o (y \o z)
  BY StringsJoin
<1>4. CASE n # 0
  <2>1. PICK f \in [1 .. n -> V] :
           /\ f[1] = rest[1]
           /\ \A i \in 2 .. n : f[i] = f[i - 1] \o rest[i]
           /\ FlattenSeq(rest) = f[n]
    <3>1. PICK f \in [1 .. Len(rest) -> V] : Flat(f, rest)
      BY <1>4, FlattenIs
    <3> QED
      BY <3>1 DEF Flat
  <2>2. PICK g : g = [i \in 1 .. n + 1 |-> IF i = 1 THEN a ELSE a \o f[i - 1]]
    OBVIOUS
  <2>3. g[1] = a /\ \A i \in 2 .. n + 1 : g[i] = a \o f[i - 1]
    <3>1. 1 \in 1 .. n + 1 /\ \A i \in 2 .. n + 1 : i \in 1 .. n + 1 /\ i # 1
      BY <1>1
    <3> QED
      BY <2>2, <3>1
  <2>4. ASSUME NEW i \in 2 .. n + 1 PROVE g[i] = g[i - 1] \o seqs[i]
    <3>1. i - 1 \in 1 .. n /\ seqs[i] = rest[i - 1] /\ g[i] = a \o f[i - 1]
      BY <1>1, <2>3
    <3>2. CASE i = 2
      <4>1. i - 1 = 1
        BY <3>2
      <4> QED
        BY <2>1, <2>3, <3>1, <4>1
    <3>3. CASE i # 2
      <4>1. PICK j, k : j = i - 1 /\ k = j - 1
        OBVIOUS
      <4>2. j \in 2 .. n /\ j \in 2 .. n + 1 /\ j \in 1 .. n /\ k \in 1 .. n
        BY <1>1, <3>3, <4>1
      <4>3. f[j] = f[k] \o rest[j] /\ g[j] = a \o f[k] /\ seqs[i] = rest[j] /\ g[i] = a \o f[j]
        BY <2>1, <2>3, <3>1, <4>1, <4>2
      <4>4. f[k] \in V /\ rest[j] \in V
        BY <4>2
      <4>5. (a \o f[k]) \o rest[j] = a \o (f[k] \o rest[j])
        BY <1>3, <4>4
      <4>6. g[i] = g[j] \o seqs[i]
        BY <4>3, <4>5
      <4> QED
        BY <4>1, <4>6
    <3> QED
      BY <3>2, <3>3
  <2>5. n + 1 # 0 /\ n + 1 \in 2 .. n + 1 /\ (n + 1) - 1 = n
    BY <1>1, <1>4
  <2>6. FlattenSeq(seqs) = g[n + 1]
    BY <1>1, <2>3, <2>4, <2>5, FlattenOnce
  <2> QED
    BY <1>1, <2>1, <2>3, <2>5, <2>6 DEF seqs
<1> QED
  BY <1>2, <1>4

-----------------------------------------------------------------------------
(* What is kept of a file *)

LEMMA TextsAreStrings == Strings(Texts) /\ Strings(Seq(Texts))
  BY DEF Strings, Texts

\* Characters are kept one after another.
KeptTo(k, s) ==
  k = [n \in 0 .. Len(s) |->
        IF n = 0 THEN <<>> ELSE IF s[n] \in Eol THEN k[n - 1] ELSE Append(k[n - 1], s[n])]

LEMMA KeptSame == \A s : Kept(s) = (CHOOSE k : KeptTo(k, s))[Len(s)]
  BY DEF Kept, KeptTo

LEMMA KeptIs ==
  ASSUME NEW s \in Texts
  PROVE  \E k \in [0 .. Len(s) -> Texts] :
           /\ k[0] = <<>>
           /\ \A n \in 1 .. Len(s) : k[n] = IF s[n] \in Eol THEN k[n - 1] ELSE Append(k[n - 1], s[n])
           /\ Kept(s) = k[Len(s)]
<1>0. Len(s) \in Nat /\ \A n \in 1 .. Len(s) : s[n] \in Characters \cup Eol
  BY DEF Texts
<1>1. <<>> \in Texts /\ \A u \in Texts, c \in Characters \cup Eol : Append(u, c) \in Texts
  BY DEF Texts
<1> DEFINE step == [n \in 0 + 1 .. Len(s) |-> [u \in Texts |-> IF s[n] \in Eol THEN u ELSE Append(u, s[n])]]
<1>2. step \in [0 + 1 .. Len(s) -> [Texts -> Texts]]
  BY <1>0, <1>1
<1>3. \A n \in 0 + 1 .. Len(s), u \in Texts : step[n][u] = IF s[n] \in Eol THEN u ELSE Append(u, s[n])
  OBVIOUS
<1> HIDE DEF step
<1>4. PICK g \in [0 .. Len(s) -> Texts] : GoesUp(g, 0, Len(s), <<>>, step)
  <2>1. 0 \in Nat /\ 0 <= Len(s)
    BY <1>0
  <2> QED
    BY <1>0, <1>1, <1>2, <2>1, Recursion
<1>5. ASSUME NEW n \in 0 .. Len(s)
      PROVE  g[n] = IF n = 0 THEN <<>> ELSE IF s[n] \in Eol THEN g[n - 1] ELSE Append(g[n - 1], s[n])
  <2>1. CASE n = 0
    BY <1>4, <2>1 DEF GoesUp
  <2>2. CASE n # 0
    <3>1. n \in 0 + 1 .. Len(s) /\ n - 1 \in 0 .. Len(s)
      BY <1>0, <2>2
    <3>2. g[n - 1] \in Texts
      BY <3>1
    <3>3. g[n] = step[n][g[n - 1]]
      BY <1>4, <2>2 DEF GoesUp
    <3> QED
      BY <1>3, <2>2, <3>1, <3>2, <3>3
  <2> QED
    BY <2>1, <2>2
<1>6. KeptTo(g, s)
  BY <1>5 DEF KeptTo
<1> DEFINE k == CHOOSE h : KeptTo(h, s)
<1>7. KeptTo(k, s) /\ Kept(s) = k[Len(s)]
  BY <1>6, KeptSame
<1> HIDE DEF k
<1>8. k = [n \in 0 .. Len(s) |-> k[n]]
  BY <1>7 DEF KeptTo
<1>9. \A n \in 0 .. Len(s) : k[n] = IF n = 0 THEN <<>> ELSE IF s[n] \in Eol THEN k[n - 1] ELSE Append(k[n - 1], s[n])
  BY <1>7 DEF KeptTo
<1>10. k[0] = <<>>
  <2>1. 0 \in 0 .. Len(s)
    BY <1>0
  <2> QED
    BY <1>9, <2>1
<1>11. ASSUME NEW n \in 1 .. Len(s)
       PROVE  k[n] = IF s[n] \in Eol THEN k[n - 1] ELSE Append(k[n - 1], s[n])
  <2>1. n \in 0 .. Len(s) /\ n # 0
    BY <1>0
  <2> QED
    BY <1>9, <2>1
<1>12. \A n \in 0 .. Len(s) : k[n] \in Texts
  <2> DEFINE T == {n \in Nat : k[n] \in Texts}
  <2>1. 0 \in T
    BY <1>1, <1>10
  <2>2. ASSUME NEW n \in 0 .. Len(s) - 1, n \in T PROVE n + 1 \in T
    <3>1. k[n] \in Texts /\ n + 1 \in 1 .. Len(s) /\ (n + 1) - 1 = n /\ n + 1 \in Nat
      BY <1>0, <2>2
    <3>2. k[n + 1] = IF s[n + 1] \in Eol THEN k[n] ELSE Append(k[n], s[n + 1])
      BY <1>11, <3>1
    <3>3. k[n + 1] \in Texts
      BY <1>0, <1>1, <3>1, <3>2
    <3> QED
      BY <3>1, <3>3
  <2> HIDE DEF T
  <2>3. \A n \in 0 .. Len(s) : n \in T
    BY <1>0, <2>1, <2>2, GoingUp
  <2> QED
    BY <2>3 DEF T
<1>13. k \in [0 .. Len(s) -> Texts]
  BY <1>8, <1>12
<1> QED
  BY <1>7, <1>10, <1>11, <1>13

\* What is put at the end of the second is put at the end of both.
LEMMA AppendJoins ==
  ASSUME NEW x \in Texts, NEW y \in Texts, NEW c \in Characters \cup Eol
  PROVE  Append(y, c) \in Texts /\ Append(x \o y, c) = x \o Append(y, c)
<1>1. \A u \in Texts : Append(u, c) = u \o <<c>>
  <2>1. \A u \in Seq(Characters \cup Eol) : Append(u, c) = u \o <<c>>
    BY AppendIsConcat
  <2> QED
    BY <2>1 DEF Texts
<1>2. PICK z \in Texts : z = <<c>>
  <2>1. <<c>> \in Texts
    BY DEF Texts
  <2> QED
    BY <2>1
<1>3. /\ \A u, v \in Texts : u \o v \in Texts
      /\ \A u, v, w \in Texts : (u \o v) \o w = u \o (v \o w)
  BY TextsAreStrings, StringsJoin
<1>4. PICK xy \in Texts, yz \in Texts : xy = x \o y /\ yz = y \o z
  BY <1>2, <1>3
<1>5. xy \o z = x \o yz
  BY <1>2, <1>3, <1>4
<1> QED
  BY <1>1, <1>2, <1>4, <1>5

\* Of a line everything is kept.
LEMMA LineKept ==
  ASSUME NEW s \in Texts, NEW k \in [0 .. Len(s) -> Texts],
         \A n \in 1 .. Len(s) : k[n] = IF s[n] \in Eol THEN k[n - 1] ELSE Append(k[n - 1], s[n]),
         NEW p \in 1 .. Len(s), NEW e \in p .. Len(s) + 1, \A j \in p .. e - 1 : s[j] \in Characters
  PROVE  SubSeq(s, p, e - 1) \in Texts /\ k[e - 1] = k[p - 1] \o SubSeq(s, p, e - 1)
<1>0. Len(s) \in Nat /\ p \in Nat /\ p - 1 \in Nat /\ e - 1 \in Nat /\ p - 1 \in 0 .. Len(s) /\ e - 1 \in 0 .. Len(s)
  BY DEF Texts
<1> DEFINE T == {j \in Nat : SubSeq(s, p, j) \in Texts /\ k[j] = k[p - 1] \o SubSeq(s, p, j)}
<1>1. p - 1 \in T
  <2>1. SubSeq(s, p, p - 1) = <<>>
    BY <1>0, SubSeqEmpty DEF Texts
  <2>2. k[p - 1] \o <<>> = k[p - 1] /\ <<>> \in Texts
    <3>1. k[p - 1] \in Texts
      BY <1>0
    <3> QED
      BY <3>1, TextsAreStrings, StringsJoin
  <2> QED
    BY <1>0, <2>1, <2>2
<1>2. ASSUME NEW j \in p - 1 .. (e - 1) - 1, j \in T PROVE j + 1 \in T
  <2>1. /\ j + 1 \in p .. e - 1 /\ j + 1 \in 1 .. Len(s) /\ (j + 1) - 1 = j /\ j + 1 \in Nat /\ j \in Nat
        /\ s[j + 1] \in Characters
    BY <1>0
  <2>2. s[j + 1] \notin Eol
    BY <2>1 DEF Characters, Eol, Digit
  <2>3. k[j + 1] = Append(k[j], s[j + 1])
    BY <2>1, <2>2
  <2>4. PICK x \in Texts, y \in Texts, c \in Characters \cup Eol : x = k[p - 1] /\ y = SubSeq(s, p, j) /\ c = s[j + 1]
    BY <1>0, <1>2, <2>1
  <2>5. SubSeq(s, p, j + 1) = Append(y, c)
    BY <1>0, <2>1, <2>4, SubSeqRecursiveSecond DEF Texts
  <2>6. Append(y, c) \in Texts /\ Append(x \o y, c) = x \o Append(y, c)
    BY <2>4, AppendJoins
  <2> QED
    BY <1>2, <2>1, <2>3, <2>4, <2>5, <2>6
<1> HIDE DEF T
<1>3. \A j \in p - 1 .. e - 1 : j \in T
  BY <1>0, <1>1, <1>2, GoingUp
<1>4. e - 1 \in p - 1 .. e - 1
  BY <1>0
<1> QED
  BY <1>3, <1>4 DEF T

-----------------------------------------------------------------------------
(* What the lines of a file are *)

\* A function that goes down from one place to another, and may pass over some.
GoesDown(f, a, b, base, step, next) ==
  \A p \in a .. b : f[p] = IF p = b THEN base ELSE step[p][f[next[p]]]

LEMMA RecursionDown ==
  ASSUME NEW a \in Nat, NEW b \in Nat, a <= b, NEW V, NEW base \in V,
         NEW step \in [a .. b - 1 -> [V -> V]], NEW next \in [a .. b - 1 -> Nat],
         \A p \in a .. b - 1 : next[p] \in p + 1 .. b
  PROVE  \E f \in [a .. b -> V] : GoesDown(f, a, b, base, step, next)
<1> DEFINE S == {c \in Nat : \E f \in [c .. b -> V] : GoesDown(f, c, b, base, step, next)}
<1>1. ASSUME NEW p \in a .. b, \A q \in p + 1 .. b : q \in S PROVE p \in S
  <2>0. p \in Nat
    OBVIOUS
  <2>1. CASE p = b
    <3>1. PICK f : f = [q \in p .. b |-> base]
      OBVIOUS
    <3>2. f \in [p .. b -> V] /\ GoesDown(f, p, b, base, step, next)
      BY <2>1, <3>1 DEF GoesDown
    <3> QED
      BY <2>0, <3>2
  <2>2. CASE p # b
    <3>1. p \in a .. b - 1 /\ p + 1 \in p + 1 .. b
      BY <2>2
    <3>2. PICK g \in [p + 1 .. b -> V] : GoesDown(g, p + 1, b, base, step, next)
      BY <1>1, <3>1
    <3>3. next[p] \in p + 1 .. b /\ step[p] \in [V -> V]
      BY <3>1
    <3>4. PICK v \in V : v = step[p][g[next[p]]]
      <4>1. g[next[p]] \in V
        BY <3>2, <3>3
      <4> QED
        BY <3>3, <4>1
    <3>5. PICK f : f = [q \in p .. b |-> IF q = p THEN v ELSE g[q]]
      OBVIOUS
    <3>6. \A q \in p .. b : q # p => q \in p + 1 .. b
      BY <2>0
    <3>7. f \in [p .. b -> V]
      BY <3>2, <3>4, <3>5, <3>6
    <3>8. f[p] = v /\ \A q \in p + 1 .. b : f[q] = g[q]
      <4>1. p \in p .. b /\ \A q \in p + 1 .. b : q \in p .. b /\ q # p
        BY <2>0
      <4> QED
        BY <3>5, <4>1
    <3>9. ASSUME NEW q \in p .. b PROVE f[q] = IF q = b THEN base ELSE step[q][f[next[q]]]
      <4>1. CASE q = p
        BY <2>2, <3>3, <3>4, <3>8, <4>1
      <4>2. CASE q # p
        <5>1. q \in p + 1 .. b
          BY <3>6, <4>2
        <5>2. q # b => next[q] \in p + 1 .. b
          <6>1. q # b => q \in a .. b - 1 /\ q >= p + 1
            BY <5>1
          <6>2. q # b => next[q] \in q + 1 .. b
            BY <6>1
          <6> QED
            BY <2>0, <6>1, <6>2
        <5>3. g[q] = IF q = b THEN base ELSE step[q][g[next[q]]]
          BY <3>2, <5>1 DEF GoesDown
        <5> QED
          BY <3>8, <5>1, <5>2, <5>3
      <4> QED
        BY <4>1, <4>2
    <3>10. GoesDown(f, p, b, base, step, next)
      BY <3>9 DEF GoesDown
    <3> QED
      BY <2>0, <3>7, <3>10
  <2> QED
    BY <2>1, <2>2
<1>2. a \in a .. b
  OBVIOUS
<1> HIDE DEF S
<1>3. a \in S
  BY <1>1, <1>2, GoingDown
<1> QED
  BY <1>3 DEF S

\* Where the line from p on ends, and where the next one starts.
EolFrom(s, p) == Skip(Characters, s, p)
NextFrom(s, p) == IF EolFrom(s, p) > Len(s) THEN Len(s) + 1 ELSE SkipEol(s, EolFrom(s, p))

LEMMA NextIs ==
  ASSUME NEW s \in Texts, NEW p \in 1 .. Len(s)
  PROVE  /\ EolFrom(s, p) \in p .. Len(s) + 1
         /\ EolFrom(s, p) = Len(s) + 1 \/ s[EolFrom(s, p)] \in Eol
         /\ \A j \in p .. EolFrom(s, p) - 1 : s[j] \in Characters
         /\ NextFrom(s, p) \in p + 1 .. Len(s) + 1
         /\ NextFrom(s, p) > EolFrom(s, p) \/ EolFrom(s, p) = Len(s) + 1
<1>0. Len(s) \in Nat /\ p \in 1 .. Len(s) + 1 /\ \A j \in 1 .. Len(s) : s[j] \in Characters \cup Eol
  BY DEF Texts
<1>1. PICK e : e = EolFrom(s, p)
  OBVIOUS
<1>2. e \in p .. Len(s) + 1 /\ (e = Len(s) + 1 \/ s[e] \notin Characters) /\ \A j \in p .. e - 1 : s[j] \in Characters
  BY <1>0, <1>1, SkipStops DEF EolFrom, Texts
<1>3. e = Len(s) + 1 \/ s[e] \in Eol
  BY <1>0, <1>2
<1>4. NextFrom(s, p) \in p + 1 .. Len(s) + 1 /\ (NextFrom(s, p) > e \/ e = Len(s) + 1)
  BY <1>0, <1>1, <1>2 DEF NextFrom, SkipEol
<1> QED
  BY <1>1, <1>2, <1>3, <1>4

\* The lines from each place on.
LinesFrom(f, s) ==
  f = [p \in 1 .. Len(s) + 1 |->
        LET eol == Skip(Characters, s, p) IN
        IF p = Len(s) + 1 THEN <<>>
        ELSE <<SubSeq(s, p, eol - 1)>> \o IF eol > Len(s) THEN <<>> ELSE f[SkipEol(s, eol)]]

LEMMA LinesSame == \A s : Lines(s) = (CHOOSE f : LinesFrom(f, s))[1]
  BY DEF Lines, LinesFrom

LEMMA OneMore ==
  ASSUME NEW V, NEW x \in V, NEW u \in Seq(V)
  PROVE  <<x>> \o u \in Seq(V) /\ Len(<<x>> \o u) = Len(u) + 1
<1>1. <<x>> \in Seq(V) /\ Len(<<x>>) = 1 /\ Len(u) \in Nat
  OBVIOUS
<1>2. <<x>> \o u \in Seq(V) /\ Len(<<x>> \o u) = Len(<<x>>) + Len(u)
  BY <1>1, ConcatProperties
<1> QED
  BY <1>1, <1>2

LEMMA LinesIs ==
  ASSUME NEW s \in Texts
  PROVE  \E m \in [1 .. Len(s) + 1 -> Seq(Texts)] :
           /\ m[Len(s) + 1] = <<>>
           /\ \A p \in 1 .. Len(s) : /\ SubSeq(s, p, EolFrom(s, p) - 1) \in Texts
                                     /\ m[p] = <<SubSeq(s, p, EolFrom(s, p) - 1)>> \o m[NextFrom(s, p)]
           /\ Lines(s) = m[1]
<1>0. PICK b : b = Len(s) + 1
  OBVIOUS
<1>1. /\ b \in Nat /\ 1 <= b /\ Len(s) = b - 1 /\ <<>> \in Seq(Texts)
  BY <1>0 DEF Texts
<1>2. \A p \in 1 .. b - 1 : SubSeq(s, p, EolFrom(s, p) - 1) \in Texts
  <2>1. ASSUME NEW p \in 1 .. b - 1 PROVE SubSeq(s, p, EolFrom(s, p) - 1) \in Texts
    <3>1. p \in 1 .. Len(s)
      BY <1>1
    <3>2. PICK k \in [0 .. Len(s) -> Texts] :
            \A n \in 1 .. Len(s) : k[n] = IF s[n] \in Eol THEN k[n - 1] ELSE Append(k[n - 1], s[n])
      BY KeptIs
    <3> QED
      BY <3>1, <3>2, NextIs, LineKept
  <2> QED
    BY <2>1
<1>3. PICK next, word : next = [p \in 1 .. b - 1 |-> NextFrom(s, p)]
                        /\ word = [p \in 1 .. b - 1 |-> SubSeq(s, p, EolFrom(s, p) - 1)]
  OBVIOUS
<1>4. word \in [1 .. b - 1 -> Texts] /\ \A p \in 1 .. b - 1 : word[p] = SubSeq(s, p, EolFrom(s, p) - 1)
  BY <1>2, <1>3
<1>5. /\ \A p \in 1 .. b - 1 : next[p] \in p + 1 .. b /\ next[p] = NextFrom(s, p)
      /\ next \in [1 .. b - 1 -> Nat]
  <2>1. \A p \in 1 .. b - 1 : NextFrom(s, p) \in p + 1 .. b
    BY <1>0, <1>1, NextIs
  <2> QED
    BY <1>1, <1>3, <2>1
<1>6. PICK step : step = [p \in 1 .. b - 1 |-> [u \in Seq(Texts) |-> <<word[p]>> \o u]]
  OBVIOUS
<1>7. /\ step \in [1 .. b - 1 -> [Seq(Texts) -> Seq(Texts)]]
      /\ \A p \in 1 .. b - 1, u \in Seq(Texts) : step[p][u] = <<word[p]>> \o u
  <2>1. \A p \in 1 .. b - 1, u \in Seq(Texts) : <<word[p]>> \o u \in Seq(Texts)
    BY <1>4, OneMore
  <2> QED
    BY <1>6, <2>1
<1>8. PICK g \in [1 .. b -> Seq(Texts)] : GoesDown(g, 1, b, <<>>, step, next)
  BY <1>1, <1>5, <1>7, RecursionDown
<1> DEFINE Body(f, p) == IF p = b THEN <<>> ELSE <<SubSeq(s, p, EolFrom(s, p) - 1)>> \o
                           IF EolFrom(s, p) > b - 1 THEN <<>> ELSE f[SkipEol(s, EolFrom(s, p))]
<1>9. \A f : LinesFrom(f, s) <=> f = [p \in 1 .. b |-> Body(f, p)]
  BY <1>0, <1>1 DEF LinesFrom, EolFrom
<1>10. ASSUME NEW f, f[b] = <<>>, NEW p \in 1 .. b
       PROVE  Body(f, p) = IF p = b THEN <<>> ELSE <<word[p]>> \o f[next[p]]
  <2>1. CASE p = b
    BY <2>1
  <2>2. CASE p # b
    <3>1. p \in 1 .. b - 1
      BY <1>1, <2>2
    <3>2. word[p] = SubSeq(s, p, EolFrom(s, p) - 1) /\ next[p] = NextFrom(s, p)
      BY <1>4, <1>5, <3>1
    <3>3. f[next[p]] = IF EolFrom(s, p) > b - 1 THEN <<>> ELSE f[SkipEol(s, EolFrom(s, p))]
      BY <1>0, <1>1, <1>10, <3>2 DEF NextFrom
    <3> QED
      BY <2>2, <3>2, <3>3
  <2> QED
    BY <2>1, <2>2
<1> HIDE DEF Body
<1>11. LinesFrom(g, s)
  <2>1. b \in 1 .. b
    BY <1>1
  <2>2. \A p \in 1 .. b : g[p] = IF p = b THEN <<>> ELSE step[p][g[next[p]]]
    BY <1>8 DEF GoesDown
  <2>3. g[b] = <<>>
    BY <2>1, <2>2
  <2>4. ASSUME NEW p \in 1 .. b PROVE g[p] = Body(g, p)
    <3>1. p # b => p \in 1 .. b - 1 /\ next[p] \in 1 .. b
      BY <1>1, <1>5
    <3>2. p # b => step[p][g[next[p]]] = <<word[p]>> \o g[next[p]]
      BY <1>7, <1>8, <3>1
    <3> QED
      BY <1>10, <2>2, <2>3, <3>2
  <2> QED
    BY <1>8, <1>9, <2>4
<1> DEFINE m == CHOOSE f : LinesFrom(f, s)
<1>12. LinesFrom(m, s) /\ Lines(s) = m[1]
  BY <1>11, LinesSame
<1> HIDE DEF m
<1>13. m = [p \in 1 .. b |-> Body(m, p)]
  BY <1>9, <1>12
<1>14. m[b] = <<>>
  <2>1. b \in 1 .. b
    BY <1>1
  <2>2. Body(m, b) = <<>>
    BY DEF Body
  <2> QED
    BY <1>13, <2>1, <2>2
<1>15. \A p \in 1 .. b - 1 : m[p] = <<word[p]>> \o m[next[p]]
  <2>1. \A p \in 1 .. b - 1 : p \in 1 .. b /\ p # b
    BY <1>1
  <2> QED
    BY <1>10, <1>13, <1>14, <2>1
<1>16. \A p \in 1 .. b : m[p] \in Seq(Texts)
  <2> DEFINE T == {p \in Nat : m[p] \in Seq(Texts)}
  <2>1. ASSUME NEW p \in 1 .. b, \A q \in p + 1 .. b : q \in T PROVE p \in T
    <3>1. CASE p = b
      BY <1>1, <1>14, <3>1
    <3>2. CASE p # b
      <4>1. p \in 1 .. b - 1 /\ next[p] \in p + 1 .. b /\ p \in Nat
        BY <1>1, <1>5, <3>2
      <4>2. word[p] \in Texts /\ m[next[p]] \in Seq(Texts)
        BY <1>4, <2>1, <4>1
      <4>3. <<word[p]>> \o m[next[p]] \in Seq(Texts)
        BY <4>2, OneMore
      <4> QED
        BY <1>15, <4>1, <4>3
    <3> QED
      BY <3>1, <3>2
  <2> HIDE DEF T
  <2>2. \A p \in 1 .. b : p \in T
    BY <1>1, <2>1, GoingDown
  <2> QED
    BY <2>2 DEF T
<1>17. m \in [1 .. b -> Seq(Texts)]
  BY <1>13, <1>16
<1>18. \A p \in 1 .. b - 1 : /\ SubSeq(s, p, EolFrom(s, p) - 1) \in Texts
                             /\ m[p] = <<SubSeq(s, p, EolFrom(s, p) - 1)>> \o m[NextFrom(s, p)]
  BY <1>2, <1>4, <1>5, <1>15
<1> QED
  BY <1>0, <1>1, <1>12, <1>14, <1>17, <1>18

-----------------------------------------------------------------------------
(* How many the lines of a file are, and what is in them *)

\* Between the end of a line and the start of the next nothing is kept.
LEMMA KeptOver ==
  ASSUME NEW s \in Texts, NEW k \in [0 .. Len(s) -> Texts],
         \A n \in 1 .. Len(s) : k[n] = IF s[n] \in Eol THEN k[n - 1] ELSE Append(k[n - 1], s[n]),
         NEW p \in 1 .. Len(s)
  PROVE  k[NextFrom(s, p) - 1] = k[EolFrom(s, p) - 1]
<1>0. Len(s) \in Nat
  BY DEF Texts
<1>1. PICK e, q : e = EolFrom(s, p) /\ q = NextFrom(s, p)
  OBVIOUS
<1>2. e \in p .. Len(s) + 1 /\ (e = Len(s) + 1 \/ s[e] \in Eol)
  BY <1>1, NextIs
<1>3. CASE e = Len(s) + 1
  BY <1>0, <1>1, <1>3 DEF NextFrom
<1>4. CASE e # Len(s) + 1
  <2>1. e \in 1 .. Len(s) /\ s[e] \in Eol /\ (e + 1) - 1 = e
    BY <1>0, <1>2, <1>4
  <2>2. q = SkipEol(s, e)
    BY <1>0, <1>1, <2>1 DEF NextFrom
  <2>3. k[e] = k[e - 1]
    BY <2>1
  <2>4. CASE s[e] = "r" /\ e < Len(s) /\ s[e + 1] = "n"
    <3>1. e + 1 \in 1 .. Len(s) /\ s[e + 1] \in Eol /\ q = e + 2 /\ q - 1 = e + 1
      BY <2>1, <2>2, <2>4 DEF SkipEol, Eol
    <3>2. k[e + 1] = k[e]
      BY <2>1, <3>1
    <3> QED
      BY <1>1, <2>3, <3>1, <3>2
  <2>5. CASE ~(s[e] = "r" /\ e < Len(s) /\ s[e + 1] = "n")
    BY <1>1, <2>1, <2>2, <2>3, <2>5 DEF SkipEol
  <2> QED
    BY <2>4, <2>5
<1> QED
  BY <1>3, <1>4

LEMMA FlattenNone == FlattenSeq(<<>>) = <<>>
<1>1. PICK none : none = <<>>
  OBVIOUS
<1>2. Len(none) = 0
  BY <1>1
<1>3. FlattenSeq(none) = none
  BY <1>2, FlattenSame
<1> QED
  BY <1>1, <1>3

\* The lines hold what is kept of the file, no more and no less.
LEMMA LinesKeep ==
  ASSUME NEW s \in Texts
  PROVE  FlattenSeq(Lines(s)) = Kept(s)
<1>0. Len(s) \in Nat
  BY DEF Texts
<1>1. PICK k \in [0 .. Len(s) -> Texts] :
        /\ k[0] = <<>>
        /\ \A n \in 1 .. Len(s) : k[n] = IF s[n] \in Eol THEN k[n - 1] ELSE Append(k[n - 1], s[n])
        /\ Kept(s) = k[Len(s)]
  BY KeptIs
<1>2. PICK m \in [1 .. Len(s) + 1 -> Seq(Texts)] :
        /\ m[Len(s) + 1] = <<>>
        /\ \A p \in 1 .. Len(s) : /\ SubSeq(s, p, EolFrom(s, p) - 1) \in Texts
                                  /\ m[p] = <<SubSeq(s, p, EolFrom(s, p) - 1)>> \o m[NextFrom(s, p)]
        /\ Lines(s) = m[1]
  BY LinesIs
<1>3. /\ \A x, y, z \in Texts : (x \o y) \o z = x \o (y \o z)
      /\ \A x \in Texts : x \o <<>> = x /\ <<>> \o x = x
  BY TextsAreStrings, StringsJoin
<1>4. \A p \in 1 .. Len(s) + 1 : FlattenSeq(m[p]) \in Texts
  BY TextsAreStrings, FlattenType
<1> DEFINE T == {p \in Nat : k[p - 1] \o FlattenSeq(m[p]) = k[Len(s)]}
<1>5. ASSUME NEW p \in 1 .. Len(s) + 1, \A q \in p + 1 .. Len(s) + 1 : q \in T PROVE p \in T
  <2>1. CASE p = Len(s) + 1
    <3>1. p - 1 = Len(s) /\ Len(s) \in 0 .. Len(s) /\ p \in Nat
      BY <1>0, <2>1
    <3>2. k[Len(s)] \o <<>> = k[Len(s)]
      BY <1>3, <3>1
    <3> QED
      BY <1>2, <2>1, <3>1, <3>2, FlattenNone
  <2>2. CASE p # Len(s) + 1
    <3>1. p \in 1 .. Len(s) /\ p \in Nat /\ p - 1 \in 0 .. Len(s)
      BY <1>0, <2>2
    <3>2. PICK e, q : e = EolFrom(s, p) /\ q = NextFrom(s, p)
      OBVIOUS
    <3>3. /\ e \in p .. Len(s) + 1 /\ q \in p + 1 .. Len(s) + 1
          /\ \A j \in p .. e - 1 : s[j] \in Characters
      BY <3>1, <3>2, NextIs
    <3>4. PICK w \in Texts : w = SubSeq(s, p, e - 1) /\ m[p] = <<w>> \o m[q]
      BY <1>2, <3>1, <3>2
    <3>5. k[e - 1] = k[p - 1] \o w
      BY <1>1, <3>1, <3>3, <3>4, LineKept
    <3>6. k[q - 1] = k[e - 1]
      BY <1>1, <3>1, <3>2, KeptOver
    <3>7. PICK rest \in Texts : rest = FlattenSeq(m[q]) /\ q \in 1 .. Len(s) + 1
      <4>1. q \in 1 .. Len(s) + 1
        BY <3>3
      <4> QED
        BY <1>4, <4>1
    <3>8. FlattenSeq(m[p]) = w \o rest
      <4>1. m[q] \in Seq(Texts)
        BY <3>7
      <4> QED
        BY <3>4, <3>7, <4>1, TextsAreStrings, FlattenFirst
    <3>9. PICK x \in Texts : x = k[p - 1]
      BY <3>1
    <3>10. x \o (w \o rest) = (x \o w) \o rest
      <4>1. PICK xw \in Texts, wr \in Texts : xw = x \o w /\ wr = w \o rest
        BY TextsAreStrings, StringsJoin
      <4>2. xw \o rest = x \o wr
        BY <1>3, <4>1
      <4> QED
        BY <4>1, <4>2
    <3>11. k[q - 1] \o rest = k[Len(s)]
      BY <1>5, <3>3, <3>7
    <3>12. k[p - 1] \o FlattenSeq(m[p]) = k[Len(s)]
      BY <3>5, <3>6, <3>8, <3>9, <3>10, <3>11
    <3> QED
      BY <3>1, <3>12
  <2> QED
    BY <2>1, <2>2
<1> HIDE DEF T
<1>6. 1 \in 1 .. Len(s) + 1 /\ 1 \in Nat /\ Len(s) + 1 \in Nat
  BY <1>0
<1>7. 1 \in T
  <2>1. \A p \in 1 .. Len(s) + 1 : p \in T
    BY <1>5, <1>6, GoingDown
  <2> QED
    BY <1>6, <2>1
<1>8. k[1 - 1] \o FlattenSeq(m[1]) = k[Len(s)]
  BY <1>7 DEF T
<1>9. <<>> \o FlattenSeq(m[1]) = FlattenSeq(m[1])
  BY <1>3, <1>4, <1>6
<1>10. 1 - 1 = 0
  OBVIOUS
<1> QED
  BY <1>1, <1>2, <1>8, <1>9, <1>10

\* The places where a line ends; a carriage return and a line feed after it end one.
EndsAt(s) == {p \in DOMAIN s : s[p] = "r" \/ (s[p] = "n" /\ (p = 1 \/ s[p - 1] # "r"))}
EndsFrom(s, p) == {e \in EndsAt(s) : e >= p}
Starts(s, p) == p <= Len(s) => p = 1 \/ s[p - 1] # "r" \/ s[p] # "n"

\* Going on to the next line passes one end, unless the file ends before.
LEMMA EndsPassed ==
  ASSUME NEW s \in Texts, NEW p \in 1 .. Len(s), Starts(s, p), EolFrom(s, p) # Len(s) + 1
  PROVE  /\ Starts(s, NextFrom(s, p))
         /\ EndsFrom(s, p) = EndsFrom(s, NextFrom(s, p)) \cup {EolFrom(s, p)}
         /\ EolFrom(s, p) \notin EndsFrom(s, NextFrom(s, p))
         /\ NextFrom(s, p) = Len(s) + 1 => s[Len(s)] \in Eol
<1>0. Len(s) \in Nat /\ DOMAIN s = 1 .. Len(s)
  BY DEF Texts
<1>1. PICK e, q : e = EolFrom(s, p) /\ q = NextFrom(s, p)
  OBVIOUS
<1>2. /\ e \in p .. Len(s) /\ s[e] \in Eol
      /\ \A j \in p .. e - 1 : s[j] \in Characters
      /\ q \in p + 1 .. Len(s) + 1 /\ q > e
  BY <1>0, <1>1, NextIs
<1>3. q = SkipEol(s, e)
  BY <1>0, <1>1, <1>2 DEF NextFrom
<1>4. \A j \in p .. e - 1 : s[j] # "r" /\ s[j] # "n"
  BY <1>2 DEF Characters, Digit
<1>5. e \in EndsAt(s)
  <2>1. s[e] = "r" \/ s[e] = "n"
    BY <1>2 DEF Eol
  <2>2. CASE e = p
    BY <1>0, <1>2, <2>1, <2>2 DEF EndsAt, Starts
  <2>3. CASE e # p
    <3>1. e - 1 \in p .. e - 1 /\ e \in DOMAIN s
      BY <1>0, <1>2, <2>3
    <3>2. s[e - 1] # "r"
      BY <1>4, <3>1
    <3> QED
      BY <2>1, <3>1, <3>2 DEF EndsAt
  <2> QED
    BY <2>2, <2>3
<1>6. CASE s[e] = "r" /\ e < Len(s) /\ s[e + 1] = "n"
  <2>1. q = e + 2
    BY <1>3, <1>6 DEF SkipEol
  <2>2. Starts(s, q)
    <3>1. q - 1 = e + 1 /\ s[q - 1] # "r"
      BY <1>2, <1>6, <2>1
    <3> QED
      BY <3>1 DEF Starts
  <2>3. ASSUME NEW x \in EndsAt(s), x >= p PROVE x >= q \/ x = e
    <3>1. x \in 1 .. Len(s) /\ (s[x] = "r" \/ s[x] = "n")
      BY <1>0 DEF EndsAt
    <3>2. x \notin p .. e - 1
      BY <1>4, <3>1
    <3>3. x # e + 1
      <4>1. (e + 1) - 1 = e /\ e + 1 # 1
        BY <1>2
      <4>2. ASSUME x = e + 1 PROVE FALSE
        <5>1. x # 1 /\ x - 1 = e /\ s[x] = "n" /\ s[x - 1] = "r"
          BY <1>6, <4>1, <4>2
        <5> QED
          BY <5>1 DEF EndsAt
      <4> QED
        BY <4>2
    <3> QED
      BY <1>2, <2>1, <2>3, <3>1, <3>2, <3>3
  <2>4. q = Len(s) + 1 => s[Len(s)] \in Eol
    <3>1. q = Len(s) + 1 => e + 1 = Len(s)
      <4>1. e \in Int /\ Len(s) \in Int
        BY <1>0, <1>2
      <4> QED
        BY <2>1, <4>1
    <3> QED
      BY <1>6, <3>1 DEF Eol
  <2> QED
    BY <1>0, <1>1, <1>2, <1>5, <2>2, <2>3, <2>4 DEF EndsFrom, EndsAt
<1>7. CASE ~(s[e] = "r" /\ e < Len(s) /\ s[e + 1] = "n")
  <2>1. q = e + 1
    BY <1>3, <1>7 DEF SkipEol
  <2>2. Starts(s, q)
    <3>1. q <= Len(s) => e < Len(s) /\ q - 1 = e
      BY <1>0, <1>2, <2>1
    <3> QED
      BY <1>7, <2>1, <3>1 DEF Starts
  <2>3. ASSUME NEW x \in EndsAt(s), x >= p PROVE x >= q \/ x = e
    <3>1. x \in 1 .. Len(s) /\ (s[x] = "r" \/ s[x] = "n")
      BY <1>0 DEF EndsAt
    <3>2. x \notin p .. e - 1
      BY <1>4, <3>1
    <3> QED
      BY <1>2, <2>1, <2>3, <3>1, <3>2
  <2>4. q = Len(s) + 1 => s[Len(s)] \in Eol
    <3>1. q = Len(s) + 1 => e = Len(s)
      <4>1. e \in Int /\ Len(s) \in Int
        BY <1>0, <1>2
      <4> QED
        BY <2>1, <4>1
    <3> QED
      BY <1>2, <3>1
  <2> QED
    BY <1>0, <1>1, <1>2, <1>5, <2>2, <2>3, <2>4 DEF EndsFrom, EndsAt
<1> QED
  BY <1>6, <1>7

\* There are as many lines as ends, and one more where the last is not ended.
LEMMA LinesCount ==
  ASSUME NEW s \in Texts
  PROVE  /\ Lines(s) \in Seq(Texts)
         /\ Len(Lines(s)) = Cardinality(EndsAt(s)) + IF PastTheEnd(s) THEN 1 ELSE 0
<1>0. Len(s) \in Nat /\ DOMAIN s = 1 .. Len(s)
  BY DEF Texts
<1>1. PICK m \in [1 .. Len(s) + 1 -> Seq(Texts)] :
        /\ m[Len(s) + 1] = <<>>
        /\ \A p \in 1 .. Len(s) : /\ SubSeq(s, p, EolFrom(s, p) - 1) \in Texts
                                  /\ m[p] = <<SubSeq(s, p, EolFrom(s, p) - 1)>> \o m[NextFrom(s, p)]
        /\ Lines(s) = m[1]
  BY LinesIs
<1>2. \A p \in 1 .. Len(s) + 1 : IsFiniteSet(EndsFrom(s, p)) /\ Cardinality(EndsFrom(s, p)) \in Nat
  <2>1. IsFiniteSet(1 .. Len(s))
    BY <1>0, FS_Interval
  <2>2. \A p \in 1 .. Len(s) + 1 : EndsFrom(s, p) \in SUBSET (1 .. Len(s))
    BY <1>0 DEF EndsFrom, EndsAt
  <2>3. \A p \in 1 .. Len(s) + 1 : IsFiniteSet(EndsFrom(s, p))
    BY <2>1, <2>2, FS_Subset
  <2> QED
    BY <2>3, FS_CardinalityType
<1> DEFINE Open(p) == IF p <= Len(s) /\ s[Len(s)] \notin Eol THEN 1 ELSE 0
           T == {p \in Nat : Starts(s, p) => Len(m[p]) = Cardinality(EndsFrom(s, p)) + Open(p)}
<1>3. ASSUME NEW p \in 1 .. Len(s) + 1, \A q \in p + 1 .. Len(s) + 1 : q \in T PROVE p \in T
  <2>0. p \in Nat
    OBVIOUS
  <2>1. CASE p = Len(s) + 1
    <3>1. EndsFrom(s, p) = {}
      BY <1>0, <2>1 DEF EndsFrom, EndsAt
    <3>2. Cardinality(EndsFrom(s, p)) = 0
      BY <3>1, FS_EmptySet
    <3>3. Open(p) = 0
      BY <1>0, <2>1
    <3>4. Len(m[p]) = 0
      BY <1>1, <2>1
    <3> QED
      BY <2>0, <3>2, <3>3, <3>4
  <2>2. CASE p # Len(s) + 1
    <3> SUFFICES ASSUME Starts(s, p) PROVE Len(m[p]) = Cardinality(EndsFrom(s, p)) + Open(p)
      BY <2>0
    <3>1. p \in 1 .. Len(s)
      BY <1>0, <2>2
    <3>2. PICK e, q : e = EolFrom(s, p) /\ q = NextFrom(s, p)
      OBVIOUS
    <3>3. /\ e \in p .. Len(s) + 1 /\ q \in p + 1 .. Len(s) + 1 /\ q \in 1 .. Len(s) + 1
          /\ \A j \in p .. e - 1 : s[j] \in Characters
      BY <3>1, <3>2, NextIs
    <3>4. Len(m[p]) = Len(m[q]) + 1
      <4>1. PICK w \in Texts : m[p] = <<w>> \o m[q]
        BY <1>1, <3>1, <3>2
      <4>2. m[q] \in Seq(Texts)
        BY <3>3
      <4> QED
        BY <4>1, <4>2, OneMore
    <3>5. CASE e = Len(s) + 1
      <4>1. q = Len(s) + 1 /\ Len(m[q]) = 0
        BY <1>0, <1>1, <3>2, <3>5 DEF NextFrom
      <4>2. \A j \in p .. Len(s) : s[j] \in Characters
        BY <1>0, <3>3, <3>5
      <4>3. \A j \in p .. Len(s) : s[j] # "r" /\ s[j] # "n"
        BY <4>2 DEF Characters, Digit
      <4>4. EndsFrom(s, p) = {}
        BY <1>0, <3>1, <4>3 DEF EndsFrom, EndsAt
      <4>5. Cardinality(EndsFrom(s, p)) = 0
        BY <4>4, FS_EmptySet
      <4>6. s[Len(s)] \notin Eol
        <5>1. Len(s) \in p .. Len(s)
          BY <1>0, <3>1
        <5> QED
          BY <4>3, <5>1 DEF Eol
      <4>7. Open(p) = 1
        BY <3>1, <4>6
      <4> QED
        BY <3>4, <4>1, <4>5, <4>7
    <3>6. CASE e # Len(s) + 1
      <4>1. /\ Starts(s, q)
            /\ EndsFrom(s, p) = EndsFrom(s, q) \cup {e}
            /\ e \notin EndsFrom(s, q)
            /\ q = Len(s) + 1 => s[Len(s)] \in Eol
        BY <3>1, <3>2, <3>6, EndsPassed
      <4>2. Cardinality(EndsFrom(s, p)) = Cardinality(EndsFrom(s, q)) + 1 /\ Cardinality(EndsFrom(s, q)) \in Nat
        BY <1>2, <3>3, <4>1, FS_AddElement
      <4>3. Len(m[q]) = Cardinality(EndsFrom(s, q)) + Open(q)
        BY <1>3, <3>3, <4>1
      <4>4. Open(p) = Open(q)
        BY <1>0, <3>1, <3>3, <4>1
      <4>5. Open(q) \in Nat
        OBVIOUS
      <4> HIDE DEF Open
      <4> QED
        BY <3>4, <4>2, <4>3, <4>4, <4>5
    <3> QED
      BY <3>5, <3>6
  <2> QED
    BY <2>1, <2>2
<1> HIDE DEF T
<1>4. 1 \in 1 .. Len(s) + 1 /\ 1 \in Nat /\ Len(s) + 1 \in Nat
  BY <1>0
<1>5. 1 \in T
  <2>1. \A p \in 1 .. Len(s) + 1 : p \in T
    BY <1>3, <1>4, GoingDown
  <2> QED
    BY <1>4, <2>1
<1>6. Starts(s, 1)
  BY DEF Starts
<1>7. Len(m[1]) = Cardinality(EndsFrom(s, 1)) + Open(1)
  BY <1>5, <1>6 DEF T
<1>8. EndsFrom(s, 1) = EndsAt(s)
  BY <1>0 DEF EndsFrom, EndsAt
<1>9. PastTheEnd(s) <=> 1 <= Len(s) /\ s[Len(s)] \notin Eol
  <2>1. s # <<>> <=> 1 <= Len(s)
    <3>1. s # <<>> <=> Len(s) # 0
      BY EmptySeq DEF Texts
    <3> QED
      BY <1>0, <3>1
  <2> QED
    BY <2>1 DEF PastTheEnd, Last
<1>10. m[1] \in Seq(Texts)
  BY <1>4
<1> QED
  BY <1>1, <1>7, <1>8, <1>9, <1>10

-----------------------------------------------------------------------------
(* Which part of a whole its sequences are *)

LEMMA StringsParts ==
  ASSUME NEW V, Strings(V)
  PROVE  /\ \A u \in V : Len(u) \in Nat /\ DOMAIN u = 1 .. Len(u)
         /\ \A u, v \in V : Len(u \o v) = Len(u) + Len(v)
         /\ \A u, v \in V : \A k \in 1 .. Len(u) : (u \o v)[k] = u[k]
         /\ \A u, v \in V : \A k \in 1 .. Len(v) : (u \o v)[Len(u) + k] = v[k]
<1>1. PICK S : V = Seq(S)
  BY DEF Strings
<1>2. \A u \in Seq(S) : Len(u) \in Nat /\ DOMAIN u = 1 .. Len(u)
  OBVIOUS
<1>3. ASSUME NEW u \in Seq(S), NEW v \in Seq(S)
      PROVE  /\ Len(u \o v) = Len(u) + Len(v)
             /\ \A k \in 1 .. Len(u) : (u \o v)[k] = u[k]
             /\ \A k \in 1 .. Len(v) : (u \o v)[Len(u) + k] = v[k]
  <2>1. PICK a, b : a = Len(u) /\ b = Len(v)
    OBVIOUS
  <2>2. a \in Nat /\ b \in Nat
    BY <2>1
  <2>3. Len(u \o v) = a + b /\ \A i \in 1 .. a + b : (u \o v)[i] = IF i <= a THEN u[i] ELSE v[i - a]
    BY <2>1, ConcatProperties
  <2>4. \A k \in 1 .. a : k \in 1 .. a + b /\ k <= a
    BY <2>2
  <2>5. \A k \in 1 .. b : a + k \in 1 .. a + b /\ ~(a + k <= a) /\ (a + k) - a = k
    BY <2>2
  <2>6. \A k \in 1 .. b : (u \o v)[a + k] = v[k]
    BY <2>3, <2>5
  <2> QED
    BY <2>1, <2>3, <2>4, <2>6
<1> QED
  BY <1>1, <1>2, <1>3

\* Where those before the i-th end, and that it starts behind them.
Offsets(off, seqs, whole, n) ==
  /\ off \in [0 .. n -> Nat] /\ off[0] = 0 /\ off[n] = Len(whole)
  /\ \A i \in 1 .. n : off[i] = off[i - 1] + Len(seqs[i])
  /\ \A i \in 1 .. n : \A k \in 1 .. Len(seqs[i]) : whole[off[i - 1] + k] = seqs[i][k]
  /\ \A r \in 1 .. Len(whole) : \E i \in 1 .. n : \E k \in 1 .. Len(seqs[i]) : r = off[i - 1] + k

\* The next one is put behind them.
LEMMA OffsetsOn ==
  ASSUME NEW V, Strings(V), NEW n \in Nat, NEW seqs \in [1 .. n + 1 -> V], NEW whole \in V,
         NEW off, Offsets(off, seqs, whole, n)
  PROVE  \E to : Offsets(to, seqs, whole \o seqs[n + 1], n + 1)
<1>0. n + 1 \in 1 .. n + 1 /\ seqs[n + 1] \in V /\ \A i \in 1 .. n + 1 : Len(seqs[i]) \in Nat
  <2>1. \A u \in V : Len(u) \in Nat
    BY StringsParts
  <2> QED
    BY <2>1
<1>1. PICK more \in V : more = seqs[n + 1]
  BY <1>0
<1>2. PICK all : all = whole \o more
  OBVIOUS
<1>3. PICK a, c : a = Len(whole) /\ c = Len(more)
  OBVIOUS
<1>4. /\ a \in Nat /\ c \in Nat /\ Len(all) = a + c
      /\ \A k \in 1 .. a : all[k] = whole[k]
      /\ \A k \in 1 .. c : all[a + k] = more[k]
  BY <1>2, <1>3, StringsParts
<1>5. PICK to : to = [i \in 0 .. n + 1 |-> IF i = n + 1 THEN a + c ELSE off[i]]
  OBVIOUS
<1>6. /\ off \in [0 .. n -> Nat] /\ off[0] = 0 /\ off[n] = a
      /\ \A i \in 1 .. n : off[i] = off[i - 1] + Len(seqs[i])
      /\ \A i \in 1 .. n : \A k \in 1 .. Len(seqs[i]) : whole[off[i - 1] + k] = seqs[i][k]
      /\ \A r \in 1 .. a : \E i \in 1 .. n : \E k \in 1 .. Len(seqs[i]) : r = off[i - 1] + k
  BY <1>3 DEF Offsets
<1>7. to[n + 1] = a + c /\ \A i \in 0 .. n : to[i] = off[i]
  <2>1. n + 1 \in 0 .. n + 1 /\ \A i \in 0 .. n : i \in 0 .. n + 1 /\ i # n + 1
    OBVIOUS
  <2> QED
    BY <1>5, <2>1
<1>8. to \in [0 .. n + 1 -> Nat]
  <2>1. \A i \in 0 .. n + 1 : i # n + 1 => i \in 0 .. n
    OBVIOUS
  <2> QED
    BY <1>4, <1>5, <1>6, <2>1
<1>9. to[0] = 0 /\ to[n] = a
  <2>1. 0 \in 0 .. n /\ n \in 0 .. n
    OBVIOUS
  <2> QED
    BY <1>6, <1>7, <2>1
<1>10. \A i \in 1 .. n + 1 : i # n + 1 => i \in 1 .. n /\ i \in 0 .. n /\ i - 1 \in 0 .. n
  OBVIOUS
<1>11. (n + 1) - 1 = n
  OBVIOUS
<1>12. \A i \in 1 .. n + 1 : to[i] = to[i - 1] + Len(seqs[i])
  <2>1. ASSUME NEW i \in 1 .. n + 1 PROVE to[i] = to[i - 1] + Len(seqs[i])
    <3>1. CASE i = n + 1
      BY <1>1, <1>3, <1>7, <1>9, <1>11, <3>1
    <3>2. CASE i # n + 1
      BY <1>6, <1>7, <1>10, <3>2
    <3> QED
      BY <3>1, <3>2
  <2> QED
    BY <2>1
<1>13. \A i \in 0 .. n : off[i] <= a
  <2> DEFINE T == {i \in Nat : off[i] <= a}
  <2>1. ASSUME NEW i \in 0 .. n, \A j \in i + 1 .. n : j \in T PROVE i \in T
    <3>1. CASE i = n
      BY <1>4, <1>6, <3>1
    <3>2. CASE i # n
      <4>1. i + 1 \in i + 1 .. n /\ i + 1 \in 1 .. n /\ (i + 1) - 1 = i /\ i + 1 \in 1 .. n + 1 /\ i \in Nat
        BY <3>2
      <4>2. off[i + 1] <= a /\ off[i + 1] = off[i] + Len(seqs[i + 1]) /\ off[i] \in Nat
        BY <1>6, <2>1, <4>1
      <4> QED
        BY <1>0, <1>4, <4>1, <4>2
    <3> QED
      BY <3>1, <3>2
  <2> HIDE DEF T
  <2>2. \A i \in 0 .. n : i \in T
    BY <2>1, GoingDown
  <2> QED
    BY <2>2 DEF T
<1>14. ASSUME NEW i \in 1 .. n + 1, NEW k \in 1 .. Len(seqs[i]) PROVE all[to[i - 1] + k] = seqs[i][k]
  <2>1. CASE i = n + 1
    <3>1. k \in 1 .. c /\ to[i - 1] = a
      BY <1>1, <1>3, <1>9, <1>11, <2>1
    <3> QED
      BY <1>1, <1>4, <2>1, <3>1
  <2>2. CASE i # n + 1
    <3>1. i \in 1 .. n /\ i \in 0 .. n /\ i - 1 \in 0 .. n
      BY <1>10, <2>2
    <3>2. PICK b, l : b = off[i - 1] /\ l = Len(seqs[i])
      OBVIOUS
    <3>3. b \in Nat /\ l \in Nat /\ off[i] = b + l /\ off[i] <= a /\ to[i - 1] = b
      BY <1>0, <1>6, <1>7, <1>13, <3>1, <3>2
    <3>4. b + k \in 1 .. a
      BY <1>4, <3>2, <3>3
    <3>5. whole[b + k] = seqs[i][k]
      BY <1>6, <3>1, <3>2
    <3> QED
      BY <1>4, <3>3, <3>4, <3>5
  <2> QED
    BY <2>1, <2>2
<1>15. ASSUME NEW r \in 1 .. a + c
       PROVE  \E i \in 1 .. n + 1 : \E k \in 1 .. Len(seqs[i]) : r = to[i - 1] + k
  <2>1. CASE r <= a
    <3>1. r \in 1 .. a
      BY <2>1
    <3>2. PICK i \in 1 .. n : \E k \in 1 .. Len(seqs[i]) : r = off[i - 1] + k
      BY <1>6, <3>1
    <3>3. i \in 1 .. n + 1 /\ i - 1 \in 0 .. n
      BY <3>2
    <3> QED
      BY <1>7, <3>2, <3>3
  <2>2. CASE ~(r <= a)
    <3>1. r - a \in 1 .. c /\ r = a + (r - a)
      BY <1>4, <2>2
    <3>2. to[(n + 1) - 1] = a /\ c = Len(seqs[n + 1])
      BY <1>1, <1>3, <1>9, <1>11
    <3> QED
      BY <1>0, <3>1, <3>2
  <2> QED
    BY <2>1, <2>2
<1>16. Offsets(to, seqs, all, n + 1)
  BY <1>4, <1>7, <1>8, <1>9, <1>12, <1>14, <1>15 DEF Offsets
<1> QED
  BY <1>1, <1>2, <1>16

\* Only the sequences count, and the places they are put.
LEMMA OffsetsSame ==
  ASSUME NEW n \in Nat, NEW part, NEW seqs, \A i \in 1 .. n : part[i] = seqs[i],
         NEW off, NEW whole, Offsets(off, part, whole, n)
  PROVE  Offsets(off, seqs, whole, n)
<1>1. \A i \in 1 .. n : off[i] = off[i - 1] + Len(seqs[i])
  BY DEF Offsets
<1>2. \A i \in 1 .. n : \A k \in 1 .. Len(seqs[i]) : whole[off[i - 1] + k] = seqs[i][k]
  <2>1. ASSUME NEW i \in 1 .. n, NEW k \in 1 .. Len(seqs[i]) PROVE whole[off[i - 1] + k] = seqs[i][k]
    <3>1. part[i] = seqs[i] /\ k \in 1 .. Len(part[i])
      BY <2>1
    <3>2. whole[off[i - 1] + k] = part[i][k]
      BY <3>1 DEF Offsets
    <3> QED
      BY <3>1, <3>2
  <2> QED
    BY <2>1
<1>3. \A r \in 1 .. Len(whole) : \E i \in 1 .. n : \E k \in 1 .. Len(seqs[i]) : r = off[i - 1] + k
  <2>1. ASSUME NEW r \in 1 .. Len(whole)
        PROVE  \E i \in 1 .. n : \E k \in 1 .. Len(seqs[i]) : r = off[i - 1] + k
    <3>1. PICK i \in 1 .. n : \E k \in 1 .. Len(part[i]) : r = off[i - 1] + k
      BY DEF Offsets
    <3>2. part[i] = seqs[i]
      BY <3>1
    <3> QED
      BY <3>1, <3>2
  <2> QED
    BY <2>1
<1> QED
  BY <1>1, <1>2, <1>3 DEF Offsets

LEMMA Blocks ==
  ASSUME NEW V, Strings(V), NEW seqs \in Seq(V), Len(seqs) # 0
  PROVE  FlattenSeq(seqs) \in V /\ \E off : Offsets(off, seqs, FlattenSeq(seqs), Len(seqs))
<1>1. PICK n : n = Len(seqs)
  OBVIOUS
<1>2. n \in Nat /\ 1 <= n /\ seqs \in [1 .. n -> V] /\ n \in 1 .. n
  BY <1>1
<1>3. PICK f \in [1 .. n -> V] :
        /\ f[1] = seqs[1]
        /\ \A i \in 2 .. n : f[i] = f[i - 1] \o seqs[i]
        /\ FlattenSeq(seqs) = f[n]
  <2>1. PICK f \in [1 .. Len(seqs) -> V] : Flat(f, seqs)
    BY FlattenIs
  <2> QED
    BY <1>1, <2>1 DEF Flat
<1> DEFINE T == {i \in Nat : \E off : Offsets(off, seqs, f[i], i)}
<1>4. 1 \in T
  <2>1. PICK v \in V : v = f[1] /\ v = seqs[1]
    BY <1>2, <1>3
  <2>2. Len(v) \in Nat
    BY <2>1, StringsParts
  <2>3. PICK off : off = [i \in 0 .. 1 |-> IF i = 0 THEN 0 ELSE Len(v)]
    OBVIOUS
  <2>4. off \in [0 .. 1 -> Nat] /\ off[0] = 0 /\ off[1] = Len(v)
    BY <2>2, <2>3
  <2>5. \A i \in 1 .. 1 : i = 1 /\ i - 1 = 0
    OBVIOUS
  <2>6. 1 \in 1 .. 1 /\ 1 - 1 = 0 /\ \A k \in 1 .. Len(v) : 0 + k = k
    BY <2>2
  <2>7. Offsets(off, seqs, v, 1)
    <3>1. \A i \in 1 .. 1 : off[i] = off[i - 1] + Len(seqs[i])
      BY <2>1, <2>2, <2>4, <2>5
    <3>2. \A i \in 1 .. 1 : \A k \in 1 .. Len(seqs[i]) : v[off[i - 1] + k] = seqs[i][k]
      BY <2>1, <2>4, <2>5, <2>6
    <3>3. \A r \in 1 .. Len(v) : \E i \in 1 .. 1 : \E k \in 1 .. Len(seqs[i]) : r = off[i - 1] + k
      <4>1. ASSUME NEW r \in 1 .. Len(v) PROVE r \in 1 .. Len(seqs[1]) /\ r = off[1 - 1] + r
        BY <2>1, <2>4, <2>6
      <4> QED
        BY <2>1, <2>6, <4>1
    <3> QED
      BY <2>4, <3>1, <3>2, <3>3 DEF Offsets
  <2> QED
    BY <2>1, <2>7
<1>5. ASSUME NEW i \in 1 .. n - 1, i \in T PROVE i + 1 \in T
  <2>1. PICK off : Offsets(off, seqs, f[i], i)
    BY <1>5
  <2>2. i \in Nat /\ i + 1 \in Nat /\ i + 1 \in 2 .. n /\ (i + 1) - 1 = i /\ i \in 1 .. n
    BY <1>2
  <2>3. f[i + 1] = f[i] \o seqs[i + 1]
    BY <1>3, <2>2
  <2>4. PICK part : part = [j \in 1 .. i + 1 |-> seqs[j]]
    OBVIOUS
  <2>5. part \in [1 .. i + 1 -> V] /\ \A j \in 1 .. i + 1 : part[j] = seqs[j]
    <3>1. \A j \in 1 .. i + 1 : j \in 1 .. n
      BY <1>2, <2>2
    <3> QED
      BY <1>2, <2>4, <3>1
  <2>6. \A j \in 1 .. i : part[j] = seqs[j]
    BY <2>2, <2>5
  <2>7. Offsets(off, part, f[i], i)
    BY <2>1, <2>2, <2>6, OffsetsSame
  <2>8. f[i] \in V
    BY <2>2
  <2>9. PICK to : Offsets(to, part, f[i] \o part[i + 1], i + 1)
    BY <2>2, <2>5, <2>7, <2>8, OffsetsOn
  <2>10. part[i + 1] = seqs[i + 1]
    BY <2>2, <2>5
  <2>11. Offsets(to, part, f[i + 1], i + 1)
    BY <2>3, <2>9, <2>10
  <2>12. Offsets(to, seqs, f[i + 1], i + 1)
    BY <2>2, <2>5, <2>11, OffsetsSame
  <2> QED
    BY <2>2, <2>12
<1> HIDE DEF T
<1>6. n \in T
  BY <1>2, <1>4, <1>5, GoingUp
<1>7. f[n] \in V
  BY <1>2
<1> QED
  BY <1>1, <1>3, <1>6, <1>7 DEF T

-----------------------------------------------------------------------------
(* The rows of the files *)

Uploads == [name : Names, purpose : STRING, media : STRING, contents : Texts]
Rows == [name : Names, line : Texts]

\* A file as it is stored.
IsStored(f) ==
  /\ f.name \in Names /\ f.contents \in Texts
  /\ f.count = IF f.media = "plain" THEN Len(Lines(f.contents)) ELSE 0

\* Rows that are made for some files.
Shown(r, F) == \E order \in Sorted(F) : r = FlattenSeq([k \in DOMAIN order |-> RowsOf(order[k])])

FilesInv ==
  /\ todo \in Seq(Uploads)
  /\ IsFiniteSet(files)
  /\ \A f \in files : IsStored(f)
  /\ \A f, g \in files : f.name = g.name => f = g
  /\ fresh => Shown(rows, files)

\* A file whose lines are numbered.
Numbered(f) == f.media = "plain" /\ f.purpose # "log"

\* A file has as many rows as were counted when it was stored, or none.
LEMMA RowsOfIs ==
  ASSUME NEW f, IsStored(f)
  PROVE  /\ RowsOf(f) \in Seq(Rows)
         /\ Len(RowsOf(f)) = IF Numbered(f) THEN f.count ELSE 0
         /\ \A k \in 1 .. Len(RowsOf(f)) : RowsOf(f)[k].name = f.name
         /\ Numbered(f) => \A k \in 1 .. f.count : RowsOf(f)[k].line = Lines(f.contents)[k]
<1>1. f.contents \in Texts /\ f.name \in Names
  BY DEF IsStored
<1>2. Lines(f.contents) \in Seq(Texts)
  BY <1>1, LinesCount
<1>3. PICK n : n = Len(Lines(f.contents))
  OBVIOUS
<1>4. n \in Nat /\ DOMAIN Lines(f.contents) = 1 .. n /\ \A k \in 1 .. n : Lines(f.contents)[k] \in Texts
  BY <1>2, <1>3
<1>5. CASE Numbered(f) /\ f.count > 0
  <2>1. f.count = n
    BY <1>3, <1>5 DEF IsStored, Numbered
  <2>2. PICK r : r = [k \in 1 .. n |-> [name |-> f.name, line |-> Lines(f.contents)[k]]]
    OBVIOUS
  <2>3. RowsOf(f) = r
    BY <1>4, <1>5, <2>2 DEF RowsOf, IsLineNumbered, Numbered
  <2>4. \A k \in 1 .. n : [name |-> f.name, line |-> Lines(f.contents)[k]] \in Rows
    BY <1>1, <1>4 DEF Rows
  <2>5. r \in Seq(Rows) /\ Len(r) = n
    BY <1>4, <2>2, <2>4
  <2>6. \A k \in 1 .. n : r[k].name = f.name /\ r[k].line = Lines(f.contents)[k]
    BY <2>2
  <2> QED
    BY <1>5, <2>1, <2>3, <2>5, <2>6
<1>6. CASE ~(Numbered(f) /\ f.count > 0)
  <2>1. RowsOf(f) = <<>>
    BY <1>6 DEF RowsOf, IsLineNumbered, Numbered
  <2>2. <<>> \in Seq(Rows) /\ Len(<<>>) = 0
    OBVIOUS
  <2>3. Numbered(f) => f.count = 0
    BY <1>3, <1>4, <1>6 DEF IsStored, Numbered
  <2>4. (\A k \in 1 .. 0 : FALSE) /\ \A k \in 1 .. Len(<<>>) : FALSE
    BY <2>2
  <2> QED
    BY <2>1, <2>2, <2>3, <2>4
<1> QED
  BY <1>5, <1>6

\* An order of the files has every one of them once.
LEMMA OrderIs ==
  ASSUME NEW F, IsFiniteSet(F), NEW order \in Sorted(F)
  PROVE  /\ Cardinality(F) \in Nat /\ DOMAIN order = 1 .. Cardinality(F)
         /\ \A k \in 1 .. Cardinality(F) : order[k] \in F
         /\ \A j, k \in 1 .. Cardinality(F) : order[j] = order[k] => j = k
         /\ \A f \in F : \E k \in 1 .. Cardinality(F) : order[k] = f
<1>1. PICK n : n = Cardinality(F)
  OBVIOUS
<1>2. n \in Nat
  BY <1>1, FS_CardinalityType
<1>3. order \in SetToSeqs(F)
  BY DEF Sorted
<1>4. order \in [1 .. n -> F] /\ \A j, k \in 1 .. n : j # k => order[j] # order[k]
  BY <1>1, <1>3 DEF SetToSeqs
<1>5. order \in Injection(1 .. n, F)
  BY <1>4 DEF Injection, IsInjective
<1>6. Cardinality(1 .. n) = n /\ IsFiniteSet(1 .. n)
  BY <1>2, FS_Interval
<1>7. order \in Surjection(1 .. n, F)
  BY <1>1, <1>5, <1>6, FS_Injection
<1>8. \A f \in F : \E k \in 1 .. n : order[k] = f
  BY <1>7 DEF Surjection
<1> QED
  BY <1>1, <1>2, <1>4, <1>8

\* The rows of one file among those of all.
OwnRows(r, f) == {n \in DOMAIN r : r[n].name = f.name}

LEMMA OwnRowsAre ==
  ASSUME NEW F, IsFiniteSet(F), \A f \in F : IsStored(f), \A f, g \in F : f.name = g.name => f = g,
         NEW r, Shown(r, F), NEW f \in F
  PROVE  \E a \in Nat : /\ OwnRows(r, f) = a + 1 .. a + Len(RowsOf(f))
                        /\ \A k \in 1 .. Len(RowsOf(f)) : r[a + k] = RowsOf(f)[k]
<1>1. PICK order \in Sorted(F) : r = FlattenSeq([k \in DOMAIN order |-> RowsOf(order[k])])
  BY DEF Shown
<1>2. PICK n : n = Cardinality(F)
  OBVIOUS
<1>3. /\ n \in Nat /\ DOMAIN order = 1 .. n
      /\ \A k \in 1 .. n : order[k] \in F
      /\ \A j, k \in 1 .. n : order[j] = order[k] => j = k
      /\ \E k \in 1 .. n : order[k] = f
  BY <1>2, OrderIs
<1>4. PICK V : V = Seq(Rows)
  OBVIOUS
<1>5. Strings(V)
  BY <1>4 DEF Strings
<1>6. PICK seqs : seqs = [k \in 1 .. n |-> RowsOf(order[k])]
  OBVIOUS
<1>7. \A k \in 1 .. n : seqs[k] = RowsOf(order[k]) /\ RowsOf(order[k]) \in V
  BY <1>3, <1>4, <1>6, RowsOfIs
<1>8. seqs \in Seq(V) /\ Len(seqs) = n
  BY <1>3, <1>6, <1>7
<1>9. r = FlattenSeq(seqs)
  BY <1>1, <1>3, <1>6
<1>10. n # 0
  BY <1>3
<1>11. r \in V /\ \E off : Offsets(off, seqs, r, n)
  BY <1>5, <1>8, <1>9, <1>10, Blocks
<1>12. PICK off : Offsets(off, seqs, r, n)
  BY <1>11
<1>13. DOMAIN r = 1 .. Len(r) /\ Len(r) \in Nat
  BY <1>4, <1>11
<1>14. PICK i \in 1 .. n : order[i] = f
  BY <1>3
<1>15. PICK a, c : a = off[i - 1] /\ c = Len(RowsOf(f))
  OBVIOUS
<1>16. /\ a \in Nat /\ c \in Nat
       /\ seqs[i] = RowsOf(f)
       /\ \A k \in 1 .. c : r[a + k] = RowsOf(f)[k]
  <2>1. off \in [0 .. n -> Nat] /\ i - 1 \in 0 .. n
    BY <1>3, <1>12, <1>14 DEF Offsets
  <2>2. seqs[i] = RowsOf(f)
    BY <1>7, <1>14
  <2>3. \A k \in 1 .. Len(seqs[i]) : r[off[i - 1] + k] = seqs[i][k]
    BY <1>12, <1>14 DEF Offsets
  <2>4. RowsOf(f) \in Seq(Rows)
    BY RowsOfIs
  <2> QED
    BY <1>15, <2>1, <2>2, <2>3, <2>4
<1>17. \A k \in 1 .. c : a + k \in 1 .. Len(r)
  <2> DEFINE T == {j \in Nat : off[j] <= Len(r)}
  <2>1. /\ off \in [0 .. n -> Nat] /\ off[n] = Len(r)
        /\ \A j \in 1 .. n : off[j] = off[j - 1] + Len(seqs[j])
    BY <1>12 DEF Offsets
  <2>2. \A j \in 1 .. n : Len(seqs[j]) \in Nat
    BY <1>4, <1>7
  <2>3. ASSUME NEW j \in 1 .. n, \A l \in j + 1 .. n : l \in T PROVE j \in T
    <3>1. CASE j = n
      BY <1>13, <2>1, <3>1
    <3>2. CASE j # n
      <4>1. j + 1 \in j + 1 .. n /\ j + 1 \in 1 .. n /\ (j + 1) - 1 = j /\ j \in 0 .. n /\ j \in Nat
        BY <1>3, <3>2
      <4>2. off[j + 1] <= Len(r) /\ off[j + 1] = off[j] + Len(seqs[j + 1]) /\ off[j] \in Nat /\ Len(seqs[j + 1]) \in Nat
        BY <2>1, <2>2, <2>3, <4>1
      <4>3. off[j] <= Len(r)
        BY <1>13, <4>1, <4>2
      <4> QED
        BY <4>1, <4>3
    <3> QED
      BY <3>1, <3>2
  <2> HIDE DEF T
  <2>4. i \in T
    <3>1. \A j \in 1 .. n : j \in T
      BY <1>3, <2>3, GoingDown
    <3> QED
      BY <1>14, <3>1
  <2>5. off[i] <= Len(r) /\ off[i] = a + c
    BY <1>14, <1>15, <1>16, <2>1, <2>4 DEF T
  <2> QED
    BY <1>13, <1>16, <2>5
<1>18. ASSUME NEW x \in 1 .. Len(r), r[x].name = f.name PROVE x \in a + 1 .. a + c
  <2>1. PICK j \in 1 .. n : \E k \in 1 .. Len(seqs[j]) : x = off[j - 1] + k
    BY <1>12 DEF Offsets
  <2>2. PICK k \in 1 .. Len(seqs[j]) : x = off[j - 1] + k
    BY <2>1
  <2>3. r[x] = seqs[j][k]
    BY <1>12, <2>1, <2>2 DEF Offsets
  <2>4. seqs[j] = RowsOf(order[j]) /\ order[j] \in F /\ IsStored(order[j])
    BY <1>3, <1>7, <2>1
  <2>5. r[x].name = order[j].name
    BY <2>2, <2>3, <2>4, RowsOfIs
  <2>6. order[j] = f
    BY <1>18, <2>4, <2>5
  <2>7. j = i
    BY <1>3, <1>14, <2>1, <2>6
  <2>8. k \in 1 .. c /\ x = a + k
    BY <1>15, <1>16, <2>2, <2>7
  <2> QED
    BY <1>16, <2>8
<1>19. ASSUME NEW x \in a + 1 .. a + c PROVE x \in 1 .. Len(r) /\ r[x].name = f.name
  <2>1. PICK k \in 1 .. c : x = a + k
    <3>1. x - a \in 1 .. c /\ x = a + (x - a)
      BY <1>16
    <3> QED
      BY <3>1
  <2>2. r[x] = RowsOf(f)[k] /\ x \in 1 .. Len(r)
    BY <1>16, <1>17, <2>1
  <2>3. RowsOf(f)[k].name = f.name
    BY <1>15, <2>1, RowsOfIs
  <2> QED
    BY <2>2, <2>3
<1>20. OwnRows(r, f) = a + 1 .. a + c
  BY <1>13, <1>18, <1>19 DEF OwnRows
<1> QED
  BY <1>15, <1>16, <1>20

-----------------------------------------------------------------------------
(* What stays so *)

LEMMA Stored == Spec => []FilesInv
<1>1. Init => FilesInv
  <2> SUFFICES ASSUME Init PROVE FilesInv
    OBVIOUS
  <2>1. PICK c \in Cases : todo = c.files
    BY DEF Init
  <2>2. todo \in Seq(Uploads)
    BY <2>1, ListingAssumption DEF Uploads, Texts
  <2>3. files = {} /\ fresh = FALSE
    BY DEF Init
  <2> QED
    BY <2>2, <2>3, FS_EmptySet DEF FilesInv
<1>2. FilesInv /\ [Next]_vars => FilesInv'
  <2> SUFFICES ASSUME FilesInv, [Next]_vars PROVE FilesInv'
    OBVIOUS
  <2>1. CASE UNCHANGED <<todo, files, rows, fresh>>
    BY <2>1 DEF FilesInv
  <2>2. CASE Upload
    <3>1. PICK f : f = Head(todo)
      OBVIOUS
    <3>2. f \in Uploads /\ Tail(todo) \in Seq(Uploads)
      <4>1. todo \in Seq(Uploads) /\ todo # <<>>
        BY <2>2 DEF FilesInv, Upload
      <4> QED
        BY <3>1, <4>1, HeadTailProperties
    <3>3. CASE UNCHANGED <<todo, files, rows, fresh>>
      BY <2>1, <3>3
    <3> DEFINE new == [name |-> f.name, purpose |-> f.purpose, media |-> f.media, contents |-> f.contents,
                       count |-> IF f.media = "plain" THEN Len(Lines(f.contents)) ELSE 0]
               kept == {g \in files : g.name # f.name}
    <3>4. CASE files' = kept \cup {new} /\ todo' = Tail(todo) /\ fresh' = FALSE
      <4>1. IsStored(new) /\ new.name = f.name
        BY <3>2 DEF IsStored, Uploads
      <4>2. \A g \in kept : g \in files /\ g.name # f.name
        OBVIOUS
      <4>3. IsFiniteSet(kept)
        <5>1. IsFiniteSet(files) /\ kept \in SUBSET files
          BY DEF FilesInv
        <5> HIDE DEF kept
        <5> QED
          BY <5>1, FS_Subset
      <4> HIDE DEF new, kept
      <4>4. PICK one : one = new
        OBVIOUS
      <4>5. PICK others : others = kept
        OBVIOUS
      <4>6. IsFiniteSet(others \cup {one})
        BY <4>3, <4>5, FS_AddElement
      <4>7. files' = others \cup {one}
        BY <3>4, <4>4, <4>5
      <4>8. IsFiniteSet(files')
        BY <4>6, <4>7
      <4>9. \A g \in files' : IsStored(g)
        BY <4>1, <4>2, <4>4, <4>5, <4>7 DEF FilesInv
      <4>10. \A g, h \in files' : g.name = h.name => g = h
        BY <4>1, <4>2, <4>4, <4>5, <4>7 DEF FilesInv
      <4> QED
        BY <3>2, <3>4, <4>8, <4>9, <4>10 DEF FilesInv
    <3> QED
      BY <2>2, <3>1, <3>3, <3>4 DEF Upload
  <2>3. CASE Reload
    <3>1. Shown(rows', files)
      BY <2>3 DEF Reload, Shown
    <3>2. files' = files /\ todo' = todo
      BY <2>3 DEF Reload
    <3>3. Shown(rows', files')
      BY <3>1, <3>2
    <3> QED
      BY <3>2, <3>3 DEF FilesInv
  <2>4. CASE Read
    BY <2>1, <2>4 DEF Read
  <2>5. CASE ParseStep
    BY <2>1, <2>5 DEF ParseStep
  <2>6. CASE UNCHANGED vars
    BY <2>1, <2>6 DEF vars
  <2> QED
    BY <2>2, <2>3, <2>4, <2>5, <2>6 DEF Next
<1> QED
  BY <1>1, <1>2, PTL DEF Spec

(* The numbered rows of a file are its lines, as many as were counted when it was stored, however many ends of      *)
(* lines it has and of which kind, and whatever other files the viewer shows before it (File_meta.C:66-70,           *)
(* File_viewer.C:112-133).                                                                                           *)
THEOREM LinesAreNumbered == Spec => []NumberedThrough
<1>1. FilesInv => NumberedThrough
  <2> SUFFICES ASSUME FilesInv, fresh, NEW f \in files
               PROVE  LET own == {n \in DOMAIN rows : rows[n].name = f.name}
                          endsAt == {p \in DOMAIN f.contents : f.contents[p] = "r" \/ (f.contents[p] = "n" /\ (p = 1 \/ f.contents[p - 1] # "r"))}
                      IN IF f.media # "plain" \/ f.purpose = "log" THEN own = {} ELSE
                           /\ Cardinality(own) = f.count
                           /\ f.count = Cardinality(endsAt) + IF PastTheEnd(f.contents) THEN 1 ELSE 0
                           /\ \A j, k \in own : \A n \in j .. k : n \in own
                           /\ FlattenSeq([k \in 1 .. f.count |-> rows[k - 1 + CHOOSE n \in own : \A j \in own : n <= j].line]) = Kept(f.contents)
    BY DEF NumberedThrough
  <2> DEFINE own == OwnRows(rows, f)
  <2>1. /\ IsStored(f) /\ IsFiniteSet(files) /\ Shown(rows, files)
        /\ \A g \in files : IsStored(g)
        /\ \A g, h \in files : g.name = h.name => g = h
    BY DEF FilesInv
  <2>2. PICK a \in Nat : /\ own = a + 1 .. a + Len(RowsOf(f))
                         /\ \A k \in 1 .. Len(RowsOf(f)) : rows[a + k] = RowsOf(f)[k]
    BY <2>1, OwnRowsAre
  <2>3. CASE ~Numbered(f)
    <3>1. Len(RowsOf(f)) = 0
      BY <2>1, <2>3, RowsOfIs
    <3>2. own = {}
      BY <2>2, <3>1
    <3> QED
      BY <2>3, <3>2 DEF OwnRows, Numbered
  <2>4. CASE Numbered(f)
    <3>1. PICK c : c = f.count
      OBVIOUS
    <3>2. PICK lines : lines = Lines(f.contents)
      OBVIOUS
    <3>3. /\ f.contents \in Texts /\ lines \in Seq(Texts) /\ c = Len(lines)
          /\ c = Cardinality(EndsAt(f.contents)) + IF PastTheEnd(f.contents) THEN 1 ELSE 0
      BY <2>1, <2>4, <3>1, <3>2, LinesCount DEF IsStored, Numbered
    <3>4. c \in Nat /\ DOMAIN lines = 1 .. c
      <4>1. lines \in Seq(Texts) /\ c = Len(lines)
        BY <3>3
      <4> QED
        BY <4>1, LenProperties
    <3>5. Len(RowsOf(f)) = c /\ \A k \in 1 .. c : RowsOf(f)[k].line = lines[k]
      BY <2>1, <2>4, <3>1, <3>2, RowsOfIs
    <3>6. own = a + 1 .. a + c /\ \A k \in 1 .. c : rows[a + k].line = lines[k]
      BY <2>2, <3>5
    <3> HIDE DEF own
    <3>7. Cardinality(own) = c
      <4>1. Cardinality(a + 1 .. a + c) = IF a + 1 > a + c THEN 0 ELSE (a + c) - (a + 1) + 1
        BY <3>4, FS_Interval
      <4> QED
        BY <3>4, <3>6, <4>1
    <3>8. \A j, k \in own : \A n \in j .. k : n \in own
      BY <3>4, <3>6
    <3>9. PICK top : top = CHOOSE n \in own : \A j \in own : n <= j
      OBVIOUS
    <3>10. c # 0 => top = a + 1
      <4>1. c # 0 => a + 1 \in own /\ \A j \in own : a + 1 <= j
        BY <3>4, <3>6
      <4>2. c # 0 => top \in own /\ \A j \in own : top <= j
        BY <3>9, <4>1
      <4>3. c # 0 => top \in Nat /\ top <= a + 1 /\ a + 1 <= top
        BY <3>4, <3>6, <4>1, <4>2
      <4> QED
        BY <4>3
    <3>11. ASSUME NEW k \in 1 .. c PROVE rows[k - 1 + top].line = lines[k]
      <4>1. k - 1 + top = a + k
        BY <3>4, <3>10
      <4> QED
        BY <3>6, <4>1
    <3>12. PICK shown : shown = [k \in 1 .. c |-> rows[k - 1 + top].line]
      OBVIOUS
    <3>13. shown = lines
      <4>1. lines = [k \in 1 .. c |-> lines[k]]
        BY <3>3, <3>4
      <4> QED
        BY <3>11, <3>12, <4>1
    <3>14. FlattenSeq(shown) = Kept(f.contents)
      BY <3>2, <3>3, <3>13, LinesKeep
    <3>15. own = {n \in DOMAIN rows : rows[n].name = f.name}
      BY DEF own, OwnRows
    <3> QED
      BY <2>4, <3>1, <3>3, <3>7, <3>8, <3>9, <3>12, <3>14, <3>15 DEF EndsAt, Numbered
  <2> QED
    BY <2>3, <2>4
<1> QED
  BY <1>1, Stored, PTL
=============================================================================
