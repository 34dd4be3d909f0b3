------------------------------ MODULE Listing ------------------------------
(***************************************************************************)
(* The files of a submission with their lines numbered through, and the    *)
(* explanations that refer to those lines: counting lines as a file is     *)
(* stored (model/File_meta.C, common/lines_iterator.h), the viewer that    *)
(* numbers them (view/web/widget/File_viewer.C), and the parser that makes *)
(* links of "L5" and "L5-7" and lights those lines up                      *)
(* (model/util/Explanation_parser.C, Explanation_view_widget.C).           *)
(*                                                                         *)
(* A character is what the code tells apart: "x" stands for any other, "s" *)
(* for white space, "L" for L, l and #, "n" and "r" end a line.  A name is *)
(* the letters and how they are capitalised.  Positions count from 1; a    *)
(* token is the positions from .. to - 1.                                  *)
(***************************************************************************)
EXTENDS Integers, SequencesExt

CONSTANTS
  Cases,   \* what is uploaded and what is explained: records [files, text]
  MaxInt   \* the largest int

Digit == {"0", "1", "3"}
Eol == {"n", "r"}
Names == [letters : Nat, capital : BOOLEAN]
Characters == {"x", "s", "L", "-"} \cup Digit

ASSUME ListingAssumption ==
  /\ MaxInt \in Nat
  /\ \A c \in Cases : /\ c.text \in Seq(Characters \cup Eol)
                       /\ c.files \in Seq([name : Names, purpose : STRING, media : STRING,
                                          contents : Seq(Characters \cup Eol)])

VARIABLES
  todo,     \* files yet to be uploaded
  files,    \* the files of the submission, each with its line count
  text,     \* the explanation
  rows,     \* the numbered rows of the viewer, of which the n-th has number n
  lit,      \* the numbers of the rows that are lit up
  pos, stack,  \* the lexer: where it is, and the tokens that were put back
  out,      \* the characters written, by position, and whether each is in a link
  first,    \* the line that the viewer will scroll to
  state,    \* of the explanation: "unread", "reading", "done", "unlit" again, or "failed"; "down" when the server is
  fresh     \* history: the viewer has been loaded since the last upload

vars == <<todo, files, text, rows, lit, pos, stack, out, first, state, fresh>>
parser == <<pos, stack, out, first>>

\* The first place from p on with a character outside of S.
Skip(S, s, p) == CHOOSE q \in p .. Len(s) + 1 : /\ q = Len(s) + 1 \/ s[q] \notin S
                                                /\ \A j \in p .. q - 1 : s[j] \in S

Init ==
  /\ \E c \in Cases : todo = c.files /\ text = c.text
  /\ files = {} /\ rows = <<>> /\ lit = {}
  /\ pos = 1 /\ stack = <<>> /\ out = <<>> /\ first = 0 /\ state = "unread" /\ fresh = FALSE

-----------------------------------------------------------------------------
(* Lines *)

(* Mutant: a carriage return and a line feed end two lines. *)
SkipEachEol(s, p) == p + 1

SkipEol(s, p) == IF s[p] = "r" /\ p < Len(s) /\ s[p + 1] = "n" THEN p + 2 ELSE p + 1

(* What the iterator goes over; it ends when nothing is left, so an ended last line is not followed by an empty one. *)
Lines(s) ==
  LET from[p \in 1 .. Len(s) + 1] ==
        LET eol == Skip(Characters, s, p) IN
        IF p = Len(s) + 1 THEN <<>>
        ELSE <<SubSeq(s, p, eol - 1)>> \o IF eol > Len(s) THEN <<>> ELSE from[SkipEol(s, eol)]
  IN from[1]

(* The iterator looks at the character after an unended last line.  A stored file has none there: when what lies     *)
(* behind it in memory ends a line, the iterator goes on past the end.                                               *)
PastTheEnd(s) == s # <<>> /\ Last(s) \notin Eol

Upload ==
  /\ todo # <<>> /\ state = "unread"
  /\ LET f == Head(todo) IN
     \/ /\ files' = {g \in files : g.name # f.name} \cup
                      {[name |-> f.name, purpose |-> f.purpose, media |-> f.media, contents |-> f.contents,
                        count |-> IF f.media = "plain" THEN Len(Lines(f.contents)) ELSE 0]}
        /\ todo' = Tail(todo) /\ fresh' = FALSE /\ UNCHANGED <<text, rows, lit, parser, state>>
     \/ /\ f.media = "plain" /\ PastTheEnd(f.contents)
        /\ state' = "down" /\ UNCHANGED <<todo, files, text, rows, lit, parser, fresh>>

-----------------------------------------------------------------------------
(* The viewer *)

Place(purpose) == CASE purpose = "log" -> 0 [] purpose = "source" -> 1 [] purpose = "test" -> 2
                    [] purpose = "config" -> 3 [] purpose = "resource" -> 4

(* Logs come first; names are compared without regard to capitals. *)
Before(f, g) ==
  \/ Place(f.purpose) < Place(g.purpose)
  \/ Place(f.purpose) = Place(g.purpose) /\ f.name.letters < g.name.letters

Sorted(S) == {s \in SetToSeqs(S) : \A j, k \in DOMAIN s : j < k => ~Before(s[k], s[j])}

IsLineNumbered(f) == f.count > 0 /\ f.purpose # "log"

RowsOf(f) ==
  IF f.media = "plain" /\ IsLineNumbered(f)
  THEN [k \in DOMAIN Lines(f.contents) |-> [name |-> f.name, line |-> Lines(f.contents)[k]]]
  ELSE <<>>

(* The viewer is made, or told of a change.  The lights are styles of its rows and go with them. *)
Reload ==
  /\ state \notin {"reading", "down"}
  /\ \E order \in Sorted(files) : rows' = FlattenSeq([k \in DOMAIN order |-> RowsOf(order[k])])
  /\ lit' = {} /\ fresh' = TRUE
  /\ state' = IF state = "done" THEN "unlit" ELSE state
  /\ UNCHANGED <<todo, files, text, parser>>

-----------------------------------------------------------------------------
(* The lexer *)

TagAt(p) == p < Len(text) /\ text[p] = "L" /\ text[p + 1] \in Digit
Begins(p) == text[p] \in Digit \cup {"-"} \/ TagAt(p)
Tok(type, from, to) == [type |-> type, from |-> from, to |-> to]

(* Mutant: a letter is a tag without a number. *)
TokenOfLetter(p) ==
  IF p > Len(text) THEN Tok("eof", p, p)
  ELSE IF text[p] = "L" THEN Tok("tag", p, Skip({"s"}, text, Skip(Digit, text, p + 1)))
  ELSE Tok("other", p, p + 1)

Token(p) ==
  CASE p > Len(text)       -> Tok("eof", p, p)
    [] p \in DOMAIN text /\ text[p] \in Digit -> Tok("digits", p, Skip({"s"}, text, Skip(Digit, text, p)))
    [] p \in DOMAIN text /\ text[p] = "-"     -> Tok("dash", p, Skip({"s"}, text, p + 1))
    [] TagAt(p)            -> Tok("tag", p, Skip({"s"}, text, Skip(Digit, text, p + 1)))
    [] OTHER -> Tok("other", p, CHOOSE q \in p + 1 .. Len(text) + 1 :
                                  /\ q = Len(text) + 1 \/ Begins(q)
                                  /\ \A j \in p + 1 .. q - 1 : ~Begins(j))

Lexer(p, put) == [tok |-> IF put = <<>> THEN Token(p) ELSE Last(put), pos |-> p, put |-> put]
After(lexer) == IF lexer.put = <<>> THEN Lexer(lexer.tok.to, <<>>) ELSE Lexer(lexer.pos, Front(lexer.put))

(* Mutant: what was looked at is not put back. *)
GoOnAfter(lexer, back) == pos' = After(lexer).pos /\ stack' = After(lexer).put

(* The parser goes on after the last token of the lexer, with the tokens of back put back. *)
GoOn(lexer, back) == LET rest == After(lexer) IN pos' = rest.pos /\ stack' = rest.put \o back

-----------------------------------------------------------------------------
(* The parser *)

DigitValue(d) == CASE d = "0" -> 0 [] d = "1" -> 1 [] d = "3" -> 3

(* The number in a token; the digits come after the letter, and white space after the digits. *)
Value(from, to) ==
  LET number[p \in from .. to] ==
        IF p = from THEN 0
        ELSE IF text[p - 1] \in Digit THEN 10 * number[p - 1] + DigitValue(text[p - 1])
        ELSE number[p - 1]
  IN number[to]
Line(tok) == Value(tok.from, tok.to)
Fits(tok) == Line(tok) <= MaxInt

Written(tok, link) == [k \in 1 .. tok.to - tok.from |-> [at |-> tok.from + k - 1, link |-> link]]
Plain(tok) == Written(tok, FALSE)
\* The link is around the letter and the digits.
Link(tok) ==
  LET end == Skip(Digit, text, tok.from + 1)
  IN Written(Tok("tag", tok.from, end), TRUE) \o Plain(Tok("other", end, tok.to))

Note(before, line) == IF before = 0 \/ line < before THEN line ELSE before

Light(lines) == lit' = lit \cup (lines \cap DOMAIN rows)
Highlight(line) == Light({line}) /\ first' = Note(first, line)

(* Both ends, then the lines between them.  Counting up from the largest int is undefined: the loop ends at once, or *)
(* starts again from the smallest.                                                                                    *)
HighlightRange(a, b) ==
  LET ends == Note(Note(first, a), b) IN
  \/ Light({a, b} \cup a .. b) /\ first' = IF a + 1 < b THEN Note(ends, a + 1) ELSE ends
  \/ a = MaxInt /\ Light({a} \cup 1 .. b) /\ first' = -MaxInt - 1

Read ==
  /\ state = "unread" /\ todo = <<>> /\ fresh
  /\ state' = "reading" /\ UNCHANGED <<todo, files, text, rows, lit, parser, fresh>>

ParseStep ==
  LET t0 == Lexer(pos, stack)
      t1 == After(t0)
      t2 == After(t1)
      isTag == t0.tok.type = "tag" /\ Fits(t0.tok)
      isRange == t1.tok.type = "dash" /\ t2.tok.type \in {"tag", "digits"}
  IN
  /\ state = "reading" /\ UNCHANGED <<todo, files, text, rows, fresh>>
  /\ \/ t0.tok.type = "eof" /\ state' = "done" /\ UNCHANGED <<lit, parser>>
     \/ /\ t0.tok.type \notin {"eof", "tag"}
        /\ out' = out \o Plain(t0.tok) /\ GoOn(t0, <<>>)
        /\ UNCHANGED <<lit, first, state>>
     \/ /\ isTag /\ t1.tok.type # "dash"
        /\ out' = out \o Link(t0.tok) /\ GoOn(t1, <<t1.tok>>)
        /\ Highlight(Line(t0.tok)) /\ UNCHANGED state
     \/ /\ isTag /\ t1.tok.type = "dash" /\ ~isRange
        /\ out' = out \o Link(t0.tok) /\ GoOn(t2, <<t2.tok, t1.tok>>)
        /\ Highlight(Line(t0.tok)) /\ UNCHANGED state
     \/ /\ isTag /\ isRange /\ Fits(t2.tok)
        /\ out' = out \o Link(t0.tok) \o Plain(t1.tok) \o Link(t2.tok) /\ GoOn(t2, <<>>)
        /\ HighlightRange(Line(t0.tok), Line(t2.tok)) /\ UNCHANGED state
     \/ /\ t0.tok.type = "tag" /\ ~(isTag /\ (isRange => Fits(t2.tok)))
        /\ state' = "failed" /\ UNCHANGED <<lit, parser>>

Next == Upload \/ Reload \/ Read \/ ParseStep

Spec == Init /\ [][Next]_vars
-----------------------------------------------------------------------------
(* What an explanation names, told from the characters alone *)

\* Where the second part of a range starts, of which a tag at p is the first; 0 if it is not one.
RangeTo(p) ==
  LET dash == Skip({"s"}, text, Skip(Digit, text, p + 1))
      to == Skip({"s"}, text, dash + 1)
  IN IF dash < Len(text) /\ text[dash] = "-" /\ to <= Len(text) /\ (text[to] \in Digit \/ TagAt(to)) THEN to ELSE 0

Seconds ==
  LET second[p \in DOMAIN text] == \E j \in 1 .. p - 1 : TagAt(j) /\ RangeTo(j) = p /\ ~second[j]
  IN {p \in DOMAIN text : second[p]}
Firsts == {p \in DOMAIN text : TagAt(p)} \ Seconds
Number(p) == Value(p, Skip(Digit, text, p + 1))
Named == {Number(p) : p \in Firsts} \cup
         UNION {{Number(RangeTo(p))} \cup Number(p) .. Number(RangeTo(p)) : p \in {q \in Firsts : RangeTo(q) # 0}}
LinkedAt == UNION {p .. Skip(Digit, text, p + 1) - 1 : p \in Firsts \cup Seconds}
Wraps == \E p \in Firsts : RangeTo(p) # 0 /\ Number(p) = MaxInt

-----------------------------------------------------------------------------
(* Properties *)

(* The parser copies every character of the explanation once and in order, however far it has looked ahead and put  *)
(* back (Explanation_parser.C:75-106).                                                                               *)
CopiedOnce ==
  /\ \A k \in DOMAIN out : out[k].at = k
  /\ LET pending == Reverse(stack) IN
     \A k \in 1 .. Len(pending) + 1 :
       (IF k > Len(pending) THEN pos ELSE pending[k].from) = (IF k = 1 THEN Len(out) + 1 ELSE pending[k - 1].to)
  /\ state \in {"done", "unlit"} => Len(out) = Len(text)

(* Once an explanation is read, the links are around the lines that it names, those that the viewer has are lit up  *)
(* and it scrolls to the first of them; but for line 0, and for a range that starts at the largest int              *)
(* (Explanation_parser.C:69-107 and 208-213, File_viewer.C:241-251).                                                 *)
LightsNamed ==
  state = "done" =>
    /\ {out[k].at : k \in {j \in DOMAIN out : out[j].link}} = LinkedAt
    /\ ~Wraps => lit = Named \cap DOMAIN rows
    /\ Named # {} /\ 0 \notin Named /\ ~Wraps => first \in Named /\ \A line \in Named : first <= line

\* The characters of a file but for those that end a line.
Kept(s) ==
  LET kept[n \in 0 .. Len(s)] ==
        IF n = 0 THEN <<>> ELSE IF s[n] \in Eol THEN kept[n - 1] ELSE Append(kept[n - 1], s[n])
  IN kept[Len(s)]

(* The numbered rows of a file are its lines, as many as were counted when it was stored, and they follow one       *)
(* another (File_meta.C:66-70 and 234-237, File_viewer.C:112-133).                                                   *)
NumberedThrough ==
  fresh => \A f \in files :
    LET own == {n \in DOMAIN rows : rows[n].name = f.name}
        endsAt == {p \in DOMAIN f.contents : f.contents[p] = "r" \/ (f.contents[p] = "n" /\ (p = 1 \/ f.contents[p - 1] # "r"))}
    IN IF f.media # "plain" \/ f.purpose = "log" THEN own = {} ELSE
         /\ Cardinality(own) = f.count
         /\ f.count = Cardinality(endsAt) + IF PastTheEnd(f.contents) THEN 1 ELSE 0
         /\ \A j, k \in own : \A n \in j .. k : n \in own
         /\ FlattenSeq([k \in 1 .. f.count |-> rows[k - 1 + CHOOSE n \in own : \A j \in own : n <= j].line]) = Kept(f.contents)

=============================================================================
