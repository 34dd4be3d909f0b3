----------------------------- MODULE MCListing -----------------------------
(* Module Listing with one file of every short contents, with two short     *)
(* files of every kind, and with three lines and every short explanation.   *)
EXTENDS Listing

SeqsUpTo(S, n) == UNION {[1 .. k -> S] : k \in 0 .. n}
File(letters, capital, kind, contents) ==
  [name |-> [letters |-> letters, capital |-> capital], purpose |-> kind[1], media |-> kind[2], contents |-> contents]

Source == <<"source", "plain">>
Kinds == {Source, <<"log", "plain">>, <<"config", "plain">>, <<"resource", "html">>}
Short == {<<>>, <<"n">>, <<"x", "n">>, <<"x", "n", "x">>}

ThreeLines == File(1, FALSE, Source, <<"x", "n", "x", "n", "n">>)
Fragments == {<<"L", "1">>, <<"L", "3">>, <<"L", "1", "3">>, <<"1">>, <<"-">>, <<"s">>, <<"x">>, <<"L", "0">>}

MCCases ==
  {[files |-> <<File(1, FALSE, Source, c)>>, text |-> <<>>] : c \in SeqsUpTo({"x", "n", "r"}, 5)} \cup
  {[files |-> <<File(1, FALSE, j, c), File(l, TRUE, k, d)>>, text |-> <<"L", "3">>] :
     l \in {1, 2}, j \in Kinds, k \in Kinds, c \in Short, d \in Short} \cup
  {[files |-> <<ThreeLines>>, text |-> t] : t \in SeqsUpTo({"L", "1", "3", "-", "s", "x"}, 4)} \cup
  {[files |-> <<ThreeLines>>, text |-> FlattenSeq(t)] :
     t \in SeqsUpTo(Fragments, 4) \cup SeqsUpTo({<<"L", "1">>, <<"L", "3">>, <<"-">>}, 6)}
=============================================================================
