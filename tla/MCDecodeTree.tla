---------------------------- MODULE MCDecodeTree ----------------------------
(* The generator and its C decoder on files of three-bit instructions.     *)
EXTENDS DecodeC, TLC

T(kind) == [kind |-> kind]
N(kind, nm) == [kind |-> kind, name |-> nm]
Pos(p, n, s) == [kind |-> "pos", pos |-> p, len |-> n, sign |-> s]
Fun(f) == [kind |-> "function", func |-> f]
Import(nm, of) == [kind |-> "import", name |-> nm, of |-> of]
Value(nm, v) == [kind |-> "const", name |-> nm, val |-> v]
Span(nm, n, s) == [kind |-> "span", name |-> nm, len |-> n, sign |-> s]
D(ds) == [kind |-> "bits", digits |-> ds]

Ln(in, ts) == [blank |-> FALSE, indent |-> in, toks |-> ts, more |-> FALSE]
Continued(in, ts) == [Ln(in, ts) EXCEPT !.more = TRUE]
Blank == [Ln(0, <<>>) EXCEPT !.blank = TRUE]
Comment(in) == Ln(in, <<>>)
P(in, nm, ds) == Ln(in, <<N("name", nm), D(ds)>>)

MCWidth == 3
Free == [1..3 -> {"0", "1", "-"}]
Fixing == {ds \in Free : ds[1] # "-" /\ Cardinality({k \in 1..3 : ds[k] = "-"}) \in {0, 1}}
Few == {<<"0", "-", "0">>, <<"0", "0", "0">>, <<"0", "1", "-">>, <<"1", "1", "-">>, <<"-", "-", "1">>}

(* Patterns without groups: all pairs, and lists of three.                 *)
Flat == {<<>>} \union {<<P(0, "p", a), P(0, "q", b)>> : a, b \in Free}
             \union {<<P(0, "p", a), P(0, "q", b), P(0, "r", c)>> : a, b, c \in Fixing}

(* Groups, in each other and next to patterns.                             *)
Open(k) == T(IF k = "inc" THEN "{" ELSE "[")
Close(k) == T(IF k = "inc" THEN "}" ELSE "]")
Kinds == {"inc", "exc"}
Grouped ==
  {<<Ln(0, <<Open(k)>>), P(2, "p", a), P(2, "q", b), Ln(0, <<Close(k)>>), P(0, "r", c)>> :
     k \in Kinds, a, b, c \in Few}
  \union
  {<<Ln(0, <<Open(k)>>), P(2, "p", a), Ln(2, <<Open(j)>>), P(4, "q", b), P(4, "r", c),
     Ln(2, <<Close(j)>>), Ln(0, <<Close(k)>>)>> : j, k \in Kinds, a, b, c \in Few}

-----------------------------------------------------------------------------
(* Declarations.  Two formats of the same field, and patterns that use one *)
(* by name, set an argument themselves, or leave formats to be inferred.   *)
Fields ==
  {<<Ln(0, <<N("%", "x")>> \o ts)>> :
     ts \in {<<Pos(0, 2, FALSE)>>, <<Pos(0, 2, TRUE)>>, <<Pos(0, 1, FALSE), Pos(1, 1, FALSE)>>,
             <<Pos(1, 1, TRUE), Pos(0, 1, FALSE)>>, <<Pos(0, 2, FALSE), Fun("f")>>,
             <<Pos(1, 2, FALSE)>>}}
Args == {<<>>, <<Ln(0, <<N("&", "a"), N("name", "x")>>)>>,
         <<Ln(0, <<N("&", "a"), N("name", "x"), N("typed", "y")>>)>>}
FormatLines ==
  {<<>>,
   <<Ln(0, <<N("@", "f"), D(<<"0", ".", ".">>), N("%", "x")>>)>>,
   <<Ln(0, <<N("@", "f"), D(<<"1", ".", ".">>), N("&", "a"), N("%", "x")>>)>>,
   <<Continued(0, <<N("@", "f"), D(<<".", ".", ".">>)>>), Ln(1, <<Import("x", "x")>>)>>,
   <<Ln(0, <<N("@", "f"), D(<<".", ".", ".">>), N("&", "a")>>)>>}
Uses ==
  {<<N("name", "p"), N("@", "f"), D(<<".", ".", ".">>)>>,
   <<N("name", "p"), N("@", "f"), D(<<"1", ".", ".">>)>>,
   <<N("name", "p"), N("@", "f"), D(<<"1", ".", ".">>), N("%", "x")>>,
   <<N("name", "p"), N("@", "f"), D(<<"0", "1", "1">>), Value("x", 5), Value("y", 2)>>,
   <<N("name", "p"), D(<<"1", ".", ".">>), N("%", "x")>>,
   <<N("name", "p"), N("&", "a"), D(<<"0", ".", ".">>), Import("x", "x")>>,
   <<N("name", "p"), D(<<"0">>), Span("x", 2, FALSE)>>,
   <<N("name", "p"), D(<<"0">>), Span("x", 2, TRUE)>>,
   <<N("name", "p"), D(<<"0", "1", "1">>), Value("x", 5)>>,
   <<N("name", "p"), N("&", "a"), D(<<"0", "1", "-">>), Value("x", 5), Value("y", 0)>>}
Declared ==
  {f \o a \o m \o <<Ln(0, l)>> : f \in Fields, a \in Args, m \in FormatLines, l \in Uses}
(* Two patterns, the second of which may reuse the first one's format.     *)
Infer ==
  {<<Ln(0, <<N("%", "x"), Pos(0, 1, FALSE), Pos(1, 1, FALSE)>>),
     Ln(0, <<N("%", "y"), Pos(1, 1, FALSE), Pos(0, 1, s)>> \o fun),
     Ln(0, <<N("name", "p")>> \o a \o <<D(<<"0", ".", ".">>), N("%", "x")>>),
     Ln(0, <<N("name", "q")>> \o b \o <<D(<<"1", ".", ".">>), t>>)>> :
     s \in BOOLEAN, fun \in {<<>>, <<Fun("f")>>}, a, b \in {<<>>, <<N("&", "a")>>},
     t \in {Import("x", "y"), Import("x", "x"), Import("z", "x")}}
(* A function of the same bits in one part and in two: the second is taken *)
(* for the first, or cannot be compared with it.                           *)
Function(f, g) ==
  <<Ln(0, <<N("%", "x"), Fun("f")>> \o f), Ln(0, <<N("%", "y"), Fun("f")>> \o g),
    Ln(0, <<N("name", "p"), D(<<"0", ".", ".">>), Import("x", "x")>>),
    Ln(0, <<N("name", "q"), D(<<"1", ".", ".">>), Import("x", "y")>>)>>
Plain == {<<Pos(0, 2, s)>> : s \in BOOLEAN}
Compound == {<<Pos(0, 1, s), Pos(1, 1, FALSE)>> : s \in BOOLEAN}
Confused == {Function(f, g) : f \in Compound, g \in Plain}
Failing == {Function(f, g) : f \in Plain, g \in Compound}
Inferred == Confused \union Failing
              \union Infer \union {<<Ln(0, <<N("&", "a"), N("name", "x")>>)>> \o f : f \in Infer}
(* Two patterns of one name, with the same arguments or others.            *)
Twice ==
  {<<Ln(0, <<N("%", "x"), Pos(0, 2, FALSE)>>),
     Ln(0, <<N("name", "p"), D(<<"0", ".", ".">>), N("%", "x")>>),
     Ln(0, <<N("name", "p"), D(<<"1", ".", ".">>), t>>)>> : t \in {N("%", "x"), Import("z", "x")}}

(* Lines that are refused, skipped or dropped.                             *)
p0 == P(0, "p", <<"0", "-", "-">>)
Odd ==
  {<<Blank, p0, Comment(0)>>, <<Comment(2), p0>>, <<p0, Continued(0, p0.toks)>>,
   <<Ln(0, <<T("{")>>), p0, Ln(0, <<T("}")>>)>>, <<Ln(0, <<T("{")>>), Comment(2)>>,
   <<Ln(0, <<T("{")>>), Ln(0, <<T("}")>>)>>, <<p0, Ln(0, <<T("[")>>), Ln(0, <<T("]")>>)>>,
   <<Ln(0, <<T("{")>>), Ln(0, <<T("]")>>)>>, <<Ln(2, <<T("{")>>)>>, <<Ln(0, <<T("}")>>)>>,
   <<Ln(0, <<T("{"), T("junk")>>)>>, <<Ln(0, <<T("junk")>>)>>, <<p0, P(1, "q", p0.toks[2].digits)>>,
   <<Ln(0, <<N("%", "x")>>)>>, <<Ln(0, <<N("%", "x"), Pos(2, 2, FALSE)>>)>>,
   <<Ln(0, <<N("%", "x"), Pos(0, 2, FALSE), Pos(1, 1, FALSE)>>)>>,
   <<Ln(0, <<N("%", "x"), Fun("f"), Fun("g")>>)>>, <<Ln(0, <<N("%", "x"), T("junk")>>)>>,
   <<Ln(0, <<N("&", "a"), T("junk")>>)>>, <<Ln(0, <<N("&", "a"), N("name", "x"), N("name", "x")>>)>>,
   <<Ln(0, <<N("&", "a")>>), Ln(0, <<N("&", "a")>>)>>, <<Ln(0, <<N("name", "p"), T("junk")>>)>>,
   <<Ln(0, <<N("name", "p"), N("%", "x")>>)>>, <<Ln(0, <<N("name", "p"), D(<<"0">>)>>)>>,
   <<Ln(0, <<N("name", "p"), D(<<"0", ".", "-">>)>>)>>, <<P(0, "p", <<"0", "0", "0", "1">>)>>,
   <<Ln(0, <<N("@", "f"), D(<<"0">>)>>)>>, <<Ln(0, <<N("name", "p"), Span("x", 4, FALSE)>>)>>}

MCFiles == Flat \union Grouped \union Declared \union Inferred \union Twice \union Odd
MCConfused == Confused
=============================================================================
