-------------------------- MODULE DecodeTreeProofs --------------------------
(***************************************************************************)
(* Proofs about the generator, for instructions of any width and any file. *)
(* Up to prop_masks the invariant is about types; there, a group that has  *)
(* its masks has them from all its members; and then, each call still to   *)
(* be made has members that agree on the bits decided so far, and each two *)
(* members of a group are told apart already or still in one call.         *)
(*                                                                         *)
(* Then about the two things a file is read for.  Groups: the patterns     *)
(* below a group lie together, and the masks prop_masks gives it are       *)
(* exactly what they share; both go from one level to the next.  Fields:   *)
(* what a pattern's line says of an argument is what its translator gets,  *)
(* whatever format it shares with other patterns; two fields the generator *)
(* takes for the same have the same value on every instruction, and no     *)
(* name stands for two fields.                                             *)
(***************************************************************************)
EXTENDS DecodeTree, NatLemmas, TLAPS

(* A sequence, whatever its elements are.                                  *)
IsSeq(s) == s \in Seq({s[k] : k \in DOMAIN s})

NodeFields == {"kind", "name", "parent", "fmt", "flds", "mask", "bits", "undef"}

Shapes ==
  /\ IsSeq(formats) /\ IsSeq(pats)
  /\ DOMAIN cur = DOMAIN NoLine
  /\ \A i \in DOMAIN pats : DOMAIN pats[i] = NodeFields
  /\ stage = "declare" => toks # <<>>

(* Before prop_masks, and before build_tree.                               *)
Parsing == stage \in {"read", "declare", "generic", "prop"}
Quiet ==
  /\ Parsing => unset = {} /\ work = Idle
  /\ Parsing \/ stage = "masks" => todo = {} /\ leaves = {}
  /\ stage = "built" => todo = {}

(* The bits of m have in every member of g the values of bs.               *)
Agree(g, m, bs) ==
  \A i \in Children(g) :
    m \subseteq pats[i].mask /\ pats[i].bits \intersect m = bs \intersect m

WorkOK ==
  /\ work.group # 0 =>
       /\ work.group \in unset
       /\ Children(work.group) \intersect unset = {}
       /\ \A i \in Children(work.group) : work.mask \subseteq pats[i].mask
  /\ work.mask \subseteq Bits
  /\ unset \subseteq Groups

GroupsOK ==
  /\ stage = "masks" =>
       \A g \in Groups \ unset :
         /\ Children(g) \intersect unset = {}
         /\ Agree(g, pats[g].mask, pats[g].bits)
  /\ stage \in {"build", "built"} =>
       \A g \in Groups : Agree(g, pats[g].mask, pats[g].bits)

(* A bit that both fix, with different values.                             *)
Apart(i, j) ==
  \E b \in pats[i].mask \intersect pats[j].mask :
    ~ (b \in pats[i].bits <=> b \in pats[j].bits)

Decided(t) == Labels(t.path) \union GroupBits(t.group)

CallsAgree ==
  \A t \in todo :
    \A i \in t.pats :
      t.mask \subseteq pats[i].mask /\ pats[i].bits \intersect t.mask = Decided(t)

Separated ==
  stage \in {"build", "built"} =>
    \A g \in ExcGroups : \A i, j \in Children(g) :
      i = j \/ Apart(i, j) \/ \E t \in todo : t.group = g /\ i \in t.pats /\ j \in t.pats

Covered ==
  stage \in {"build", "built"} =>
    \A g \in ExcGroups : \A i \in Children(g) :
      \/ \E t \in todo : t.group = g /\ i \in t.pats
      \/ \E l \in leaves : l.group = g /\ l.pat = i

TreeInv == CallsAgree /\ LeavesExact /\ Separated /\ Covered
IndInv == TypeOK /\ Shapes /\ Quiet /\ WorkOK /\ GroupsOK /\ TreeInv

-----------------------------------------------------------------------------
(* Sequences of anything.                                                  *)
LEMMA SeqIsSeq == ASSUME NEW S, NEW s \in Seq(S) PROVE IsSeq(s)
<1>. DEFINE R == {s[k] : k \in DOMAIN s}
<1>1. DOMAIN s = 1..Len(s) /\ Len(s) \in Nat
  OBVIOUS
<1>2. \A k \in 1..Len(s) : s[k] \in R
  BY <1>1
<1>3. s \in Seq(R)
  BY <1>1, <1>2
<1>. QED
  BY <1>3 DEF IsSeq

LEMMA AppendSeq ==
  ASSUME NEW s, IsSeq(s), NEW e
  PROVE  /\ IsSeq(Append(s, e))
         /\ Len(s) \in Nat /\ DOMAIN s = 1..Len(s)
         /\ Len(Append(s, e)) = Len(s) + 1
         /\ DOMAIN Append(s, e) = 1..(Len(s) + 1)
         /\ Append(s, e)[Len(s) + 1] = e
         /\ \A k \in DOMAIN s : Append(s, e)[k] = s[k]
<1>. DEFINE R == {s[k] : k \in DOMAIN s}
            Q == R \union {e}
<1>1. s \in Seq(R)
  BY DEF IsSeq
<1>2. s \in Seq(Q) /\ e \in Q
  <2>1. Len(s) \in Nat /\ DOMAIN s = 1..Len(s) /\ \A k \in 1..Len(s) : s[k] \in Q
    BY <1>1
  <2>2. s = [k \in 1..Len(s) |-> s[k]]
    BY <1>1
  <2>. QED
    BY <2>1, <2>2
<1>. HIDE DEF Q, R
<1>3. Append(s, e) \in Seq(Q)
  BY <1>2
<1>4. IsSeq(Append(s, e))
  BY <1>3, SeqIsSeq
<1>. QED
  BY <1>2, <1>4

LEMMA IsSeqFcn ==
  ASSUME NEW n \in Nat, NEW s, s = [k \in 1..n |-> s[k]]
  PROVE  IsSeq(s)
<1>. DEFINE R == {s[k] : k \in 1..n}
<1>1. DOMAIN s = 1..n /\ \A k \in 1..n : s[k] \in R
  OBVIOUS
<1>2. s \in [1..n -> R]
  BY <1>1
<1>3. s \in Seq(R)
  BY <1>2
<1>. QED
  BY <1>3, SeqIsSeq

LEMMA IsSeqLen ==
  ASSUME NEW s, IsSeq(s)
  PROVE  Len(s) \in Nat /\ DOMAIN s = 1..Len(s)
BY DEF IsSeq

-----------------------------------------------------------------------------
LEMMA InitInd == Init /\ TreeInit => IndInv
<1>. SUFFICES ASSUME Init, TreeInit PROVE IndInv
  OBVIOUS
<1>. USE DEF Init, TreeInit
<1>1. TypeOK
  <2>1. FileOK
    BY FilesAssumption DEF FileOK
  <2>2. CurOK
    <3>1. cur.mask = {} /\ cur.bits = {} /\ cur.fmt = 0
      BY DEF NoLine
    <3>2. Len(formats) = 0
      OBVIOUS
    <3>. QED
      BY <3>1, <3>2 DEF CurOK, Masked
  <2>. QED
    BY <2>1, <2>2 DEF TypeOK, FormatsOK, NodesOK, TreesOK
<1>2. Shapes
  <2>1. <<>> \in Seq({})
    OBVIOUS
  <2>2. IsSeq(<<>>)
    BY <2>1, SeqIsSeq
  <2>3. \A i \in DOMAIN pats : FALSE
    OBVIOUS
  <2>. QED
    BY <2>2, <2>3 DEF Shapes
<1>3. Quiet /\ WorkOK /\ GroupsOK
  BY DEF Quiet, WorkOK, GroupsOK, Idle
<1>4. TreeInv
  BY DEF TreeInv, CallsAgree, LeavesExact, Separated, Covered
<1>. QED
  BY <1>1, <1>2, <1>3, <1>4 DEF IndInv

(* While lines are read the trees are not there.                           *)
LEMMA ParseRest ==
  ASSUME IndInv, Parsing, UNCHANGED treeVars, Parsing' \/ stage' = "error"
  PROVE  (TreesOK /\ Quiet /\ WorkOK /\ GroupsOK /\ TreeInv)'
<1>1. /\ unset' = {} /\ work' = Idle /\ todo' = {} /\ leaves' = {}
      /\ stage' \in {"read", "declare", "generic", "prop", "error"}
  BY DEF IndInv, Quiet, treeVars, Parsing
<1>2. (TreesOK /\ Quiet /\ WorkOK /\ GroupsOK)'
  BY <1>1 DEF TreesOK, Quiet, WorkOK, GroupsOK, Idle
<1>3. TreeInv'
  BY <1>1 DEF TreeInv, CallsAgree, LeavesExact, Separated, Covered
<1>. QED
  BY <1>2, <1>3

(* What a token demands of a bit is demanded of a fixed bit.               *)
LEMMA AfterMasked ==
  ASSUME CurOK, Shapes, NEW tok, NEW c \in After(tok)
  PROVE  Masked(c) /\ c.fmt \in 0..Len(formats) /\ DOMAIN c = DOMAIN NoLine
<1>. USE DEF CurOK, Masked, NoLine
<1>1. DOMAIN cur = DOMAIN NoLine /\ DOMAIN formats = 1..Len(formats) /\ Len(formats) \in Nat
  BY IsSeqLen DEF Shapes
<1>2. ASSUME NEW nm, NEW f, NEW d \in WithField(nm, f)
      PROVE  Masked(d) /\ d.fmt \in 0..Len(formats) /\ DOMAIN d = DOMAIN NoLine
  BY <1>1, <1>2 DEF WithField
<1>3. CASE tok.kind = "&"
  BY <1>1, <1>3 DEF After
<1>4. CASE tok.kind = "@"
  BY <1>1, <1>4 DEF After, At
<1>5. CASE tok.kind = "%"
  BY <1>2, <1>5 DEF After
<1>6. CASE tok.kind = "import"
  BY <1>2, <1>6 DEF After
<1>7. CASE tok.kind = "const"
  BY <1>2, <1>7 DEF After
<1>8. CASE tok.kind = "span"
  <2>1. PICK d : /\ c = [d EXCEPT !.width = @ + tok.len]
                 /\ \E nm, f : d \in WithField(nm, f)
    BY <1>8 DEF After
  <2>. QED
    BY <1>2, <2>1
<1>9. CASE tok.kind = "bits"
  <2>1. /\ Placed(tok.digits, {"0", "1"}) \subseteq Bits
        /\ Placed(tok.digits, {"1"}) \subseteq Placed(tok.digits, {"0", "1"})
    BY DEF Placed
  <2>2. c = [cur EXCEPT !.mask = @ \union Placed(tok.digits, {"0", "1"}),
                        !.bits = @ \union Placed(tok.digits, {"1"}),
                        !.undef = @ \union Placed(tok.digits, {"-"}),
                        !.width = @ + Len(tok.digits)]
    BY <1>9 DEF After
  <2>3. /\ c.mask = cur.mask \union Placed(tok.digits, {"0", "1"})
        /\ c.bits = cur.bits \union Placed(tok.digits, {"1"})
        /\ c.fmt = cur.fmt /\ DOMAIN c = DOMAIN cur
    BY <1>1, <2>2
  <2>. QED
    BY <1>1, <2>1, <2>3
<1>. QED
  BY <1>3, <1>4, <1>5, <1>6, <1>7, <1>8, <1>9 DEF After

(* Another pattern or group.                                               *)
LEMMA AppendNode ==
  ASSUME IndInv, NEW p, Node(p), DOMAIN p = NodeFields, p.parent \in 0..Len(pats),
         pats' = Append(pats, p)
  PROVE  /\ IsSeq(pats') /\ DOMAIN pats \subseteq DOMAIN pats'
         /\ \A i \in DOMAIN pats' :
              /\ Node(pats'[i]) /\ pats'[i].parent \in 0..(i - 1)
              /\ DOMAIN pats'[i] = NodeFields
<1>1. IsSeq(pats)
  BY DEF IndInv, Shapes
<1>2. ASSUME NEW i \in DOMAIN pats'
      PROVE  /\ Node(pats'[i]) /\ pats'[i].parent \in 0..(i - 1)
             /\ DOMAIN pats'[i] = NodeFields
  <2>1. CASE i \in DOMAIN pats
    BY <1>1, <2>1, AppendSeq DEF IndInv, TypeOK, NodesOK, Shapes
  <2>2. CASE i = Len(pats) + 1
    <3>1. pats'[i] = p /\ Len(pats) \in Nat
      BY <1>1, <2>2, AppendSeq
    <3>. QED
      BY <2>2, <3>1
  <2>. QED
    BY <1>1, <2>1, <2>2, AppendSeq
<1>3. IsSeq(pats') /\ DOMAIN pats \subseteq DOMAIN pats'
  BY <1>1, AppendSeq
<1>. QED
  BY <1>2, <1>3

(* A group is open in a place before what comes now.                       *)
LEMMA ParentBefore ==
  ASSUME IndInv
  PROVE  Parent \in 0..Len(pats) /\ Len(pats) \in Nat
<1>1. DOMAIN pats = 1..Len(pats) /\ Len(pats) \in Nat
  BY IsSeqLen DEF IndInv, Shapes
<1>2. nesting \in Seq(1..Len(pats))
  BY <1>1 DEF IndInv, TypeOK, NodesOK
<1>3. CASE nesting = <<>>
  BY <1>1, <1>3 DEF Parent
<1>4. CASE nesting # <<>>
  <2>1. nesting[Len(nesting)] \in 1..Len(pats)
    BY <1>2, <1>4
  <2>. QED
    BY <1>1, <1>4, <2>1 DEF Parent
<1>. QED
  BY <1>1, <1>3, <1>4

(* Reading lines; a refused line changes nothing but the stage.            *)
LEMMA ReadInd ==
  ASSUME IndInv, SkipLine \/ ReadLine \/ EndOfFile \/ Fail
  PROVE  (FileOK /\ CurOK /\ FormatsOK /\ NodesOK /\ Shapes)'
<1>1. /\ file \in Seq(Line) /\ toks \in Seq(Token)
      /\ CurOK /\ FormatsOK /\ NodesOK /\ Shapes
  BY DEF IndInv, TypeOK, FileOK
<1>2. UNCHANGED <<nesting, formats, cur, pats>>
  BY DEF SkipLine, ReadLine, EndOfFile, Fail, declVars, parseVars
<1>3. (CurOK /\ FormatsOK /\ NodesOK)'
  BY <1>1, <1>2 DEF CurOK, FormatsOK, NodesOK
<1>4. FileOK' /\ (stage' = "declare" => toks' # <<>>)
  <2>1. CASE EndOfFile \/ Fail
    BY <1>1, <2>1 DEF EndOfFile, Fail, parseVars, FileOK
  <2>2. CASE SkipLine
    BY <1>1, <2>2 DEF SkipLine, FileOK
  <2>3. CASE ReadLine
    <3>1. /\ file # <<>> /\ ~ (toks = <<>> /\ IsEmpty(Head(file)))
          /\ toks' = toks \o Head(file).toks /\ file' = Tail(file)
          /\ stage' = IF Head(file).more THEN "read" ELSE "declare"
      BY <2>3 DEF ReadLine
    <3>2. Head(file) \in Line
      BY <1>1, <3>1
    <3>3. Head(file).toks \in Seq(Token)
      BY <3>2 DEF Line
    <3>4. stage' = "declare" => toks # <<>> \/ Head(file).toks # <<>>
      BY <3>1 DEF IsEmpty
    <3>5. \A a, b \in Seq(Token) : a # <<>> \/ b # <<>> => a \o b # <<>>
      OBVIOUS
    <3>6. file' \in Seq(Line) /\ toks' \in Seq(Token)
      BY <1>1, <3>1, <3>3
    <3>. QED
      BY <1>1, <3>1, <3>3, <3>4, <3>5, <3>6 DEF FileOK
  <2>. QED
    BY <2>1, <2>2, <2>3
<1>. QED
  BY <1>1, <1>2, <1>3, <1>4 DEF Shapes

(* Declarations of groups.                                                 *)
LEMMA GroupInd ==
  ASSUME IndInv, OpenGroup \/ CloseGroup
  PROVE  (FileOK /\ CurOK /\ FormatsOK /\ NodesOK /\ Shapes)'
<1>1. /\ FileOK /\ CurOK /\ FormatsOK /\ NodesOK /\ Shapes
      /\ nesting \in Seq(DOMAIN pats) /\ DOMAIN pats = 1..Len(pats)
  BY IsSeqLen DEF IndInv, TypeOK, NodesOK, Shapes
<1>2. UNCHANGED <<file, formats, cur>> /\ toks' = <<>> /\ stage' = "read"
  BY DEF OpenGroup, CloseGroup, declVars
<1>3. (FileOK /\ CurOK /\ FormatsOK)'
  BY <1>1, <1>2 DEF FileOK, CurOK, FormatsOK
<1>4. CASE OpenGroup
  <2>1. PICK kind \in {"inc", "exc"} : pats' = Append(pats, Group(kind))
    BY <1>4 DEF OpenGroup
  <2>2. /\ Node(Group(kind)) /\ DOMAIN Group(kind) = NodeFields
        /\ Group(kind).parent \in 0..Len(pats)
    BY ParentBefore DEF Group, Node, NodeFields
  <2>3. /\ IsSeq(pats') /\ DOMAIN pats \subseteq DOMAIN pats'
        /\ \A i \in DOMAIN pats' :
             /\ Node(pats'[i]) /\ pats'[i].parent \in 0..(i - 1)
             /\ DOMAIN pats'[i] = NodeFields
    BY <2>1, <2>2, AppendNode
  <2>4. nesting' \in Seq(DOMAIN pats')
    <3>1. Len(pats) + 1 \in DOMAIN pats'
      BY <1>1, <2>1, AppendSeq DEF Shapes
    <3>2. nesting \in Seq(DOMAIN pats')
      BY <1>1, <2>3
    <3>3. nesting' = Append(nesting, Len(pats) + 1)
      BY <1>4 DEF OpenGroup
    <3>. QED
      BY <3>1, <3>2, <3>3
  <2>. QED
    BY <1>1, <1>2, <1>3, <2>3, <2>4 DEF NodesOK, Shapes
<1>5. CASE CloseGroup
  <2>1. pats' = pats /\ nesting # <<>>
        /\ nesting' = SubSeq(nesting, 1, Len(nesting) - 1)
    BY <1>5 DEF CloseGroup, Closes
  <2>2. nesting' \in Seq(DOMAIN pats)
    BY <1>1, <2>1
  <2>. QED
    BY <1>1, <1>2, <1>3, <2>1, <2>2 DEF NodesOK, Shapes
<1>. QED
  BY <1>4, <1>5

(* Declarations of fields and argument sets, and the tokens of a line.     *)
LEMMA DeclareInd ==
  ASSUME IndInv, ParseField \/ ParseArguments \/ StartGeneric \/ TakeToken
  PROVE  (FileOK /\ CurOK /\ FormatsOK /\ NodesOK /\ Shapes)'
<1>1. /\ FileOK /\ CurOK /\ FormatsOK /\ NodesOK /\ Shapes
  BY DEF IndInv, TypeOK
<1>2. UNCHANGED <<file, nesting, formats, pats>> /\ stage' # "declare"
  BY DEF ParseField, ParseArguments, StartGeneric, TakeToken, declVars
<1>3. toks' \in Seq(Token)
  <2>1. toks' = <<>> \/ (toks # <<>> /\ toks' = Tail(toks))
    BY <1>1 DEF ParseField, ParseArguments, StartGeneric, TakeToken, Shapes, Starts,
                Declares
  <2>2. toks \in Seq(Token)
    BY <1>1 DEF FileOK
  <2>3. toks # <<>> => Tail(toks) \in Seq(Token)
    BY <2>2
  <2>4. <<>> \in Seq(Token)
    OBVIOUS
  <2>. QED
    BY <2>1, <2>3, <2>4
<1>4. Masked(cur') /\ cur'.fmt \in 0..Len(formats) /\ DOMAIN cur' = DOMAIN NoLine
  <2>1. CASE UNCHANGED cur
    BY <1>1, <2>1 DEF CurOK, Shapes
  <2>2. CASE StartGeneric
    <3>1. Len(formats) \in Nat
      BY <1>1, IsSeqLen DEF Shapes
    <3>2. cur'.mask = {} /\ cur'.bits = {} /\ cur'.fmt = 0 /\ DOMAIN cur' = DOMAIN NoLine
      BY <2>2 DEF StartGeneric, NoLine
    <3>. QED
      BY <3>1, <3>2 DEF Masked
  <2>3. CASE TakeToken
    BY <1>1, <2>3, AfterMasked DEF TakeToken
  <2>. QED
    BY <2>1, <2>2, <2>3 DEF ParseField, ParseArguments
<1>. QED
  BY <1>1, <1>2, <1>3, <1>4 DEF FileOK, CurOK, FormatsOK, NodesOK, Shapes

(* A line becomes a format or a pattern.                                   *)
LEMMA GenericInd ==
  ASSUME IndInv, ParseFormat \/ ParsePattern
  PROVE  (FileOK /\ CurOK /\ FormatsOK /\ NodesOK /\ Shapes)'
<1>1. /\ FileOK /\ CurOK /\ FormatsOK /\ NodesOK /\ Shapes
      /\ IsSeq(formats) /\ Masked(cur) /\ cur.fmt \in 0..Len(formats)
  BY DEF IndInv, TypeOK, CurOK, Shapes
<1>2. UNCHANGED <<file, toks, nesting, cur>> /\ stage' = "read"
  BY DEF ParseFormat, ParsePattern, fileVars
<1>3. FileOK' /\ cur' = cur
  BY <1>1, <1>2 DEF FileOK
<1>4. /\ IsSeq(formats') /\ FormatsOK' /\ Len(formats) <= Len(formats')
      /\ Len(formats') \in Nat
  <2>1. CASE formats' = formats
    BY <1>1, <2>1, IsSeqLen DEF FormatsOK
  <2>2. ASSUME NEW f, Masked(f), formats' = Append(formats, f)
        PROVE  /\ IsSeq(formats') /\ FormatsOK' /\ Len(formats) <= Len(formats')
               /\ Len(formats') \in Nat
    <3>1. \A k \in DOMAIN formats' :
            (k \in DOMAIN formats /\ formats'[k] = formats[k]) \/ formats'[k] = f
      BY <1>1, <2>2, AppendSeq
    <3>2. FormatsOK'
      BY <1>1, <2>2, <3>1 DEF FormatsOK
    <3>. QED
      BY <1>1, <2>2, <3>2, AppendSeq
  <2>3. CASE ParseFormat
    <3>1. Masked(Format(cur.name, base, cur, cur.flds))
      BY <1>1 DEF Format, Masked
    <3>. QED
      BY <2>2, <2>3, <3>1 DEF ParseFormat
  <2>4. CASE ParsePattern
    <3>1. Masked(Format("", base, NoLine, cur.flds))
      BY DEF Format, Masked, NoLine
    <3>. QED
      BY <2>1, <2>2, <2>4, <3>1 DEF ParsePattern, FormatsAfter
  <2>. QED
    BY <2>3, <2>4
<1>5. CurOK'
  BY <1>1, <1>3, <1>4, IsSeqLen DEF CurOK
<1>6. NodesOK' /\ IsSeq(pats') /\ \A i \in DOMAIN pats' : DOMAIN pats'[i] = NodeFields
  <2>1. CASE ParseFormat
    BY <1>1, <1>2, <2>1 DEF ParseFormat, NodesOK, Shapes
  <2>2. CASE ParsePattern
    <3>1. Masked(FormatMasks)
      <4>1. CASE cur.fmt = 0
        BY <4>1 DEF FormatMasks, NoLine, Masked
      <4>2. CASE cur.fmt # 0
        <5>1. cur.fmt \in DOMAIN formats
          BY <1>1, <4>2, IsSeqLen
        <5>. QED
          BY <1>1, <4>2, <5>1 DEF FormatMasks, FormatsOK
      <4>. QED
        BY <4>1, <4>2
    <3>2. /\ Node(Pattern) /\ DOMAIN Pattern = NodeFields
          /\ Pattern.parent \in 0..Len(pats)
      BY <1>1, <3>1, ParentBefore DEF Pattern, Masked, Node, NodeFields
    <3>3. /\ IsSeq(pats') /\ DOMAIN pats \subseteq DOMAIN pats'
          /\ \A i \in DOMAIN pats' :
               /\ Node(pats'[i]) /\ pats'[i].parent \in 0..(i - 1)
               /\ DOMAIN pats'[i] = NodeFields
      BY <2>2, <3>2, AppendNode DEF ParsePattern
    <3>4. nesting' \in Seq(DOMAIN pats')
      BY <1>1, <1>2, <3>3 DEF NodesOK
    <3>. QED
      BY <3>3, <3>4 DEF NodesOK
  <2>. QED
    BY <2>1, <2>2
<1>. QED
  BY <1>1, <1>2, <1>3, <1>4, <1>5, <1>6 DEF Shapes

LEMMA ParseInd == ASSUME IndInv, Parse, UNCHANGED treeVars PROVE IndInv'
<1>1. Parsing /\ (Parsing' \/ stage' = "error")
  BY DEF Parse, Parsing, SkipLine, MisplacedComment, ReadLine, EndOfFile, OpenGroup,
         CloseGroup, BadGroup, BadDeclaration, ParseField, ParseArguments,
         BadFieldOrArguments, StartGeneric, TakeToken, BadToken, ParseFormat,
         ParsePattern, BadLine, Starts, Declares, Ends, Fail
<1>2. (TreesOK /\ Quiet /\ WorkOK /\ GroupsOK /\ TreeInv)'
  BY <1>1, ParseRest
<1>3. (FileOK /\ CurOK /\ FormatsOK /\ NodesOK /\ Shapes)'
  BY ReadInd, GroupInd, DeclareInd, GenericInd
  DEF Parse, MisplacedComment, BadGroup, BadDeclaration, BadFieldOrArguments, BadToken,
      BadLine
<1>. QED
  BY <1>2, <1>3 DEF IndInv, TypeOK

-----------------------------------------------------------------------------
(* prop_masks changes nothing of the types of the lines.                   *)
LEMMA MembersAreNodes ==
  ASSUME IndInv, NEW g
  PROVE  /\ Children(g) \subseteq DOMAIN pats
         /\ \A i \in Children(g) : g < i /\ pats[i].mask \subseteq Bits
BY IsSeqLen DEF IndInv, TypeOK, NodesOK, Node, Children, Shapes

LEMMA StartPropInd == ASSUME IndInv, StartProp PROVE IndInv'
<1>1. /\ stage = "prop" /\ stage' = "masks" /\ unset' = Groups
      /\ UNCHANGED <<parseVars, work, todo, trees, leaves>>
  BY DEF StartProp
<1>2. todo = {} /\ leaves = {} /\ work = Idle
  BY <1>1 DEF IndInv, Quiet, Parsing
<1>3. TypeOK' /\ Shapes'
  BY <1>1, <1>2 DEF IndInv, TypeOK, FileOK, CurOK, FormatsOK, NodesOK, TreesOK, Shapes, parseVars
<1>4. Quiet'
  BY <1>1, <1>2 DEF Quiet, Parsing
<1>5. WorkOK' /\ GroupsOK'
  <2>1. Groups' = Groups
    BY <1>1 DEF Groups, parseVars
  <2>. QED
    BY <1>1, <1>2, <2>1 DEF WorkOK, GroupsOK, Idle
<1>6. TreeInv'
  BY <1>1, <1>2 DEF TreeInv, CallsAgree, LeavesExact, Separated, Covered
<1>. QED
  BY <1>3, <1>4, <1>5, <1>6 DEF IndInv

(* Comparing the members of a group.                                       *)
LEMMA CompareInd ==
  ASSUME IndInv, stage = "masks",
         (\E g \in unset : EnterGroup(g)) \/ Widen
  PROVE  IndInv'
<1>1. UNCHANGED <<parseVars, stage, unset, todo, trees, leaves>>
  BY DEF EnterGroup, Widen
<1>2. todo = {} /\ leaves = {}
  BY DEF IndInv, Quiet
<1>3. TypeOK' /\ Shapes'
  BY <1>1, <1>2 DEF IndInv, TypeOK, FileOK, CurOK, FormatsOK, NodesOK, TreesOK, Shapes, parseVars
<1>4. Groups' = Groups /\ \A g : Children(g)' = Children(g)
  BY <1>1 DEF Groups, Children, parseVars
<1>5. WorkOK'
  <2>1. CASE Widen
    <3>1. work' = [work EXCEPT !.mask = @ \ Differ(Leader, First(Others)),
                               !.bits = thisbits(Leader)]
      BY <2>1 DEF Widen
    <3>2. work'.group = work.group /\ work'.mask \subseteq work.mask
      BY <3>1 DEF IndInv, Shapes
    <3>. QED
      BY <1>1, <1>4, <3>2 DEF IndInv, WorkOK, parseVars
  <2>2. ASSUME NEW g \in unset, EnterGroup(g) PROVE WorkOK'
    <3>1. /\ work'.group = g /\ work'.mask = CommonMask(g)
          /\ Children(g) \intersect unset = {}
      BY <2>2 DEF EnterGroup
    <3>2. CommonMask(g) \subseteq Bits
          /\ \A i \in Children(g) : CommonMask(g) \subseteq pats[i].mask
      BY DEF CommonMask
    <3>. QED
      BY <1>1, <1>4, <3>1, <3>2 DEF IndInv, WorkOK, parseVars
  <2>. QED
    BY <2>1, <2>2
<1>6. GroupsOK'
  <2>1. \A g, m, bs : Agree(g, m, bs)' = Agree(g, m, bs)
    BY <1>1, <1>4 DEF Agree, parseVars
  <2>. QED
    BY <1>1, <1>4, <2>1 DEF IndInv, GroupsOK, parseVars
<1>7. Quiet' /\ TreeInv'
  BY <1>1, <1>2 DEF Quiet, Parsing, TreeInv, CallsAgree, LeavesExact, Separated, Covered
<1>. QED
  BY <1>3, <1>5, <1>6, <1>7 DEF IndInv

(* A group gets the masks on which its members agree.                      *)
LEMMA SettleInd == ASSUME IndInv, stage = "masks", Settle PROVE IndInv'
<1>. DEFINE bs == IF work.mask = {} THEN work.bits ELSE thisbits(Leader)
<1>0. PICK g : g = work.group
  OBVIOUS
<1>1. /\ g # 0 /\ g \in unset /\ g \in DOMAIN pats /\ pats[g].kind # "pattern"
      /\ work.mask \subseteq Bits
      /\ Children(g) \intersect unset = {}
      /\ \A i \in Children(g) : work.mask \subseteq pats[i].mask
  BY <1>0 DEF Settle, IndInv, WorkOK, Groups
<1>2. /\ pats' = [pats EXCEPT ![g].mask = work.mask, ![g].bits = bs]
      /\ unset' = unset \ {g} /\ work' = Idle
      /\ UNCHANGED <<file, toks, nesting, formats, cur, stage, todo, leaves>>
  BY <1>0 DEF Settle, fileVars, declVars
<1>3. todo = {} /\ leaves = {}
  BY DEF IndInv, Quiet
<1>4. /\ DOMAIN pats' = DOMAIN pats
      /\ \A i \in DOMAIN pats : i # g => pats'[i] = pats[i]
      /\ DOMAIN pats'[g] = NodeFields
      /\ pats'[g].mask = work.mask /\ pats'[g].bits = bs
      /\ \A i \in DOMAIN pats : /\ pats'[i].kind = pats[i].kind
                              /\ pats'[i].parent = pats[i].parent
  <2>1. DOMAIN pats[g] = NodeFields
    BY <1>1 DEF IndInv, Shapes
  <2>. QED
    BY <1>1, <1>2, <2>1 DEF NodeFields
<1>5. Groups' = Groups /\ \A h : Children(h)' = Children(h)
  BY <1>4 DEF Groups, Children
<1>6. IsSeq(pats')
  <2>1. DOMAIN pats = 1..Len(pats) /\ Len(pats) \in Nat
    BY IsSeqLen DEF IndInv, Shapes
  <2>2. pats' = [k \in 1..Len(pats) |-> pats'[k]]
    BY <1>2, <2>1
  <2>. QED
    BY <2>1, <2>2, IsSeqFcn
<1>7. TypeOK' /\ Shapes'
  <2>1. \A i \in DOMAIN pats' : Node(pats'[i]) /\ pats'[i].parent \in 0..(i - 1)
    BY <1>1, <1>4 DEF IndInv, TypeOK, NodesOK, Node
  <2>2. NodesOK'
    BY <1>2, <1>4, <2>1 DEF IndInv, TypeOK, NodesOK
  <2>3. Shapes'
    BY <1>2, <1>4, <1>6 DEF IndInv, Shapes
  <2>. QED
    BY <1>2, <1>3, <2>2, <2>3 DEF IndInv, TypeOK, FileOK, CurOK, FormatsOK, TreesOK
<1>8. WorkOK'
  BY <1>2, <1>5 DEF IndInv, WorkOK, Idle
<1>9. GroupsOK'
  <2>1. \A i \in Children(g) : i # g /\ i \in DOMAIN pats
    BY <1>1, MembersAreNodes DEF IndInv, TypeOK
  <2>2. Agree(g, pats[g].mask, pats[g].bits)'
    <3>1. SUFFICES ASSUME NEW i \in Children(g)
                   PROVE  /\ work.mask \subseteq pats[i].mask
                          /\ pats[i].bits \intersect work.mask = bs \intersect work.mask
      BY <1>4, <1>5, <2>1 DEF Agree
    <3>2. CASE work.mask = {}
      BY <1>1, <3>2
    <3>3. CASE work.mask # {}
      <4>1. Others = {}
        BY <3>3 DEF Settle
      <4>2. thisbits(i) = thisbits(Leader)
        BY <1>0, <4>1 DEF Others
      <4>. QED
        BY <1>1, <3>3, <4>2 DEF thisbits
    <3>. QED
      BY <3>2, <3>3
  <2>3. ASSUME NEW h \in Groups, h \notin unset
        PROVE  Children(h) \intersect unset = {} /\ Agree(h, pats[h].mask, pats[h].bits)'
    <3>1. Children(h) \intersect unset = {} /\ Agree(h, pats[h].mask, pats[h].bits)
      BY <2>3 DEF IndInv, GroupsOK
    <3>2. h # g /\ g \notin Children(h) /\ h \in DOMAIN pats
      BY <1>1, <2>3, <3>1 DEF Groups
    <3>. QED
      BY <1>4, <1>5, <3>1, <3>2, MembersAreNodes DEF Agree
  <2>. QED
    BY <1>1, <1>2, <1>5, <2>2, <2>3 DEF GroupsOK
<1>10. Quiet' /\ TreeInv'
  BY <1>2, <1>3 DEF Quiet, Parsing, TreeInv, CallsAgree, LeavesExact, Separated, Covered
<1>. QED
  BY <1>7, <1>8, <1>9, <1>10 DEF IndInv

(* Steps that change nothing but the stage.                                *)
LEMMA StageInd ==
  ASSUME IndInv, UNCHANGED <<parseVars, treeVars>>,
         \/ stage' \in {stage, "error"}
         \/ stage = "build" /\ stage' = "built" /\ todo = {}
  PROVE  IndInv'
<1>. USE DEF parseVars, treeVars
<1>1. TypeOK' /\ Shapes'
  BY DEF IndInv, TypeOK, FileOK, CurOK, FormatsOK, NodesOK, TreesOK, Tasks, Leaves, Shapes
<1>2. Quiet'
  BY DEF IndInv, Quiet, Parsing
<1>3. Groups' = Groups /\ ExcGroups' = ExcGroups /\ \A g : Children(g)' = Children(g)
  BY DEF Groups, ExcGroups, Children
<1>4. WorkOK' /\ GroupsOK'
  <2>1. \A g, m, bs : Agree(g, m, bs)' = Agree(g, m, bs)
    BY <1>3 DEF Agree
  <2>. QED
    BY <1>3, <2>1 DEF IndInv, WorkOK, GroupsOK
<1>5. CallsAgree' /\ LeavesExact'
  BY DEF IndInv, TreeInv, CallsAgree, LeavesExact, Decided, GroupBits, Labels
<1>6. Separated' /\ Covered'
  BY <1>3 DEF IndInv, TreeInv, Separated, Covered, Apart
<1>. QED
  BY <1>1, <1>2, <1>4, <1>5, <1>6 DEF IndInv, TreeInv

-----------------------------------------------------------------------------
(* The labels of a longer way.                                             *)
LEMMA AppendLabels ==
  ASSUME NEW S, NEW path \in Seq(S), NEW b \in S
  PROVE  Labels(Append(path, b)) = Labels(path) \union b
<1>1. DOMAIN path = 1..Len(path) /\ Len(path) \in Nat
  OBVIOUS
<1>2. DOMAIN Append(path, b) = 1..(Len(path) + 1)
  OBVIOUS
<1>3. \A k \in 1..Len(path) : Append(path, b)[k] = path[k]
  OBVIOUS
<1>4. Append(path, b)[Len(path) + 1] = b
  OBVIOUS
<1>5. ASSUME NEW x \in Labels(Append(path, b)) PROVE x \in Labels(path) \union b
  <2>1. PICK k \in 1..(Len(path) + 1) : x \in Append(path, b)[k]
    BY <1>2, <1>5 DEF Labels
  <2>2. CASE k = Len(path) + 1
    BY <1>4, <2>1, <2>2
  <2>3. CASE k # Len(path) + 1
    <3>1. k \in 1..Len(path)
      BY <1>1, <2>3
    <3>. QED
      BY <1>1, <1>3, <2>1, <3>1 DEF Labels
  <2>. QED
    BY <2>2, <2>3
<1>6. ASSUME NEW x \in Labels(path) \union b PROVE x \in Labels(Append(path, b))
  <2>1. CASE x \in b
    <3>1. Len(path) + 1 \in DOMAIN Append(path, b)
      BY <1>1, <1>2
    <3>. QED
      BY <1>4, <2>1, <3>1 DEF Labels
  <2>2. CASE x \in Labels(path)
    <3>1. PICK k \in 1..Len(path) : x \in path[k]
      BY <1>1, <2>2 DEF Labels
    <3>2. k \in DOMAIN Append(path, b)
      BY <1>1, <1>2
    <3>. QED
      BY <1>3, <3>1, <3>2 DEF Labels
  <2>. QED
    BY <1>6, <2>1, <2>2
<1>. QED
  BY <1>5, <1>6

LEMMA StartBuildInd == ASSUME IndInv, StartBuild PROVE IndInv'
<1>1. /\ stage = "masks" /\ unset = {} /\ stage' = "build"
      /\ todo' = {Call(g, Children(g), GroupMask(g), <<>>) : g \in ExcGroups}
      /\ UNCHANGED <<parseVars, unset, work, leaves>>
  BY DEF StartBuild
<1>. USE DEF parseVars
<1>2. leaves = {}
  BY <1>1 DEF IndInv, Quiet
<1>3. Groups' = Groups /\ ExcGroups' = ExcGroups /\ \A g : Children(g)' = Children(g)
  BY <1>1 DEF Groups, ExcGroups, Children
<1>4. \A g \in Groups : Agree(g, pats[g].mask, pats[g].bits)
  BY <1>1 DEF IndInv, GroupsOK
<1>5. \A g \in ExcGroups :
        /\ g = 0 \/ (g \in Groups /\ g \in DOMAIN pats)
        /\ g \in Nat /\ GroupMask(g) \subseteq Bits
  <2>1. DOMAIN pats \subseteq Nat \ {0} /\ \A i \in DOMAIN pats : pats[i].mask \subseteq Bits
    BY IsSeqLen DEF IndInv, Shapes, TypeOK, NodesOK, Node
  <2>. QED
    BY <2>1 DEF ExcGroups, Groups, GroupMask
<1>6. ASSUME NEW t \in todo'
      PROVE  \E g \in ExcGroups : /\ t.group = g /\ t.pats = Children(g)
                                 /\ t.mask = GroupMask(g) /\ t.path = <<>>
                                 /\ t \in Tasks
  <2>1. PICK g \in ExcGroups : t = Call(g, Children(g), GroupMask(g), <<>>)
    BY <1>1, <1>6
  <2>2. <<>> \in Seq(SUBSET Bits) /\ Children(g) \in SUBSET DOMAIN pats
    BY DEF Children
  <2>. QED
    BY <1>5, <2>1, <2>2 DEF Call, Tasks
<1>7. TypeOK' /\ Shapes'
  <2>1. TreesOK'
    BY <1>1, <1>2, <1>6 DEF TreesOK, Tasks
  <2>. QED
    BY <1>1, <2>1 DEF IndInv, TypeOK, FileOK, CurOK, FormatsOK, NodesOK, Shapes
<1>8. Quiet' /\ WorkOK'
  BY <1>1, <1>3 DEF IndInv, Quiet, Parsing, WorkOK
<1>9. GroupsOK'
  <2>1. \A g, m, bs : Agree(g, m, bs)' = Agree(g, m, bs)
    BY <1>1, <1>3 DEF Agree
  <2>. QED
    BY <1>1, <1>3, <1>4, <2>1 DEF GroupsOK
<1>10. CallsAgree'
  <2>1. Labels(<<>>) = {}
    BY DEF Labels
  <2>2. ASSUME NEW t \in todo', NEW i \in t.pats
        PROVE  /\ t.mask \subseteq pats[i].mask
               /\ pats[i].bits \intersect t.mask = Decided(t)
    <3>1. PICK g \in ExcGroups : /\ t.group = g /\ t.pats = Children(g)
                                /\ t.mask = GroupMask(g) /\ t.path = <<>>
      BY <1>6, <2>2
    <3>2. Decided(t) = GroupBits(g)
      BY <2>1, <3>1 DEF Decided
    <3>3. CASE g = 0
      BY <3>1, <3>2, <3>3 DEF GroupMask, GroupBits
    <3>4. CASE g # 0
      <4>1. Agree(g, pats[g].mask, pats[g].bits)
        BY <1>4, <1>5, <3>4
      <4>. QED
        BY <2>2, <3>1, <3>2, <3>4, <4>1 DEF Agree, GroupMask, GroupBits
    <3>. QED
      BY <3>3, <3>4
  <2>3. \A t : Decided(t)' = Decided(t)
    BY <1>1 DEF Decided, GroupBits, Labels
  <2>. QED
    BY <1>1, <2>2, <2>3 DEF CallsAgree
<1>11. ASSUME NEW g \in ExcGroups
       PROVE  \E t \in todo' : t.group = g /\ t.pats = Children(g)
  <2>1. Call(g, Children(g), GroupMask(g), <<>>) \in todo'
    BY <1>1
  <2>2. \A ps, mask, path : /\ Call(g, ps, mask, path).group = g
                           /\ Call(g, ps, mask, path).pats = ps
    BY DEF Call
  <2>. QED
    BY <2>1, <2>2
<1>12. Separated' /\ Covered'
  BY <1>1, <1>3, <1>11 DEF Separated, Covered
<1>. QED
  BY <1>1, <1>2, <1>7, <1>8, <1>9, <1>10, <1>12 DEF IndInv, TreeInv, LeavesExact

(* The bits common to a call are fixed in all its members.                 *)
LEMMA InnerFixed ==
  ASSUME NEW t, NEW i \in t.pats
  PROVE  /\ innermask(t) \subseteq pats[i].mask
         /\ innermask(t) \subseteq Bits
BY DEF innermask

(* A member goes where its own bits lead it.                               *)
LEMMA SubBits ==
  ASSUME IndInv, NEW t \in todo, NEW i \in t.pats
  PROVE  /\ t.group \in Nat /\ i \in DOMAIN pats
         /\ fullmask(t) \subseteq pats[i].mask
         /\ pats[i].bits \intersect fullmask(t) = Decided(t) \union fb(t, i)
         /\ fullmask(t) \in SUBSET Bits
         /\ Append(t.path, fb(t, i)) \in Seq(SUBSET Bits)
         /\ Labels(Append(t.path, fb(t, i))) = Labels(t.path) \union fb(t, i)
<1>1. /\ t \in Tasks /\ t.mask \subseteq pats[i].mask
      /\ pats[i].bits \intersect t.mask = Decided(t)
  BY DEF IndInv, TypeOK, TreesOK, TreeInv, CallsAgree
<1>2. /\ t.group \in Nat /\ t.pats \in SUBSET DOMAIN pats
      /\ t.mask \in SUBSET Bits /\ t.path \in Seq(SUBSET Bits)
  BY <1>1 DEF Tasks
<1>3. fb(t, i) \in SUBSET Bits
  BY InnerFixed DEF fb
<1>4. Labels(Append(t.path, fb(t, i))) = Labels(t.path) \union fb(t, i)
  BY <1>2, <1>3, AppendLabels
<1>5. Append(t.path, fb(t, i)) \in Seq(SUBSET Bits)
  BY <1>2, <1>3
<1>6. innermask(t) \subseteq pats[i].mask /\ innermask(t) \subseteq Bits
  BY InnerFixed
<1>7. fullmask(t) \subseteq pats[i].mask /\ fullmask(t) \in SUBSET Bits
  BY <1>1, <1>2, <1>6 DEF fullmask
<1>8. pats[i].bits \intersect fullmask(t) = Decided(t) \union fb(t, i)
  BY <1>1 DEF fullmask, fb
<1>. QED
  BY <1>2, <1>4, <1>5, <1>7, <1>8

(* A leaf is its member, when all bits of the member are decided.          *)
LEMMA LeafIsPat ==
  ASSUME IndInv, NEW t \in todo, NEW i \in t.pats, pats[i].mask \subseteq fullmask(t),
         NEW l, l = Leaf(t, i)
  PROVE  /\ l.group = t.group /\ l.pat = i /\ l \in Leaves
         /\ l.mask = pats[i].mask
         /\ Labels(l.path) \union GroupBits(t.group) = pats[i].bits \intersect pats[i].mask
<1>1. /\ l.group = t.group /\ l.pat = i /\ l.mask = fullmask(t)
      /\ l.path = Append(t.path, fb(t, i)) /\ l \in Leaves
  BY SubBits DEF Leaf, Leaves
<1>2. fullmask(t) = pats[i].mask
  BY SubBits
<1>3. Labels(l.path) \union GroupBits(t.group) = Decided(t) \union fb(t, i)
  BY <1>1, SubBits DEF Decided
<1>4. Decided(t) \union fb(t, i) = pats[i].bits \intersect pats[i].mask
  BY <1>2, SubBits
<1>. QED
  BY <1>1, <1>2, <1>3, <1>4

(* What a call of __build_tree leaves as it was.                           *)
LEMMA BuildRest ==
  ASSUME IndInv, stage = "build", UNCHANGED <<parseVars, stage, unset, work>>
  PROVE  /\ (FileOK /\ CurOK /\ FormatsOK /\ NodesOK /\ Shapes)'
         /\ Quiet' /\ WorkOK' /\ GroupsOK'
         /\ ExcGroups' = ExcGroups /\ (\A g : Children(g)' = Children(g))
         /\ \A t : Decided(t)' = Decided(t)
<1>. USE DEF parseVars
<1>1. /\ Groups' = Groups /\ ExcGroups' = ExcGroups /\ \A g : Children(g)' = Children(g)
  BY DEF Groups, ExcGroups, Children
<1>2. \A g, m, bs : Agree(g, m, bs)' = Agree(g, m, bs)
  BY <1>1 DEF Agree
<1>3. WorkOK' /\ GroupsOK'
  BY <1>1, <1>2 DEF IndInv, WorkOK, GroupsOK
<1>4. (FileOK /\ CurOK /\ FormatsOK /\ NodesOK /\ Shapes)'
  BY DEF IndInv, TypeOK, FileOK, CurOK, FormatsOK, NodesOK, Shapes
<1>5. Quiet' /\ \A t : Decided(t)' = Decided(t)
  BY DEF Quiet, Parsing, Decided, GroupBits, Labels
<1>. QED
  BY <1>1, <1>3, <1>4, <1>5

(* New leaves are right if they are leaves of a call with all bits decided.*)
LEMMA LeavesInd ==
  ASSUME IndInv, UNCHANGED parseVars, NEW t \in todo, NEW new, leaves' = leaves \union new,
         \A l \in new : \E i \in t.pats : l = Leaf(t, i) /\ pats[i].mask \subseteq fullmask(t)
  PROVE  (leaves \subseteq Leaves /\ LeavesExact)'
<1>. USE DEF parseVars
<1>1. \A l \in new :
        /\ l \in Leaves /\ l.mask = pats[l.pat].mask
        /\ Labels(l.path) \union GroupBits(l.group) = pats[l.pat].bits \intersect pats[l.pat].mask
  BY LeafIsPat
<1>2. leaves \subseteq Leaves
      /\ \A l \in leaves :
           /\ l.mask = pats[l.pat].mask
           /\ Labels(l.path) \union GroupBits(l.group)
                = pats[l.pat].bits \intersect pats[l.pat].mask
  BY DEF IndInv, TypeOK, TreesOK, TreeInv, LeavesExact
<1>3. Leaves' = Leaves /\ (\A g : GroupBits(g)' = GroupBits(g))
  BY DEF Leaves, GroupBits
<1>. QED
  BY <1>1, <1>2, <1>3 DEF LeavesExact, Labels

(* A call that separates its members.                                      *)
LEMMA SplitInd ==
  ASSUME IndInv, stage = "build", NEW t \in todo, Split(t)
  PROVE  IndInv'
<1>1. /\ UNCHANGED <<parseVars, stage, unset, work>>
      /\ todo' = (todo \ {t}) \union SubCalls(t) /\ leaves' = leaves \union SubLeaves(t)
  BY DEF Split
<1>. USE DEF parseVars
<1>2. t.pats \subseteq DOMAIN pats
  BY DEF IndInv, TypeOK, TreesOK, Tasks
<1>3. ASSUME NEW u \in SubCalls(t)
      PROVE  \E i \in t.pats : /\ u.group = t.group /\ u.pats = Bin(t, i)
                               /\ u.mask = fullmask(t)
                               /\ u.path = Append(t.path, fb(t, i))
                               /\ u \in Tasks
  <2>1. PICK i \in t.pats : u = Call(t.group, Bin(t, i), fullmask(t),
                                     Append(t.path, fb(t, i)))
    BY <1>3 DEF SubCalls
  <2>2. Bin(t, i) \in SUBSET DOMAIN pats
    BY <1>2 DEF Bin
  <2>. QED
    BY <2>1, <2>2, SubBits DEF Call, Tasks
<1>4. (leaves \subseteq Leaves /\ LeavesExact)'
  <2>1. \A l \in SubLeaves(t) :
          \E i \in t.pats : l = Leaf(t, i) /\ pats[i].mask \subseteq fullmask(t)
    BY DEF SubLeaves, Settled
  <2>. QED
    BY <1>1, <2>1, LeavesInd
<1>5. TreesOK'
  BY <1>1, <1>3, <1>4 DEF IndInv, TypeOK, TreesOK, Tasks
<1>6. CallsAgree'
  <2>1. ASSUME NEW u \in SubCalls(t), NEW j \in u.pats
        PROVE  u.mask \subseteq pats[j].mask /\ pats[j].bits \intersect u.mask = Decided(u)
    <3>1. PICK i \in t.pats : /\ u.group = t.group /\ u.pats = Bin(t, i)
                             /\ u.mask = fullmask(t)
                             /\ u.path = Append(t.path, fb(t, i))
      BY <1>3, <2>1
    <3>2. j \in t.pats /\ fb(t, j) = fb(t, i)
      BY <2>1, <3>1 DEF Bin
    <3>3. Decided(u) = Decided(t) \union fb(t, i)
      BY <3>1, SubBits DEF Decided
    <3>. QED
      BY <3>1, <3>2, <3>3, SubBits
  <2>2. \A u : Decided(u)' = Decided(u)
    BY <1>1, BuildRest
  <2>. QED
    BY <1>1, <2>1, <2>2 DEF IndInv, TreeInv, CallsAgree
<1>7. ASSUME NEW i \in t.pats
      PROVE  \/ /\ Bin(t, i) = {i}
                /\ \E l \in SubLeaves(t) : l.pat = i /\ l.group = t.group
             \/ \E u \in SubCalls(t) : u.pats = Bin(t, i) /\ u.group = t.group
  <2>1. CASE Settled(t, i)
    <3>1. Leaf(t, i) \in SubLeaves(t)
      BY <2>1 DEF SubLeaves
    <3>. QED
      BY <2>1, <3>1 DEF Leaf, Settled
  <2>2. CASE ~ Settled(t, i)
    <3>1. Call(t.group, Bin(t, i), fullmask(t), Append(t.path, fb(t, i))) \in SubCalls(t)
      BY <2>2 DEF SubCalls
    <3>. QED
      BY <3>1 DEF Call
  <2>. QED
    BY <2>1, <2>2
<1>8. Separated'
  <2>1. SUFFICES ASSUME NEW g \in ExcGroups, NEW i \in Children(g), NEW j \in Children(g),
                        i # j, ~ Apart(i, j)
                 PROVE  \E u \in todo' : u.group = g /\ i \in u.pats /\ j \in u.pats
    BY <1>1, BuildRest DEF Separated, Apart
  <2>2. PICK s \in todo : s.group = g /\ i \in s.pats /\ j \in s.pats
    BY <2>1 DEF IndInv, TreeInv, Separated
  <2>3. CASE s # t
    BY <1>1, <2>2, <2>3
  <2>4. CASE s = t
    <3>1. fb(t, i) = fb(t, j)
      BY <2>1, <2>2, <2>4, InnerFixed DEF Apart, fb
    <3>2. i \in Bin(t, i) /\ j \in Bin(t, i)
      BY <2>2, <2>4, <3>1 DEF Bin
    <3>3. PICK u \in SubCalls(t) : u.pats = Bin(t, i) /\ u.group = t.group
      BY <1>7, <2>1, <2>2, <2>4, <3>2
    <3>. QED
      BY <1>1, <2>2, <2>4, <3>2, <3>3
  <2>. QED
    BY <2>3, <2>4
<1>9. Covered'
  <2>1. SUFFICES ASSUME NEW g \in ExcGroups, NEW i \in Children(g)
                 PROVE  \/ \E u \in todo' : u.group = g /\ i \in u.pats
                        \/ \E l \in leaves' : l.group = g /\ l.pat = i
    BY <1>1, BuildRest DEF Covered
  <2>2. CASE \E l \in leaves : l.group = g /\ l.pat = i
    BY <1>1, <2>2
  <2>3. CASE \E s \in todo : s.group = g /\ i \in s.pats
    <3>1. PICK s \in todo : s.group = g /\ i \in s.pats
      BY <2>3
    <3>2. i \in Bin(s, i)
      BY <3>1 DEF Bin
    <3>. QED
      BY <1>1, <1>7, <3>1, <3>2
  <2>. QED
    BY <1>1, <2>2, <2>3 DEF IndInv, TreeInv, Covered
<1>. QED
  BY <1>1, <1>4, <1>5, <1>6, <1>8, <1>9, BuildRest DEF IndInv, TypeOK, TreeInv

(* A call with one member and no bit left.                                 *)
LEMMA SoleInd ==
  ASSUME IndInv, stage = "build", NEW t \in todo, SoleLeaf(t)
  PROVE  IndInv'
<1>1. PICK i \in t.pats : t.pats = {i} /\ leaves' = leaves \union {Leaf(t, i)}
  BY DEF SoleLeaf
<1>2. /\ innermask(t) = {} /\ todo' = todo \ {t}
      /\ UNCHANGED <<parseVars, stage, unset, work>>
  BY DEF SoleLeaf
<1>. USE DEF parseVars
<1>3. pats[i].mask \subseteq fullmask(t)
  <2>1. pats[i].mask \subseteq Bits
    BY SubBits DEF IndInv, TypeOK, NodesOK, Node
  <2>. QED
    BY <1>1, <1>2, <2>1 DEF innermask, fullmask
<1>4. (leaves \subseteq Leaves /\ LeavesExact)'
  <2>. DEFINE new == {Leaf(t, i)}
  <2>1. \A l \in new :
          \E k \in t.pats : l = Leaf(t, k) /\ pats[k].mask \subseteq fullmask(t)
    BY <1>1, <1>3
  <2>2. leaves' = leaves \union new
    BY <1>1
  <2>. HIDE DEF new
  <2>. QED
    BY <1>2, <2>1, <2>2, LeavesInd
<1>5. TreesOK'
  BY <1>2, <1>4 DEF IndInv, TypeOK, TreesOK, Tasks
<1>6. CallsAgree'
  BY <1>2, BuildRest DEF IndInv, TreeInv, CallsAgree
<1>7. Separated'
  BY <1>1, <1>2, BuildRest DEF IndInv, TreeInv, Separated, Apart
<1>8. Covered'
  <2>1. Leaf(t, i).pat = i /\ Leaf(t, i).group = t.group
    BY DEF Leaf
  <2>. QED
    BY <1>1, <1>2, <2>1, BuildRest DEF IndInv, TreeInv, Covered
<1>. QED
  BY <1>2, <1>4, <1>5, <1>6, <1>7, <1>8, BuildRest DEF IndInv, TypeOK, TreeInv

-----------------------------------------------------------------------------
LEMMA StepInd == IndInv /\ [Generate]_vars => IndInv'
<1>. SUFFICES ASSUME IndInv, [Generate]_vars PROVE IndInv'
  OBVIOUS
<1>1. CASE Parse /\ UNCHANGED treeVars
  BY <1>1, ParseInd
<1>2. CASE StartProp
  BY <1>2, StartPropInd
<1>3. CASE PropMasks
  <2>1. ASSUME NEW g \in unset, EmptyGroup(g) PROVE IndInv'
    BY <2>1, StageInd DEF EmptyGroup
  <2>. QED
    BY <1>3, <2>1, CompareInd, SettleInd DEF PropMasks
<1>4. CASE StartBuild
  BY <1>4, StartBuildInd
<1>5. CASE BuildTree
  <2>1. PICK t \in todo : Split(t) \/ SoleLeaf(t) \/ Overlap(t)
    BY <1>5 DEF BuildTree
  <2>2. CASE Overlap(t)
    BY <2>2, StageInd DEF Overlap
  <2>. QED
    BY <1>5, <2>1, <2>2, SplitInd, SoleInd DEF BuildTree
<1>6. CASE FinishBuild
  BY <1>6, StageInd DEF FinishBuild
<1>7. CASE UNCHANGED vars
  BY <1>7, StageInd DEF vars, parseVars, treeVars
<1>. QED
  BY <1>1, <1>2, <1>3, <1>4, <1>5, <1>6, <1>7 DEF Generate

LEMMA AlwaysInd == Spec => []IndInv
BY InitInd, StepInd, PTL DEF Spec

-----------------------------------------------------------------------------
(* Whatever the file, what a line, a format or a pattern demands of a bit  *)
(* is demanded of a fixed bit, groups hold only what comes after them, and *)
(* the calls and leaves of __build_tree are of the file's patterns.        *)
THEOREM TypeCorrect == Spec => []TypeOK
<1>1. IndInv => TypeOK
  BY DEF IndInv
<1>. QED
  BY AlwaysInd, <1>1, PTL

(* Whatever the file, what is written for a pattern from its way through a *)
(* tree, below whatever groups, is the pattern.                            *)
THEOREM LeavesCorrect == Spec => []LeavesExact
<1>1. IndInv => LeavesExact
  BY DEF IndInv, TreeInv
<1>. QED
  BY AlwaysInd, <1>1, PTL

(* Whatever the file, a tree that is built tells all members of its group  *)
(* apart, and has a leaf for each.                                         *)
THEOREM UnambiguousCorrect == Spec => []Unambiguous
<1>1. IndInv => Unambiguous
  <2>1. SUFFICES ASSUME IndInv, stage = "built", NEW g \in ExcGroups
                 PROVE  /\ \A insn \in SUBSET Bits, i, j \in Children(g) :
                             MatchesPat(insn, i) /\ MatchesPat(insn, j) => i = j
                        /\ \A i \in Children(g) : \E l \in leaves : l.group = g /\ l.pat = i
    BY DEF Unambiguous
  <2>2. todo = {}
    BY <2>1 DEF IndInv, Quiet
  <2>3. ASSUME NEW insn \in SUBSET Bits, NEW i \in Children(g), NEW j \in Children(g),
               MatchesPat(insn, i), MatchesPat(insn, j), i # j
        PROVE  FALSE
    <3>1. PICK b \in pats[i].mask \intersect pats[j].mask :
            ~ (b \in pats[i].bits <=> b \in pats[j].bits)
      BY <2>1, <2>2, <2>3 DEF IndInv, TreeInv, Separated, Apart
    <3>. QED
      BY <2>3, <3>1 DEF MatchesPat
  <2>4. \A i \in Children(g) : \E l \in leaves : l.group = g /\ l.pat = i
    BY <2>1, <2>2 DEF IndInv, TreeInv, Covered
  <2>. QED
    BY <2>3, <2>4
<1>. QED
  BY AlwaysInd, <1>1, PTL

-----------------------------------------------------------------------------
(* Groups.                                                                 *)

(* A group that is open holds everything that begins after it, and a group *)
(* that was closed nothing more.                                           *)
Nested ==
  /\ \A k \in DOMAIN nesting : pats[nesting[k]].kind # "pattern"
  /\ \A j, k \in DOMAIN nesting : j < k => nesting[j] < nesting[k]
  /\ \A k \in DOMAIN nesting, p \in DOMAIN pats :
       nesting[k] < p => nesting[k] <= pats[p].parent
  /\ \A p \in DOMAIN pats :
       pats[p].parent # 0 => pats[pats[p].parent].kind # "pattern"
  /\ \A p, q \in DOMAIN pats :
       pats[q].parent < p /\ p < q => pats[q].parent <= pats[p].parent
  /\ \A p \in DOMAIN pats : pats[p].fmt \in Nat

(* A bit that all members fix and that is not in m has both values.        *)
Lost(g, m) ==
  \A b \in CommonMask(g) \ m :
    \E i, j \in Children(g) : b \in pats[i].bits /\ b \notin pats[j].bits

Widest(g) ==
  /\ Children(g) # {}
  /\ pats[g].mask # {} => pats[g].bits \subseteq pats[g].mask
  /\ Lost(g, pats[g].mask)

Widening ==
  /\ work.group # 0 => Children(work.group) # {} /\ Lost(work.group, work.mask)
  /\ stage \in {"masks", "build", "built"} => \A g \in Groups \ unset : Widest(g)
  /\ stage \in {"build", "built"} => unset = {}

GroupInv == IndInv /\ Nested /\ Widening

-----------------------------------------------------------------------------
(* What is in a group, from the top and from the bottom.                   *)
Numbered ==
  /\ IsSeq(pats)
  /\ \A i \in DOMAIN pats : pats[i].parent \in 0..(i - 1)

LEMMA UnderIs ==
  ASSUME Numbered, NEW g
  PROVE  /\ Under(g) \subseteq DOMAIN pats
         /\ \A i \in DOMAIN pats :
              i \in Under(g) <=> pats[i].parent = g \/ pats[i].parent \in Under(g)
<1>1. PICK n \in Nat : n = Len(pats) /\ DOMAIN pats = 1..n
  BY IsSeqLen DEF Numbered
<1>2. PICK par : par = [i \in 1..n |-> pats[i].parent]
  OBVIOUS
<1>3. \A i \in 1..n : par[i] = pats[i].parent /\ par[i] \in 0..(i - 1)
  BY <1>1, <1>2 DEF Numbered
<1>. DEFINE Fits(m, A) == \A i \in 1..m : i \in A <=> par[i] = g \/ par[i] \in A
<1>4. \E A \in SUBSET (1..n) : Fits(n, A)
  <2>. DEFINE S == {m \in 0..n : \E A \in SUBSET (1..m) : Fits(m, A)}
  <2>1. 0 \in S
    <3>1. {} \in SUBSET (1..0) /\ Fits(0, {})
      OBVIOUS
    <3>2. \E A \in SUBSET (1..0) : Fits(0, A)
      BY <3>1
    <3>. QED
      BY <3>2
  <2>2. ASSUME NEW m \in 1..n, m - 1 \in S PROVE m \in S
    <3>1. PICK A \in SUBSET (1..(m - 1)) : Fits(m - 1, A)
      BY <2>2
    <3>. DEFINE B == IF par[m] = g \/ par[m] \in A THEN A \union {m} ELSE A
    <3>2. B \in SUBSET (1..m) /\ m \notin A
      OBVIOUS
    <3>3. ASSUME NEW i \in 1..m PROVE i \in B <=> par[i] = g \/ par[i] \in B
      <4>1. par[i] # m /\ (par[i] \in B <=> par[i] \in A)
        BY <1>3
      <4>2. CASE i = m
        BY <3>2, <4>1, <4>2
      <4>3. CASE i # m
        <5>1. i \in 1..(m - 1)
          BY <4>3
        <5>. QED
          BY <3>1, <4>1, <5>1
      <4>. QED
        BY <4>2, <4>3
    <3>. HIDE DEF B
    <3>4. \E C \in SUBSET (1..m) : Fits(m, C)
      BY <3>2, <3>3
    <3>. QED
      BY <3>4
  <2>. HIDE DEF S
  <2>3. ASSUME NEW k \in 0..n, \A j \in 0..(k - 1) : j \in S PROVE k \in S
    <3>1. CASE k # 0
      <4>1. k \in 1..n /\ k - 1 \in 0..(k - 1)
        BY <3>1
      <4>. QED
        BY <2>2, <2>3, <4>1
    <3>. QED
      BY <2>1, <3>1
  <2>4. n \in S
    BY <2>3, UpTo
  <2>. QED
    BY <2>4 DEF S
<1>5. PICK A \in SUBSET (1..n) : Fits(n, A)
  BY <1>4
<1>. DEFINE u == CHOOSE f :
                   f = [i \in DOMAIN pats |->
                          pats[i].parent = g \/ (pats[i].parent # 0 /\ f[pats[i].parent])]
            f == [i \in 1..n |-> i \in A]
<1>6. u = [i \in DOMAIN pats |->
             pats[i].parent = g \/ (pats[i].parent # 0 /\ u[pats[i].parent])]
  <2>1. \A i \in DOMAIN pats : pats[i].parent # 0 => pats[i].parent \in 1..n
    BY <1>1, <1>3
  <2>2. ASSUME NEW i \in DOMAIN pats
        PROVE  i \in A <=> (pats[i].parent = g \/ (pats[i].parent # 0 /\ f[pats[i].parent]))
    <3>1. pats[i].parent # 0 => (f[pats[i].parent] <=> pats[i].parent \in A)
      BY <2>1, Zenon
    <3>2. i \in A <=> pats[i].parent = g \/ pats[i].parent \in A
      BY <1>1, <1>3, <1>5
    <3>3. pats[i].parent \in A => pats[i].parent # 0
      OBVIOUS
    <3>. QED
      BY <3>1, <3>2, <3>3, Zenon
  <2>3. \A i \in DOMAIN pats :
          f[i] = (pats[i].parent = g \/ (pats[i].parent # 0 /\ f[pats[i].parent]))
    <3>. HIDE DEF f
    <3>1. \A i \in DOMAIN pats : f[i] = (i \in A)
      BY <1>1 DEF f
    <3>. QED
      BY <2>2, <3>1
  <2>4. f = [i \in DOMAIN pats |->
               pats[i].parent = g \/ (pats[i].parent # 0 /\ f[pats[i].parent])]
    BY <1>1, <2>3, Zenon
  <2>5. \E h : h = [i \in DOMAIN pats |->
                      pats[i].parent = g \/ (pats[i].parent # 0 /\ h[pats[i].parent])]
    BY <2>4, Zenon
  <2>. QED
    BY <2>5, Zenon
<1>7. Under(g) = {i \in DOMAIN pats : u[i]}
  BY Zenon DEF Under
<1>. HIDE DEF u
<1>8. \A i \in DOMAIN pats : u[i] <=> pats[i].parent = g \/ (pats[i].parent # 0 /\ u[pats[i].parent])
  BY <1>6, Zenon
<1>9. \A i \in DOMAIN pats : pats[i].parent # 0 <=> pats[i].parent \in DOMAIN pats
  BY <1>1, <1>3
<1>. QED
  BY <1>7, <1>8, <1>9

(* What is in a group is in it or in one of its members.                   *)
LEMMA UnderMembers ==
  ASSUME Numbered, NEW g
  PROVE  \A i \in DOMAIN pats :
           i \in Under(g) <=> i \in Children(g) \/ \E c \in Children(g) : i \in Under(c)
<1>1. PICK n \in Nat : n = Len(pats) /\ DOMAIN pats = 1..n
  BY IsSeqLen DEF Numbered
<1>. DEFINE S == {i \in 0..n : i \in DOMAIN pats =>
                    (i \in Under(g) <=> i \in Children(g) \/ \E c \in Children(g) : i \in Under(c))}
<1>2. ASSUME NEW i \in 0..n, \A j \in 0..(i - 1) : j \in S
      PROVE  i \in S
  <2>1. SUFFICES ASSUME i \in DOMAIN pats
                 PROVE  i \in Under(g) <=> i \in Children(g) \/ \E c \in Children(g) : i \in Under(c)
    OBVIOUS
  <2>2. /\ pats[i].parent \in 0..(i - 1)
        /\ pats[i].parent \in S
    BY <1>2, <2>1 DEF Numbered
  <2>3. \A c : i \in Under(c) <=> pats[i].parent = c \/ pats[i].parent \in Under(c)
    BY <2>1, UnderIs
  <2>4. \A c : pats[i].parent \in Under(c) => pats[i].parent \in DOMAIN pats
    BY UnderIs
  <2>5. i \in Children(g) <=> pats[i].parent = g
    BY <2>1 DEF Children
  <2>6. Children(g) \subseteq DOMAIN pats
    BY DEF Children
  <2>. QED
    BY <2>2, <2>3, <2>4, <2>5, <2>6
<1>. HIDE DEF S
<1>3. 0..n \subseteq S
  BY <1>2, UpTo
<1>. QED
  BY <1>1, <1>3 DEF S

(* The patterns of a member: itself, or those below it.                    *)
Sub(i) == IF pats[i].kind = "pattern" THEN {i} ELSE Below(i)

LEMMA BelowMembers ==
  ASSUME Numbered, Nested, NEW g
  PROVE  Below(g) = UNION {Sub(c) : c \in Children(g)}
<1>1. ASSUME NEW c \in DOMAIN pats, pats[c].kind = "pattern"
      PROVE  Under(c) = {}
  <2>1. Children(c) = {}
    <3>1. c # 0
      BY IsSeqLen DEF Numbered
    <3>. QED
      BY <1>1, <3>1 DEF Nested, Children
  <2>. QED
    BY <2>1, UnderMembers, UnderIs
<1>2. Children(g) \subseteq DOMAIN pats
  BY DEF Children
<1>3. ASSUME NEW i \in Below(g) PROVE i \in UNION {Sub(c) : c \in Children(g)}
  <2>1. i \in DOMAIN pats /\ i \in Under(g) /\ pats[i].kind = "pattern"
    BY <1>3, UnderIs DEF Below
  <2>2. CASE i \in Children(g)
    BY <2>1, <2>2 DEF Sub
  <2>3. ASSUME NEW c \in Children(g), i \in Under(c)
        PROVE  i \in Sub(c)
    BY <1>1, <1>2, <2>1, <2>3 DEF Sub, Below
  <2>. QED
    BY <2>1, <2>2, <2>3, UnderMembers
<1>4. ASSUME NEW c \in Children(g), NEW i \in Sub(c) PROVE i \in Below(g)
  <2>1. CASE pats[c].kind = "pattern"
    BY <1>2, <1>4, <2>1, UnderMembers DEF Sub, Below
  <2>2. CASE pats[c].kind # "pattern"
    <3>1. i \in Under(c) /\ i \in DOMAIN pats /\ pats[i].kind = "pattern"
      BY <1>4, <2>2, UnderIs DEF Sub, Below
    <3>. QED
      BY <3>1, UnderMembers DEF Below
  <2>. QED
    BY <2>1, <2>2
<1>. QED
  BY <1>3, <1>4

(* What is in a group begins after it.                                     *)
LEMMA UnderAfter ==
  ASSUME Numbered, NEW g \in Nat
  PROVE  \A i \in Under(g) : i \in Nat /\ g < i
<1>1. PICK n \in Nat : n = Len(pats) /\ DOMAIN pats = 1..n
  BY IsSeqLen DEF Numbered
<1>. DEFINE S == {i \in 0..n : i \in Under(g) => g < i}
<1>2. ASSUME NEW i \in 0..n, \A j \in 0..(i - 1) : j \in S
      PROVE  i \in S
  <2>1. SUFFICES ASSUME i \in Under(g) PROVE g < i
    OBVIOUS
  <2>2. /\ pats[i].parent \in 0..(i - 1)
        /\ pats[i].parent \in S
    BY <1>2, <2>1, UnderIs DEF Numbered
  <2>3. pats[i].parent = g \/ pats[i].parent \in Under(g)
    BY <2>1, UnderIs
  <2>. QED
    BY <2>2, <2>3
<1>. HIDE DEF S
<1>3. 0..n \subseteq S
  BY <1>2, UpTo
<1>. QED
  BY <1>1, <1>3, UnderIs DEF S

(* The patterns of a member come before the next member.                   *)
LEMMA MemberOrder ==
  ASSUME Numbered, Nested, NEW i \in DOMAIN pats, NEW j \in DOMAIN pats,
         pats[i].parent = pats[j].parent, i < j
  PROVE  \A p \in Sub(i), q \in Sub(j) : p < q
<1>1. PICK n \in Nat : n = Len(pats) /\ DOMAIN pats = 1..n
  BY IsSeqLen DEF Numbered
<1>. DEFINE S == {p \in 0..n : p \in Under(i) => p < j}
<1>2. ASSUME NEW p \in 0..n, \A k \in 0..(p - 1) : k \in S
      PROVE  p \in S
  <2>1. SUFFICES ASSUME p \in Under(i) PROVE p < j
    OBVIOUS
  <2>2. PICK q : q = pats[p].parent
    OBVIOUS
  <2>3. p \in DOMAIN pats /\ q \in 0..(p - 1) /\ q \in S
    BY <1>2, <2>1, <2>2, UnderIs DEF Numbered
  <2>4. q = i \/ q \in Under(i)
    BY <2>1, <2>2, <2>3, UnderIs
  <2>5. q < j /\ i <= q /\ q \in Nat
    BY <1>1, <2>3, <2>4, UnderAfter
  <2>6. pats[j].parent < i /\ pats[j].parent \in Nat
    BY <1>1 DEF Numbered
  <2>7. ~ (j < p)
    <3>1. j < p => pats[p].parent <= pats[j].parent
      BY <2>2, <2>3, <2>5 DEF Nested
    <3>. QED
      BY <1>1, <2>2, <2>5, <2>6, <3>1
  <2>8. p # j
    BY <1>1, <2>2, <2>5, <2>6
  <2>. QED
    BY <1>1, <2>7, <2>8
<1>. HIDE DEF S
<1>3. 0..n \subseteq S
  BY <1>2, UpTo
<1>4. ASSUME NEW p \in Sub(i) PROVE p \in Nat /\ p < j
  BY <1>1, <1>3, <1>4, UnderIs DEF S, Sub, Below
<1>5. ASSUME NEW q \in Sub(j) PROVE q \in Nat /\ j <= q
  BY <1>1, <1>5, UnderIs, UnderAfter DEF Sub, Below
<1>. QED
  BY <1>1, <1>4, <1>5

-----------------------------------------------------------------------------
(* Parsing keeps groups nested: a new node is in the innermost open group. *)
LEMMA NestedAppend ==
  ASSUME IndInv, Nested, NEW p, p.parent = Parent, p.fmt \in Nat, DOMAIN p = NodeFields,
         pats' = Append(pats, p),
         \/ nesting' = nesting
         \/ nesting' = Append(nesting, Len(pats) + 1) /\ p.kind # "pattern"
  PROVE  Nested'
<1>1. PICK n \in Nat : n = Len(pats) /\ DOMAIN pats = 1..n
  BY IsSeqLen DEF IndInv, Shapes
<1>2. /\ DOMAIN pats' = 1..(n + 1) /\ pats'[n + 1] = p
      /\ \A i \in 1..n : pats'[i] = pats[i]
  BY <1>1, AppendSeq DEF IndInv, Shapes
<1>3. nesting \in Seq(1..n) /\ Len(nesting) \in Nat /\ DOMAIN nesting = 1..Len(nesting)
  BY <1>1 DEF IndInv, TypeOK, NodesOK
<1>4. \A k \in DOMAIN nesting : nesting[k] \in 1..n
  BY <1>3
<1>5. \A i \in 1..n : pats[i].parent \in 0..(i - 1)
  BY <1>1 DEF IndInv, TypeOK, NodesOK
<1>0. \A q \in 1..(n + 1) : q = n + 1 \/ q \in 1..n
  OBVIOUS
<1>6. /\ Parent \in 0..n
      /\ Parent # 0 => pats[Parent].kind # "pattern"
      /\ \A k \in DOMAIN nesting : nesting[k] <= Parent
      /\ \A i \in 1..n : Parent < i => Parent <= pats[i].parent
  <2>1. CASE nesting = <<>>
    BY <1>3, <1>5, <2>1 DEF Parent
  <2>2. CASE nesting # <<>>
    <3>1. Len(nesting) \in DOMAIN nesting /\ Parent = nesting[Len(nesting)]
      BY <1>3, <2>2 DEF Parent
    <3>2. \A k \in DOMAIN nesting : k = Len(nesting) \/ k < Len(nesting)
      BY <1>3
    <3>3. Parent \in 1..n /\ pats[Parent].kind # "pattern"
      BY <1>4, <3>1 DEF Nested
    <3>4. \A k \in DOMAIN nesting : nesting[k] <= Parent
      BY <1>3, <1>4, <3>1, <3>2 DEF Nested
    <3>5. \A i \in 1..n : Parent < i => Parent <= pats[i].parent
      BY <1>1, <3>1 DEF Nested
    <3>. QED
      BY <3>3, <3>4, <3>5
  <2>. QED
    BY <2>1, <2>2
<1>7. \A k \in DOMAIN nesting' :
        \/ k \in DOMAIN nesting /\ nesting'[k] = nesting[k]
        \/ k = Len(nesting) + 1 /\ nesting'[k] = n + 1 /\ p.kind # "pattern"
  <2>1. CASE nesting' = nesting
    BY <2>1
  <2>2. CASE nesting' = Append(nesting, n + 1) /\ p.kind # "pattern"
    <3>1. \A k \in 1..(Len(nesting) + 1) : k = Len(nesting) + 1 \/ k \in 1..Len(nesting)
      BY <1>3
    <3>2. /\ DOMAIN nesting' = 1..(Len(nesting) + 1)
          /\ nesting'[Len(nesting) + 1] = n + 1
          /\ \A k \in 1..Len(nesting) : nesting'[k] = nesting[k]
      <4>1. IsSeq(nesting)
        BY <1>3, SeqIsSeq
      <4>. DEFINE longer == Append(nesting, n + 1)
      <4>2. /\ DOMAIN longer = 1..(Len(nesting) + 1)
            /\ longer[Len(nesting) + 1] = n + 1
            /\ \A k \in DOMAIN nesting : longer[k] = nesting[k]
        BY <4>1, AppendSeq
      <4>. HIDE DEF longer
      <4>3. nesting' = longer
        BY <2>2 DEF longer
      <4>. QED
        BY <1>3, <4>2, <4>3
    <3>. QED
      BY <1>3, <2>2, <3>1, <3>2
  <2>. QED
    BY <1>1, <2>1, <2>2
<1>8. \A k \in DOMAIN nesting' : pats'[nesting'[k]].kind # "pattern"
  BY <1>1, <1>2, <1>4, <1>7 DEF Nested
<1>9. \A j, k \in DOMAIN nesting' : j < k => nesting'[j] < nesting'[k]
  <2>1. \A j \in DOMAIN nesting : j <= Len(nesting) /\ nesting[j] < n + 1 /\ j \in Nat
    BY <1>3, <1>4
  <2>. QED
    BY <1>3, <1>7, <2>1 DEF Nested
<1>10. \A k \in DOMAIN nesting', q \in DOMAIN pats' :
         nesting'[k] < q => nesting'[k] <= pats'[q].parent
  <2>1. SUFFICES ASSUME NEW k \in DOMAIN nesting', NEW q \in 1..(n + 1), nesting'[k] < q
                 PROVE  nesting'[k] <= pats'[q].parent
    BY <1>2
  <2>2. k \in DOMAIN nesting /\ nesting'[k] = nesting[k]
    BY <1>7, <2>1
  <2>3. CASE q = n + 1
    BY <1>2, <1>6, <2>2, <2>3
  <2>4. CASE q \in 1..n
    BY <1>1, <1>2, <2>1, <2>2, <2>4 DEF Nested
  <2>. QED
    BY <1>0, <2>3, <2>4
<1>11. \A q \in DOMAIN pats' :
         /\ pats'[q].parent # 0 => pats'[pats'[q].parent].kind # "pattern"
         /\ pats'[q].fmt \in Nat
  <2>1. SUFFICES ASSUME NEW q \in 1..(n + 1)
                 PROVE  /\ pats'[q].parent # 0 => pats'[pats'[q].parent].kind # "pattern"
                        /\ pats'[q].fmt \in Nat
    BY <1>2
  <2>2. CASE q = n + 1
    BY <1>2, <1>6, <2>2
  <2>3. CASE q \in 1..n
    <3>1. pats[q].parent # 0 => pats[q].parent \in 1..n
      BY <1>5, <2>3
    <3>. QED
      BY <1>1, <1>2, <2>3, <3>1 DEF Nested
  <2>. QED
    BY <1>0, <2>2, <2>3
<1>12. \A i, q \in DOMAIN pats' :
         pats'[q].parent < i /\ i < q => pats'[q].parent <= pats'[i].parent
  <2>1. SUFFICES ASSUME NEW i \in 1..(n + 1), NEW q \in 1..(n + 1),
                        pats'[q].parent < i, i < q
                 PROVE  pats'[q].parent <= pats'[i].parent
    BY <1>2
  <2>2. i \in 1..n
    BY <2>1
  <2>3. CASE q = n + 1
    BY <1>2, <1>6, <2>1, <2>2, <2>3
  <2>4. CASE q \in 1..n
    BY <1>1, <1>2, <2>1, <2>2, <2>4 DEF Nested
  <2>. QED
    BY <1>0, <2>3, <2>4
<1>. QED
  BY <1>8, <1>9, <1>10, <1>11, <1>12 DEF Nested

LEMMA NestedClose ==
  ASSUME IndInv, Nested, CloseGroup
  PROVE  Nested'
<1>1. /\ nesting \in Seq(DOMAIN pats) /\ nesting # <<>> /\ pats' = pats
      /\ nesting' = SubSeq(nesting, 1, Len(nesting) - 1)
  BY DEF CloseGroup, Closes, IndInv, TypeOK, NodesOK
<1>2. /\ DOMAIN nesting' \subseteq DOMAIN nesting
      /\ \A k \in DOMAIN nesting' : nesting'[k] = nesting[k]
  BY <1>1
<1>. QED
  BY <1>1, <1>2 DEF Nested

(* The number of the format a pattern gets.                                *)
LEMMA FormatNumber ==
  ASSUME IndInv
  PROVE  format \in Nat
<1>1. Len(formats) \in Nat /\ DOMAIN formats = 1..Len(formats) /\ cur.fmt \in Nat
  BY IsSeqLen DEF IndInv, TypeOK, CurOK, Shapes
<1>2. fmtFits # {} => First(fmtFits) \in Nat
  <2>1. fmtFits \in SUBSET Nat
    BY <1>1 DEF fmtFits, alike
  <2>2. fmtFits # {} => \E k \in fmtFits : \A j \in fmtFits : k <= j
    BY <2>1, NatMin
  <2>. HIDE DEF fmtFits
  <2>3. fmtFits # {} => First(fmtFits) \in fmtFits
    BY <2>2 DEF First
  <2>. QED
    BY <2>1, <2>3
<1>. QED
  BY <1>1, <1>2 DEF format

LEMMA NestedParse ==
  ASSUME IndInv, Nested, Parse
  PROVE  Nested'
<1>1. CASE UNCHANGED <<nesting, pats>>
  BY <1>1 DEF Nested
<1>2. CASE OpenGroup
  <2>1. PICK kind \in {"inc", "exc"} : pats' = Append(pats, Group(kind))
    BY <1>2 DEF OpenGroup
  <2>2. /\ Group(kind).parent = Parent /\ Group(kind).fmt \in Nat
        /\ DOMAIN Group(kind) = NodeFields /\ Group(kind).kind # "pattern"
    BY DEF Group, NodeFields
  <2>. QED
    BY <1>2, <2>1, <2>2, NestedAppend DEF OpenGroup
<1>3. CASE CloseGroup
  BY <1>3, NestedClose
<1>4. CASE ParsePattern
  <2>1. Pattern.parent = Parent /\ Pattern.fmt \in Nat /\ DOMAIN Pattern = NodeFields
    BY FormatNumber DEF Pattern, NodeFields
  <2>. QED
    BY <1>4, <2>1, NestedAppend DEF ParsePattern, fileVars
<1>. QED
  BY <1>1, <1>2, <1>3, <1>4
     DEF Parse, SkipLine, MisplacedComment, ReadLine, EndOfFile, BadGroup, BadDeclaration,
         ParseField, ParseArguments, BadFieldOrArguments, StartGeneric, TakeToken,
         BadToken, ParseFormat, BadLine, Fail, fileVars, declVars, parseVars

-----------------------------------------------------------------------------
(* What the comparisons of prop_masks take away is not common.             *)
LEMMA FirstIn ==
  ASSUME IndInv, NEW S \in SUBSET DOMAIN pats, S # {}
  PROVE  First(S) \in S
<1>1. S \in SUBSET Nat
  BY IsSeqLen DEF IndInv, Shapes
<1>2. \E k \in S : \A j \in S : k <= j
  BY <1>1, NatMin
<1>. QED
  BY <1>2 DEF First

LEMMA WidenLost ==
  ASSUME IndInv, Widening, Widen
  PROVE  Lost(work.group, work'.mask)
<1>1. /\ work' = [work EXCEPT !.mask = @ \ Differ(Leader, First(Others)),
                             !.bits = thisbits(Leader)]
      /\ work.group # 0 /\ Others # {} /\ Children(work.group) # {}
  BY DEF Widen, Widening
<1>2. Leader \in Children(work.group) /\ First(Others) \in Children(work.group)
  <2>1. Children(work.group) \in SUBSET DOMAIN pats /\ Others \in SUBSET DOMAIN pats
    BY DEF Children, Others
  <2>2. First(Others) \in Others /\ Leader \in Children(work.group)
    BY <1>1, <2>1, FirstIn DEF Leader
  <2>. QED
    BY <2>2 DEF Others
<1>3. work'.mask = work.mask \ Differ(Leader, First(Others))
      \/ work'.mask = work.mask
  BY <1>1
<1>4. ASSUME NEW b \in CommonMask(work.group) \ work'.mask
      PROVE  \E i, j \in Children(work.group) : b \in pats[i].bits /\ b \notin pats[j].bits
  <2>1. CASE b \in work.mask
    BY <1>2, <1>3, <1>4, <2>1 DEF Differ
  <2>2. CASE b \notin work.mask
    BY <1>1, <1>4, <2>2 DEF Widening, Lost
  <2>. QED
    BY <2>1, <2>2
<1>. QED
  BY <1>4 DEF Lost

LEMMA SettleWidest ==
  ASSUME IndInv, Widening, stage = "masks", Settle
  PROVE  Widening'
<1>0. PICK g : g = work.group
  OBVIOUS
<1>. DEFINE bs == IF work.mask = {} THEN work.bits ELSE thisbits(Leader)
<1>1. /\ g # 0 /\ g \in unset /\ g \in Groups /\ g \in DOMAIN pats
      /\ Children(g) \intersect unset = {} /\ Children(g) # {} /\ Lost(g, work.mask)
  BY <1>0 DEF Settle, IndInv, WorkOK, Groups, Widening
<1>2. /\ pats' = [pats EXCEPT ![g].mask = work.mask, ![g].bits = bs]
      /\ unset' = unset \ {g} /\ work' = Idle /\ stage' = stage
  BY <1>0 DEF Settle
<1>3. DOMAIN pats[g] = NodeFields
  BY <1>1 DEF IndInv, Shapes
<1>4. /\ DOMAIN pats' = DOMAIN pats
      /\ \A i \in DOMAIN pats : i # g => pats'[i] = pats[i]
      /\ pats'[g].mask = work.mask /\ pats'[g].bits = bs
      /\ \A i \in DOMAIN pats : /\ pats'[i].kind = pats[i].kind
                              /\ pats'[i].parent = pats[i].parent
  BY <1>1, <1>2, <1>3 DEF NodeFields
<1>5. Groups' = Groups /\ \A h : Children(h)' = Children(h)
  BY <1>4 DEF Groups, Children
<1>6. ASSUME NEW h, g \notin Children(h)
      PROVE  /\ CommonMask(h)' = CommonMask(h)
             /\ \A m : Lost(h, m)' = Lost(h, m)
  <2>1. \A i \in Children(h) : pats'[i] = pats[i]
    BY <1>4, <1>6 DEF Children
  <2>. QED
    BY <1>5, <2>1 DEF CommonMask, Lost
<1>7. g \notin Children(g)
  BY <1>1
<1>8. Widest(g)'
  <2>1. Lost(g, pats[g].mask)'
    BY <1>1, <1>4, <1>6, <1>7
  <2>2. work.mask # {} => bs \subseteq work.mask
    BY DEF thisbits
  <2>. QED
    BY <1>1, <1>4, <1>5, <2>1, <2>2 DEF Widest
<1>9. ASSUME NEW h \in Groups, h \notin unset
      PROVE  Widest(h)'
  <2>1. Widest(h) /\ Children(h) \intersect unset = {}
    BY <1>9 DEF Widening, IndInv, GroupsOK
  <2>2. g \notin Children(h) /\ h # g /\ h \in DOMAIN pats
    BY <1>1, <1>9, <2>1 DEF Groups
  <2>3. pats'[h] = pats[h]
    BY <1>4, <2>2
  <2>4. Lost(h, pats[h].mask)' = Lost(h, pats[h].mask)
    BY <1>6, <2>2, <2>3
  <2>. QED
    BY <1>5, <2>1, <2>3, <2>4 DEF Widest
<1>. QED
  BY <1>2, <1>5, <1>8, <1>9 DEF Widening, Idle

(* Steps that leave the patterns alone.                                    *)
LEMMA WideningRest ==
  ASSUME Widening, UNCHANGED <<nesting, pats, unset, work>>,
         \/ stage' \in {stage, "error"}
         \/ stage = "masks" /\ stage' = "build" /\ unset = {}
         \/ stage = "build" /\ stage' = "built"
  PROVE  Widening'
BY DEF Widening, Widest, Lost, CommonMask, Children, Groups

LEMMA NestedRest ==
  ASSUME Nested, nesting' = nesting, DOMAIN pats' = DOMAIN pats,
         \A i \in DOMAIN pats : /\ pats'[i].kind = pats[i].kind
                               /\ pats'[i].parent = pats[i].parent
                               /\ pats'[i].fmt = pats[i].fmt,
         \A k \in DOMAIN nesting : nesting[k] \in DOMAIN pats,
         \A i \in DOMAIN pats : pats[i].parent # 0 => pats[i].parent \in DOMAIN pats
  PROVE  Nested'
BY DEF Nested

LEMMA GroupInit == Init /\ TreeInit => GroupInv
<1>. SUFFICES ASSUME Init, TreeInit PROVE GroupInv
  OBVIOUS
<1>1. IndInv
  BY InitInd
<1>2. Nested
  BY DEF Init, Nested
<1>3. Widening
  BY DEF Init, TreeInit, Widening, Idle
<1>. QED
  BY <1>1, <1>2, <1>3 DEF GroupInv

LEMMA GroupStep == GroupInv /\ [Generate]_vars => GroupInv'
<1>. SUFFICES ASSUME GroupInv, [Generate]_vars PROVE GroupInv'
  OBVIOUS
<1>0. IndInv /\ Nested /\ Widening
  BY DEF GroupInv
<1>1. IndInv'
  BY <1>0, StepInd
<1>2. CASE Parse /\ UNCHANGED treeVars
  <2>1. Nested'
    BY <1>0, <1>2, NestedParse
  <2>2. unset' = {} /\ work' = Idle
    <3>1. Parsing
      BY <1>2 DEF Parse, Parsing, SkipLine, MisplacedComment, ReadLine, EndOfFile, OpenGroup,
             CloseGroup, BadGroup, BadDeclaration, ParseField, ParseArguments,
             BadFieldOrArguments, StartGeneric, TakeToken, BadToken, ParseFormat,
             ParsePattern, BadLine, Starts, Declares, Ends, Fail
    <3>. QED
      BY <1>0, <1>2, <3>1 DEF IndInv, Quiet, treeVars
  <2>3. stage' \notin {"masks", "build", "built"}
    BY <1>2 DEF Parse, Parsing, SkipLine, MisplacedComment, ReadLine, EndOfFile, OpenGroup,
           CloseGroup, BadGroup, BadDeclaration, ParseField, ParseArguments,
           BadFieldOrArguments, StartGeneric, TakeToken, BadToken, ParseFormat,
           ParsePattern, BadLine, Starts, Declares, Ends, Fail
  <2>4. Widening'
    BY <2>2, <2>3 DEF Widening, Idle
  <2>. QED
    BY <1>1, <2>1, <2>4 DEF GroupInv
<1>3. ASSUME UNCHANGED <<nesting, pats>>, Widening' PROVE GroupInv'
  BY <1>0, <1>1, <1>3 DEF GroupInv, Nested
<1>4. CASE StartProp
  <2>1. UNCHANGED <<nesting, pats>> /\ unset' = Groups /\ work' = work /\ stage' = "masks"
    BY <1>4 DEF StartProp, parseVars
  <2>2. Groups' = Groups /\ work.group = 0
    BY <1>0, <1>4, <2>1 DEF StartProp, IndInv, Quiet, Parsing, Idle, Groups
  <2>. QED
    BY <1>3, <2>1, <2>2 DEF Widening
<1>5. CASE \E g \in unset : EnterGroup(g)
  <2>1. PICK g \in unset : EnterGroup(g)
    BY <1>5
  <2>2. /\ UNCHANGED <<nesting, pats, stage, unset>> /\ Children(g) # {}
        /\ work' = [group |-> g, mask |-> CommonMask(g), bits |-> {}]
    BY <2>1 DEF EnterGroup, parseVars
  <2>3. Lost(g, CommonMask(g))
    BY DEF Lost
  <2>4. Widening'
    BY <1>0, <2>2, <2>3 DEF Widening, Widest, Lost, CommonMask, Children, Groups
  <2>. QED
    BY <1>3, <2>2, <2>4
<1>6. CASE Widen
  <2>1. UNCHANGED <<nesting, pats, stage, unset>> /\ work'.group = work.group
    BY <1>6 DEF Widen, parseVars
  <2>2. Lost(work.group, work'.mask)
    BY <1>0, <1>6, WidenLost
  <2>3. Widening'
    BY <1>0, <2>1, <2>2 DEF Widening, Widest, Lost, CommonMask, Children, Groups
  <2>. QED
    BY <1>3, <2>1, <2>3
<1>7. CASE stage = "masks" /\ Settle
  <2>1. Widening'
    BY <1>0, <1>7, SettleWidest
  <2>2. /\ nesting' = nesting
        /\ DOMAIN pats' = DOMAIN pats
        /\ \A i \in DOMAIN pats : /\ pats'[i].kind = pats[i].kind
                                /\ pats'[i].parent = pats[i].parent
                                /\ pats'[i].fmt = pats[i].fmt
    <3>1. \A i \in DOMAIN pats : DOMAIN pats[i] = NodeFields
      BY <1>0 DEF IndInv, Shapes
    <3>. QED
      BY <1>7, <3>1 DEF Settle, fileVars, NodeFields
  <2>3. /\ \A k \in DOMAIN nesting : nesting[k] \in DOMAIN pats
        /\ \A i \in DOMAIN pats : pats[i].parent # 0 => pats[i].parent \in DOMAIN pats
    <3>1. nesting \in Seq(DOMAIN pats)
      BY <1>0 DEF IndInv, TypeOK, NodesOK
    <3>2. \A k \in DOMAIN nesting : nesting[k] \in DOMAIN pats
      BY <3>1
    <3>3. DOMAIN pats = 1..Len(pats) /\ Len(pats) \in Nat
      BY <1>0, IsSeqLen DEF IndInv, Shapes
    <3>4. \A i \in DOMAIN pats : pats[i].parent \in 0..(i - 1)
      BY <1>0 DEF IndInv, TypeOK, NodesOK
    <3>. QED
      BY <3>2, <3>3, <3>4
  <2>4. Nested'
    BY <1>0, <2>2, <2>3, NestedRest
  <2>. QED
    BY <1>1, <2>1, <2>4 DEF GroupInv
<1>8. ASSUME UNCHANGED <<nesting, pats, unset, work>>,
             \/ stage' \in {stage, "error"}
             \/ stage = "masks" /\ stage' = "build" /\ unset = {}
             \/ stage = "build" /\ stage' = "built"
      PROVE  GroupInv'
  BY <1>0, <1>3, <1>8, WideningRest
<1>9. CASE PropMasks
  BY <1>5, <1>6, <1>7, <1>8, <1>9 DEF PropMasks, EmptyGroup, parseVars, treeVars
<1>10. CASE StartBuild
  BY <1>8, <1>10 DEF StartBuild, parseVars
<1>11. CASE BuildTree
  BY <1>8, <1>11 DEF BuildTree, Split, SoleLeaf, Overlap, parseVars, treeVars
<1>12. CASE FinishBuild
  BY <1>8, <1>12 DEF FinishBuild, parseVars, treeVars
<1>13. CASE UNCHANGED vars
  BY <1>8, <1>13 DEF vars
<1>. QED
  BY <1>2, <1>4, <1>9, <1>10, <1>11, <1>12, <1>13 DEF Generate

-----------------------------------------------------------------------------
(* A bit that every pattern below a group fixes, and alike.                *)
Alike(g, b) ==
  /\ \A i \in Below(g) : b \in pats[i].mask
  /\ \A i, j \in Below(g) : (b \in pats[i].bits) = (b \in pats[j].bits)

Exact(g) ==
  /\ Below(g) # {}
  /\ pats[g].mask = {b \in Bits : Alike(g, b)}
  /\ \A i \in Below(g) :
       pats[i].bits \intersect pats[g].mask = pats[g].bits \intersect pats[g].mask

(* One level: from the groups in a group to the group.                     *)
LEMMA ExactUp ==
  ASSUME GroupInv, stage \in {"build", "built"}, NEW g \in Groups,
         \A c \in Children(g) \intersect Groups : Exact(c)
  PROVE  Exact(g)
<1>0. /\ Agree(g, pats[g].mask, pats[g].bits) /\ Widest(g)
      /\ g \in DOMAIN pats /\ pats[g].mask \subseteq Bits
      /\ \A i \in DOMAIN pats : pats[i].mask \subseteq Bits
      /\ Numbered /\ Nested
  BY DEF GroupInv, IndInv, GroupsOK, Widening, Groups, TypeOK, NodesOK, Node, Shapes, Numbered
<1>1. Below(g) = UNION {Sub(c) : c \in Children(g)}
  BY <1>0, BelowMembers
<1>2. ASSUME NEW c \in Children(g)
      PROVE  /\ Sub(c) # {}
             /\ \A b \in pats[c].mask, i \in Sub(c) :
                  b \in pats[i].mask /\ (b \in pats[i].bits <=> b \in pats[c].bits)
             /\ \A b \in Bits \ pats[c].mask :
                  \/ \E i \in Sub(c) : b \notin pats[i].mask
                  \/ \E i, j \in Sub(c) : b \in pats[i].bits /\ b \notin pats[j].bits
  <2>1. CASE pats[c].kind = "pattern"
    BY <2>1 DEF Sub
  <2>2. CASE pats[c].kind # "pattern"
    <3>1. Exact(c) /\ Sub(c) = Below(c)
      BY <2>2 DEF Sub, Groups, Children
    <3>2. ASSUME NEW b \in pats[c].mask, NEW i \in Below(c)
          PROVE  b \in pats[i].mask /\ (b \in pats[i].bits <=> b \in pats[c].bits)
      BY <3>1 DEF Exact, Alike
    <3>3. ASSUME NEW b \in Bits \ pats[c].mask,
                 ~ \E i \in Below(c) : b \notin pats[i].mask
          PROVE  \E i, j \in Below(c) : b \in pats[i].bits /\ b \notin pats[j].bits
      <4>1. ~ Alike(c, b)
        BY <3>1, <3>3 DEF Exact
      <4>2. PICK i \in Below(c), j \in Below(c) : ~ ((b \in pats[i].bits) = (b \in pats[j].bits))
        BY <3>3, <4>1 DEF Alike
      <4>. QED
        BY <4>2
    <3>. QED
      BY <3>1, <3>2, <3>3 DEF Exact
  <2>. QED
    BY <2>1, <2>2
<1>3. ASSUME NEW b \in pats[g].mask, NEW i \in Below(g)
      PROVE  b \in pats[i].mask /\ (b \in pats[i].bits <=> b \in pats[g].bits)
  <2>1. PICK c \in Children(g) : i \in Sub(c)
    BY <1>1
  <2>2. b \in pats[c].mask /\ (b \in pats[c].bits <=> b \in pats[g].bits)
    BY <1>0 DEF Agree
  <2>. QED
    BY <1>2, <2>1, <2>2
<1>4. ASSUME NEW b \in Bits, Alike(g, b)
      PROVE  b \in pats[g].mask
  <2>1. ASSUME NEW c \in Children(g) PROVE b \in pats[c].mask
    <3>1. Sub(c) \subseteq Below(g)
      BY <1>1
    <3>. QED
      BY <1>2, <1>4, <3>1 DEF Alike
  <2>2. b \in CommonMask(g)
    BY <2>1 DEF CommonMask
  <2>3. ASSUME NEW c \in Children(g), NEW d \in Children(g),
               b \in pats[c].bits, b \notin pats[d].bits
        PROVE  FALSE
    <3>1. PICK i \in Sub(c), j \in Sub(d) : TRUE
      BY <1>2
    <3>2. b \in pats[i].bits /\ b \notin pats[j].bits
      BY <1>2, <2>1, <2>3
    <3>3. i \in Below(g) /\ j \in Below(g)
      BY <1>1
    <3>. QED
      BY <1>4, <3>2, <3>3 DEF Alike
  <2>. QED
    BY <1>0, <2>2, <2>3 DEF Widest, Lost
<1>5. Below(g) # {}
  BY <1>0, <1>1, <1>2 DEF Widest
<1>6. ASSUME NEW b \in pats[g].mask PROVE b \in Bits /\ Alike(g, b)
  BY <1>0, <1>3 DEF Alike
<1>7. \A i \in Below(g) :
        pats[i].bits \intersect pats[g].mask = pats[g].bits \intersect pats[g].mask
  BY <1>3
<1>8. pats[g].mask = {b \in Bits : Alike(g, b)}
  BY <1>4, <1>6
<1>. QED
  BY <1>5, <1>7, <1>8 DEF Exact

LEMMA AllExact ==
  ASSUME GroupInv, stage \in {"build", "built"}
  PROVE  \A g \in Groups : Exact(g)
<1>. DEFINE Wrong == {g \in Groups : ~ Exact(g)}
<1>1. SUFFICES ASSUME Wrong # {} PROVE FALSE
  OBVIOUS
<1>2. PICK n \in Nat : DOMAIN pats = 1..n
  BY IsSeqLen DEF GroupInv, IndInv, Shapes
<1>3. Wrong \in SUBSET (1..n)
  BY <1>2 DEF Groups
<1>4. PICK g \in Wrong : \A h \in Wrong : h <= g
  <2>. HIDE DEF Wrong
  <2>. QED
    BY <1>1, <1>3, NatMax
<1>5. \A c \in Children(g) \intersect Groups : Exact(c)
  <2>1. \A c \in Children(g) : g < c /\ c \in 1..n /\ g \in 1..n
    BY <1>2, <1>3, MembersAreNodes DEF GroupInv
  <2>. QED
    BY <1>4, <2>1
<1>. QED
  BY <1>4, <1>5, ExactUp

(* Whatever the file and however deep its groups are nested, prop_masks    *)
(* gives a group exactly the bits that all patterns below it fix alike,    *)
(* with their value (GroupsAgree): one level at a time, since the bits of  *)
(* a group in a group say all there is to know of its patterns.            *)
THEOREM GroupsCorrect == Spec => []GroupsAgree
<1>1. GroupInv => GroupsAgree
  BY AllExact DEF GroupsAgree, Exact, Alike
<1>. QED
  BY GroupInit, GroupStep, <1>1, PTL DEF Spec

-----------------------------------------------------------------------------
(* Fields.                                                                 *)
Parts == [pos : Int, len : Nat, sign : BOOLEAN]
PartsApart(f) ==
  \A j, k \in DOMAIN f.subs :
    j # k => PartMask(f.subs[j]) \intersect PartMask(f.subs[k]) = {}
FieldOK(f) == f.subs \in Seq(Parts) /\ (f.func # "" => f.val = 0) /\ PartsApart(f)

(* The fields of a line or a format: each name once.                       *)
FldsOK(s) ==
  /\ IsSeq(s)
  /\ \A j, k \in DOMAIN s : s[j].name = s[k].name => j = k
  /\ \A k \in DOMAIN s : FieldOK(s[k].f)

FieldInv ==
  /\ FldsOK(cur.flds) /\ cur.width \in Int
  /\ \A k \in DOMAIN formats : FldsOK(formats[k].flds)
  /\ IsSeq(fields) /\ \A k \in DOMAIN fields : FieldOK(fields[k].f)

-----------------------------------------------------------------------------
(* The place of a part in the value is a number, for a field of any parts. *)
OffsetIs(f, k) ==
  /\ Offset(f, k) \in Nat
  /\ Offset(f, k) = IF k = Len(f.subs) THEN 0 ELSE Offset(f, k + 1) + f.subs[k + 1].len

LEMMA Offsets ==
  ASSUME NEW f, f.subs \in Seq(Parts), NEW k \in DOMAIN f.subs
  PROVE  OffsetIs(f, k)
<1>1. PICK n \in Nat : n = Len(f.subs) /\ DOMAIN f.subs = 1..n
  OBVIOUS
<1>2. ASSUME NEW i \in 1..n PROVE f.subs[i].len \in Nat
  <2>1. f.subs[i] \in Parts
    BY <1>1
  <2>. QED
    BY <2>1 DEF Parts
<1>. DEFINE step == [p \in (1..(n - 1)) \X Nat |-> p[2] + f.subs[n - p[1] + 1].len]
<1>3. n - 1 \in Nat /\ k \in 1..n
  BY <1>1
<1>4. step \in Steps(n - 1, Nat)
  <2>1. \A p \in (1..(n - 1)) \X Nat : p[2] + f.subs[n - p[1] + 1].len \in Nat
    <3>1. \A i \in 1..(n - 1) : n - i + 1 \in 1..n
      BY <1>3
    <3>. QED
      BY <1>2, <3>1
  <2>. QED
    BY <2>1 DEF Steps
<1>5. PICK h \in [0..(n - 1) -> Nat] : Follows(h, n - 1, 0, step)
  BY <1>3, <1>4, Recursion
<1>6. /\ h[0] = 0
      /\ \A i \in 1..(n - 1) : h[i] = h[i - 1] + f.subs[n - i + 1].len
  <2>1. ASSUME NEW i \in 1..(n - 1) PROVE h[i] = h[i - 1] + f.subs[n - i + 1].len
    <3>0. i - 1 \in 0..(n - 1)
      BY <1>3
    <3>1. h[i] = step[<<i, h[i - 1]>>]
      <4>. HIDE DEF step
      <4>. QED
        BY <1>5 DEF Follows
    <3>2. <<i, h[i - 1]>> \in (1..(n - 1)) \X Nat
      BY <3>0
    <3>. QED
      BY <3>1, <3>2
  <2>. QED
    BY <1>5, <2>1 DEF Follows
<1>. DEFINE g == [i \in 1..n |-> h[n - i]]
            Body(a) == [i \in 1..n |-> IF i = n THEN 0 ELSE a[i + 1] + f.subs[i + 1].len]
<1>7. g = Body(g)
  <2>1. ASSUME NEW i \in 1..n
        PROVE  g[i] = IF i = n THEN 0 ELSE g[i + 1] + f.subs[i + 1].len
    <3>1. CASE i = n
      BY <1>3, <1>6, <3>1
    <3>2. CASE i # n
      <4>1. /\ n - i \in 1..(n - 1) /\ i + 1 \in 1..n /\ n - (n - i) + 1 = i + 1
            /\ (n - i) - 1 = n - (i + 1)
        BY <1>3, <3>2
      <4>2. h[n - i] = h[(n - i) - 1] + f.subs[n - (n - i) + 1].len
        BY <1>6, <4>1
      <4>3. g[i] = h[n - i] /\ g[i + 1] = h[n - (i + 1)]
        BY <4>1
      <4>. QED
        BY <3>2, <4>1, <4>2, <4>3
    <3>. QED
      BY <3>1, <3>2
  <2>. QED
    BY <2>1
<1>. DEFINE after == CHOOSE a : a = Body(a)
<1>8. after = Body(after)
  <2>. HIDE DEF Body
  <2>. QED
    BY <1>7, Zenon
<1>9. Offset(f, k) = after[k]
  <2>1. Offset(f, k) = (CHOOSE a : a = [i \in 1..Len(f.subs) |->
                          IF i = Len(f.subs) THEN 0 ELSE a[i + 1] + f.subs[i + 1].len])[k]
    BY Zenon DEF Offset
  <2>. QED
    BY <1>1, <2>1, Zenon
<1>10. \A i \in 1..n : Offset(f, i) = after[i]
  <2>. SUFFICES ASSUME NEW i \in 1..n PROVE Offset(f, i) = after[i]
    OBVIOUS
  <2>1. Offset(f, i) = (CHOOSE a : a = [j \in 1..Len(f.subs) |->
                          IF j = Len(f.subs) THEN 0 ELSE a[j + 1] + f.subs[j + 1].len])[i]
    BY Zenon DEF Offset
  <2>. QED
    BY <1>1, <2>1, Zenon
<1>. HIDE DEF after
<1>11. \A i \in 1..n : after[i] = IF i = n THEN 0 ELSE after[i + 1] + f.subs[i + 1].len
  BY <1>8
<1>. DEFINE S == {i \in 0..(n - 1) : after[n - i] \in Nat}
<1>12. ASSUME NEW i \in 0..(n - 1), \A j \in 0..(i - 1) : j \in S PROVE i \in S
  <2>1. CASE i = 0
    BY <1>3, <1>11, <2>1
  <2>2. CASE i # 0
    <3>1. /\ n - i \in 1..n /\ n - i # n /\ (n - i) + 1 = n - (i - 1)
          /\ (n - i) + 1 \in 1..n /\ i - 1 \in 0..(i - 1)
      BY <1>3, <2>2
    <3>2. after[n - i] = after[(n - i) + 1] + f.subs[(n - i) + 1].len
      BY <1>11, <3>1
    <3>3. after[n - (i - 1)] \in Nat /\ f.subs[(n - i) + 1].len \in Nat
      BY <1>2, <1>12, <3>1
    <3>. QED
      BY <3>1, <3>2, <3>3
  <2>. QED
    BY <2>1, <2>2
<1>. HIDE DEF S
<1>13. 0..(n - 1) \subseteq S
  BY <1>3, <1>12, UpTo
<1>14. after[k] \in Nat
  <2>1. n - k \in S /\ n - (n - k) = k
    BY <1>3, <1>13
  <2>. QED
    BY <2>1 DEF S
<1>. QED
  <2>1. CASE k = n
    BY <1>1, <1>3, <1>10, <1>11, <1>14, <2>1 DEF OffsetIs
  <2>2. CASE k # n
    <3>1. k + 1 \in 1..n
      BY <1>3, <2>2
    <3>. QED
      BY <1>1, <1>3, <1>10, <1>11, <1>14, <2>2, <3>1 DEF OffsetIs
  <2>. QED
    BY <2>1, <2>2

(* Parts with the same bits have the same length, and if they have bits at *)
(* all the same place.                                                     *)
LEMMA SameBits ==
  ASSUME NEW x \in Parts, NEW y \in Parts, SamePart(x, y)
  PROVE  x.sign = y.sign /\ x.len = y.len /\ (x.len > 0 => x.pos = y.pos)
<1>1. /\ x.pos \in Int /\ y.pos \in Int /\ x.len \in Nat /\ y.len \in Nat
      /\ x.sign = y.sign
  BY DEF Parts, SamePart
<1>2. PICK p \in Int, q \in Int, l \in Nat, m \in Nat :
        p = x.pos /\ q = y.pos /\ l = x.len /\ m = y.len
  BY <1>1
<1>3. \A b : b \in p..(p + l - 1) <=> b \in q..(q + m - 1)
  BY <1>2 DEF SamePart, PartMask
<1>4. l > 0 => p \in q..(q + m - 1) /\ p + l - 1 \in q..(q + m - 1)
  BY <1>3
<1>5. m > 0 => q \in p..(p + l - 1) /\ q + m - 1 \in p..(p + l - 1)
  BY <1>3
<1>6. l = m /\ (l > 0 => p = q)
  <2>1. CASE l > 0 /\ m > 0
    BY <1>4, <1>5, <2>1
  <2>2. CASE l = 0 /\ m > 0
    BY <1>5, <2>2
  <2>3. CASE l > 0 /\ m = 0
    BY <1>4, <2>3
  <2>. QED
    BY <2>1, <2>2, <2>3
<1>. QED
  BY <1>1, <1>2, <1>6

LEMMA SameOffsets ==
  ASSUME NEW a, NEW b, a.subs \in Seq(Parts), b.subs \in Seq(Parts),
         Len(a.subs) = Len(b.subs),
         \A k \in DOMAIN a.subs : a.subs[k].len = b.subs[k].len,
         NEW k \in DOMAIN a.subs
  PROVE  Offset(a, k) = Offset(b, k) /\ Offset(a, k) \in Nat
<1>1. PICK n \in Nat : n = Len(a.subs) /\ n = Len(b.subs) /\ DOMAIN a.subs = 1..n /\ DOMAIN b.subs = 1..n
  OBVIOUS
<1>2. \A i \in 1..n : OffsetIs(a, i) /\ OffsetIs(b, i)
  BY <1>1, Offsets
<1>. DEFINE S == {i \in 0..(n - 1) : Offset(a, n - i) = Offset(b, n - i)}
<1>3. ASSUME NEW i \in 0..(n - 1), \A j \in 0..(i - 1) : j \in S PROVE i \in S
  <2>1. n - i \in 1..n
    OBVIOUS
  <2>2. CASE i = 0
    BY <1>1, <1>2, <2>1, <2>2 DEF OffsetIs
  <2>3. CASE i # 0
    <3>1. /\ n - i # n /\ (n - i) + 1 = n - (i - 1) /\ (n - i) + 1 \in 1..n
          /\ i - 1 \in 0..(i - 1)
      BY <2>3
    <3>2. Offset(a, n - (i - 1)) = Offset(b, n - (i - 1))
      BY <1>3, <3>1
    <3>3. Offset(a, n - i) = Offset(a, n - (i - 1)) + a.subs[n - (i - 1)].len
      BY <1>1, <1>2, <2>1, <3>1 DEF OffsetIs
    <3>4. Offset(b, n - i) = Offset(b, n - (i - 1)) + b.subs[n - (i - 1)].len
      BY <1>1, <1>2, <2>1, <3>1 DEF OffsetIs
    <3>5. a.subs[n - (i - 1)].len = b.subs[n - (i - 1)].len
      BY <1>1, <3>1
    <3>. QED
      BY <3>2, <3>3, <3>4, <3>5
  <2>. QED
    BY <2>2, <2>3
<1>. HIDE DEF S
<1>4. n - 1 \in Nat /\ k \in 1..n
  BY <1>1
<1>5. 0..(n - 1) \subseteq S
  BY <1>3, <1>4, UpTo
<1>6. n - k \in S /\ n - (n - k) = k
  BY <1>4, <1>5
<1>. QED
  BY <1>2, <1>4, <1>6 DEF S, OffsetIs

(* Fields the generator takes for the same read the same of every          *)
(* instruction, but for a plain one taken for a compound.                  *)
LEMMA SameValue ==
  ASSUME NEW a, NEW b, FieldOK(a), FieldOK(b), SameField(a, b), NEW insn,
         ~ PlainToCompound(a, b)
  PROVE  a.func = b.func /\ str_extract(a, insn) = str_extract(b, insn)
<1>1. /\ a.subs \in Seq(Parts) /\ b.subs \in Seq(Parts) /\ a.func = b.func
      /\ Len(a.subs) = Len(b.subs)
      /\ \A k \in DOMAIN a.subs : SamePart(a.subs[k], b.subs[k])
  BY DEF FieldOK, SameField
<1>2. CASE a.subs = <<>>
  <2>1. b.subs = <<>>
    BY <1>1, <1>2
  <2>2. a.val = 0 /\ b.val = 0
    BY <1>2, <2>1 DEF FieldOK, SameField, IsConst
  <2>. QED
    BY <1>1, <1>2, <2>1, <2>2 DEF str_extract
<1>3. CASE a.subs # <<>>
  <2>1. PICK n \in Nat : /\ n = Len(a.subs) /\ n = Len(b.subs) /\ n > 0
                         /\ DOMAIN a.subs = 1..n /\ DOMAIN b.subs = 1..n
    BY <1>1, <1>3
  <2>2. ASSUME NEW k \in 1..n
        PROVE  /\ a.subs[k] \in Parts /\ b.subs[k] \in Parts
               /\ a.subs[k].len \in Nat /\ a.subs[k].len = b.subs[k].len
               /\ a.subs[k].sign = b.subs[k].sign
               /\ a.subs[k].len > 0 => a.subs[k].pos = b.subs[k].pos
    <3>1. a.subs[k] \in Parts /\ b.subs[k] \in Parts
      BY <1>1, <2>1
    <3>. QED
      BY <1>1, <2>1, <3>1, SameBits DEF Parts
  <2>3. \A k \in 1..n : Offset(a, k) = Offset(b, k) /\ Offset(a, k) \in Nat
    BY <1>1, <2>1, <2>2, SameOffsets
  <2>4. 1 \in 1..n
    BY <2>1
  <2>5. FieldLen(a) = FieldLen(b) /\ FieldSign(a) = FieldSign(b)
    BY <2>2, <2>3, <2>4 DEF FieldLen, FieldSign
  <2>6. \A m \in Int, k \in 1..n :
          (/\ m \in Offset(a, k)..(Offset(a, k) + a.subs[k].len - 1)
           /\ (m - Offset(a, k)) + a.subs[k].pos \in insn)
          <=> (/\ m \in Offset(b, k)..(Offset(b, k) + b.subs[k].len - 1)
               /\ (m - Offset(b, k)) + b.subs[k].pos \in insn)
    <3>. SUFFICES ASSUME NEW m \in Int, NEW k \in 1..n
                  PROVE  (/\ m \in Offset(a, k)..(Offset(a, k) + a.subs[k].len - 1)
                          /\ (m - Offset(a, k)) + a.subs[k].pos \in insn)
                         <=> (/\ m \in Offset(b, k)..(Offset(b, k) + b.subs[k].len - 1)
                              /\ (m - Offset(b, k)) + b.subs[k].pos \in insn)
      OBVIOUS
    <3>1. CASE a.subs[k].len = 0
      BY <2>2, <2>3, <3>1
    <3>2. CASE a.subs[k].len > 0
      BY <2>2, <2>3, <3>2
    <3>. QED
      BY <2>2, <3>1, <3>2
  <2>7. ValueBits(a, insn) = ValueBits(b, insn)
    BY <2>1, <2>5, <2>6 DEF ValueBits
  <2>. QED
    BY <1>1, <1>3, <2>1, <2>5, <2>7 DEF str_extract
<1>. QED
  BY <1>2, <1>3

-----------------------------------------------------------------------------
(* What is looked up by its name.                                          *)
LEMMA FirstAt ==
  ASSUME NEW s, FldsOK(s), NEW k \in DOMAIN s
  PROVE  At(s, s[k].name) # {} /\ First(At(s, s[k].name)) = k
<1>1. k \in Nat
  BY IsSeqLen DEF FldsOK
<1>2. At(s, s[k].name) = {k}
  BY DEF FldsOK, At
<1>. QED
  BY <1>1, <1>2 DEF First

LEMMA FirstFits == ASSUME IndInv, fmtFits # {} PROVE First(fmtFits) \in fmtFits
<1>1. fmtFits \in SUBSET Nat
  BY IsSeqLen DEF fmtFits, alike, IndInv, Shapes
<1>2. \E k \in fmtFits : \A j \in fmtFits : k <= j
  BY <1>1, NatMin
<1>. QED
  BY <1>2 DEF First

-----------------------------------------------------------------------------
(* What the tokens of a kind have.                                         *)
LEMMA TokenShape ==
  ASSUME NEW t \in Token
  PROVE  /\ t.kind \in {"pos", "span"} => t.len \in Nat /\ t.sign \in BOOLEAN
         /\ t.kind = "pos" => t.pos \in Nat
         /\ t.kind = "bits" => t.digits \in Seq(Digit)
BY DEF Token

LEMMA Picked ==
  ASSUME toks \in Seq(Token), toks # <<>>, NEW kind
  PROVE  OfKind(kind) \in Seq({t \in Token : t.kind = kind})
<1>. DEFINE T == {t \in Token : t.kind = kind}
            Y == Seq(T)
<1>1. PICK n \in Nat : n = Len(toks) /\ DOMAIN toks = 1..n /\ n > 0
  OBVIOUS
<1>2. \A k \in 1..n : toks[k] \in Token
  BY <1>1
<1>. DEFINE next(k, x) == IF toks[k + 1].kind = kind THEN Append(x, toks[k + 1]) ELSE x
            step == [p \in (1..(n - 1)) \X Y |-> next(p[1], p[2])]
<1>3. n - 1 \in Nat
  BY <1>1
<1>4. \A k \in 1..(n - 1) : \A x \in Y : next(k, x) \in Y
  <2>. SUFFICES ASSUME NEW k \in 1..(n - 1), NEW x \in Y PROVE next(k, x) \in Y
    OBVIOUS
  <2>1. toks[k + 1] \in Token
    BY <1>2
  <2>. QED
    BY <2>1
<1>5. <<>> \in Y
  OBVIOUS
<1>. HIDE DEF Y, next
<1>6. step \in Steps(n - 1, Y)
  BY <1>4 DEF Steps
<1>7. PICK h \in [0..(n - 1) -> Y] : Follows(h, n - 1, <<>>, step)
  BY <1>3, <1>5, <1>6, Recursion
<1>8. h[0] = <<>> /\ \A k \in 1..(n - 1) : h[k] = next(k, h[k - 1])
  <2>1. h[0] = <<>> /\ \A k \in 1..(n - 1) : h[k] = step[<<k, h[k - 1]>>]
    <3>. HIDE DEF step
    <3>. QED
      BY <1>7 DEF Follows
  <2>2. ASSUME NEW k \in 1..(n - 1) PROVE step[<<k, h[k - 1]>>] = next(k, h[k - 1])
    <3>1. k - 1 \in 0..(n - 1)
      BY <1>3
    <3>2. <<k, h[k - 1]>> \in (1..(n - 1)) \X Y
      BY <3>1
    <3>. QED
      BY <3>2
  <2>. QED
    BY <2>1, <2>2
<1>. HIDE DEF step
<1>. DEFINE Body(a) == [k \in 1..n |-> IF k = 1 THEN <<>>
                          ELSE IF toks[k].kind = kind THEN Append(a[k - 1], toks[k])
                                                      ELSE a[k - 1]]
            g == [k \in 1..n |-> h[k - 1]]
<1>9. g = Body(g)
  <2>1. ASSUME NEW k \in 1..n
        PROVE  g[k] = IF k = 1 THEN <<>>
                      ELSE IF toks[k].kind = kind THEN Append(g[k - 1], toks[k]) ELSE g[k - 1]
    <3>1. CASE k = 1
      BY <1>8, <3>1
    <3>2. CASE k # 1
      <4>1. k - 1 \in 1..(n - 1) /\ k - 1 \in 1..n /\ (k - 1) + 1 = k
        BY <3>2
      <4>2. h[k - 1] = next(k - 1, h[(k - 1) - 1])
        BY <1>8, <4>1
      <4>3. g[k] = h[k - 1] /\ g[k - 1] = h[(k - 1) - 1]
        BY <4>1
      <4>. QED
        BY <3>2, <4>1, <4>2, <4>3 DEF next
    <3>. QED
      BY <3>1, <3>2
  <2>. QED
    BY <2>1
<1>. DEFINE upto == CHOOSE a : a = Body(a)
<1>10. upto = Body(upto)
  <2>. HIDE DEF Body
  <2>. QED
    BY <1>9, Zenon
<1>11. OfKind(kind) = upto[n]
  <2>1. OfKind(kind) = (CHOOSE a : a = [k \in 1..Len(toks) |->
                          IF k = 1 THEN <<>>
                          ELSE IF toks[k].kind = kind THEN Append(a[k - 1], toks[k])
                                                      ELSE a[k - 1]])[Len(toks)]
    BY Zenon DEF OfKind
  <2>. QED
    BY <1>1, <2>1, Zenon
<1>. HIDE DEF upto
<1>12. \A k \in 1..n : upto[k] = IF k = 1 THEN <<>>
                                 ELSE IF toks[k].kind = kind THEN Append(upto[k - 1], toks[k])
                                                             ELSE upto[k - 1]
  BY <1>10
<1>. DEFINE S == {k \in 0..n : k > 0 => upto[k] \in Y}
<1>13. ASSUME NEW k \in 0..n, \A j \in 0..(k - 1) : j \in S PROVE k \in S
  <2>1. CASE k \in {0, 1}
    BY <1>1, <1>5, <1>12, <2>1
  <2>2. CASE k \notin {0, 1}
    <3>1. k \in 1..n /\ k # 1 /\ k - 1 \in 0..(k - 1) /\ k - 1 > 0 /\ k - 1 \in 1..(n - 1)
      BY <2>2
    <3>2. upto[k - 1] \in Y
      BY <1>13, <3>1
    <3>3. next(k - 1, upto[k - 1]) \in Y
      BY <1>4, <3>1, <3>2
    <3>4. upto[k] = next(k - 1, upto[k - 1])
      BY <1>12, <3>1 DEF next
    <3>. QED
      BY <3>3, <3>4
  <2>. QED
    BY <2>1, <2>2
<1>. HIDE DEF S
<1>14. 0..n \subseteq S
  BY <1>13, UpTo
<1>15. n \in S
  BY <1>14
<1>16. OfKind(kind) \in Y
  BY <1>1, <1>11, <1>15 DEF S
<1>. QED
  BY <1>16 DEF Y

-----------------------------------------------------------------------------
(* add_field: another name, another field.                                 *)
LEMMA AppendField ==
  ASSUME NEW s, FldsOK(s), NEW nm, nm \notin Names(s), NEW f, FieldOK(f)
  PROVE  FldsOK(Append(s, [name |-> nm, f |-> f]))
<1>. DEFINE e == [name |-> nm, f |-> f]
<1>1. e.name = nm /\ e.f = f
  OBVIOUS
<1>2. \A k \in DOMAIN s : s[k].name # nm
  BY DEF Names
<1>. HIDE DEF e
<1>3. IsSeq(s)
  BY DEF FldsOK
<1>4. /\ IsSeq(Append(s, e)) /\ DOMAIN Append(s, e) = 1..(Len(s) + 1) /\ Len(s) \in Nat
      /\ DOMAIN s = 1..Len(s) /\ Append(s, e)[Len(s) + 1] = e
      /\ \A k \in DOMAIN s : Append(s, e)[k] = s[k]
  BY <1>3, AppendSeq
<1>5. \A k \in DOMAIN Append(s, e) : k \in DOMAIN s \/ k = Len(s) + 1
  BY <1>4
<1>6. \A k \in DOMAIN Append(s, e) : FieldOK(Append(s, e)[k].f)
  BY <1>1, <1>4, <1>5 DEF FldsOK
<1>7. \A j, k \in DOMAIN Append(s, e) : Append(s, e)[j].name = Append(s, e)[k].name => j = k
  BY <1>1, <1>2, <1>4, <1>5 DEF FldsOK
<1>8. FldsOK(Append(s, e))
  BY <1>4, <1>6, <1>7 DEF FldsOK
<1>. QED
  BY <1>8 DEF e

LEMMA AfterFields ==
  ASSUME IndInv, FieldInv, NEW t \in Token, NEW c \in After(t)
  PROVE  FldsOK(c.flds) /\ c.width \in Int
<1>. USE DEF FieldInv
<1>1. DOMAIN cur = DOMAIN NoLine /\ DOMAIN NoLine = {"kind", "name", "mask", "bits", "undef",
                                                     "width", "flds", "arg", "fmt"}
  BY DEF IndInv, Shapes, NoLine
<1>2. ASSUME NEW nm, NEW f, FieldOK(f), NEW d \in WithField(nm, f)
      PROVE  FldsOK(d.flds) /\ d.width = cur.width /\ DOMAIN d = DOMAIN cur
  <2>1. /\ nm \notin Names(cur.flds)
        /\ d = [cur EXCEPT !.flds = Append(@, [name |-> nm, f |-> f])]
    BY <1>2 DEF WithField
  <2>2. d.flds = Append(cur.flds, [name |-> nm, f |-> f])
    BY <1>1, <2>1
  <2>3. FldsOK(Append(cur.flds, [name |-> nm, f |-> f]))
    BY <1>2, <2>1, AppendField
  <2>. QED
    BY <1>1, <2>1, <2>2, <2>3
<1>3. CASE t.kind = "&"
  BY <1>1, <1>3 DEF After
<1>4. CASE t.kind = "@"
  BY <1>1, <1>4 DEF After
<1>5. CASE t.kind \in {"%", "import"}
  <2>1. PICK k \in DOMAIN fields : c \in WithField(t.name, fields[k].f)
    BY <1>5 DEF After, At
  <2>. QED
    BY <1>2, <2>1
<1>6. CASE t.kind = "const"
  <2>1. FieldOK(Const(t.val))
    <3>1. <<>> \in Seq(Parts) /\ DOMAIN <<>> = {}
      OBVIOUS
    <3>. QED
      BY <3>1 DEF FieldOK, PartsApart, Const
  <2>2. c \in WithField(t.name, Const(t.val))
    BY <1>6 DEF After
  <2>. QED
    BY <1>2, <2>1, <2>2
<1>7. CASE t.kind = "span"
  <2>1. t.len \in Nat /\ t.sign \in BOOLEAN
    BY <1>7, TokenShape
  <2>2. Part(Width - cur.width - t.len, t.len, t.sign) \in Parts
    BY <2>1, FilesAssumption DEF Part, Parts
  <2>3. PICK f : f = FieldIn(<<Part(Width - cur.width - t.len, t.len, t.sign)>>, "")
    OBVIOUS
  <2>4. FieldOK(f)
    <3>1. PICK p \in Parts : f = FieldIn(<<p>>, "")
      BY <2>2, <2>3
    <3>2. f.subs = <<p>> /\ f.func = ""
      BY <3>1 DEF FieldIn
    <3>3. <<p>> \in Seq(Parts) /\ DOMAIN <<p>> = {1}
      OBVIOUS
    <3>4. f.subs \in Seq(Parts) /\ DOMAIN f.subs = {1}
      BY <3>2, <3>3
    <3>5. PartsApart(f)
      BY <3>4 DEF PartsApart
    <3>. QED
      BY <3>2, <3>4, <3>5 DEF FieldOK
  <2>5. PICK d : d \in WithField(t.name, f) /\ c = [d EXCEPT !.width = @ + t.len]
    BY <1>7, <2>3 DEF After
  <2>6. FldsOK(d.flds) /\ d.width = cur.width /\ DOMAIN d = DOMAIN cur
    BY <1>2, <2>4, <2>5
  <2>7. c.flds = d.flds /\ c.width = cur.width + t.len
    BY <1>1, <2>5, <2>6
  <2>. QED
    BY <2>1, <2>6, <2>7
<1>8. CASE t.kind = "bits"
  <2>1. t.digits \in Seq(Digit)
    BY <1>8, TokenShape
  <2>2. c = [cur EXCEPT !.mask = @ \union Placed(t.digits, {"0", "1"}),
                        !.bits = @ \union Placed(t.digits, {"1"}),
                        !.undef = @ \union Placed(t.digits, {"-"}),
                        !.width = @ + Len(t.digits)]
    BY <1>8 DEF After
  <2>3. c.flds = cur.flds /\ c.width = cur.width + Len(t.digits)
    BY <1>1, <2>2
  <2>. QED
    BY <2>1, <2>3
<1>. QED
  BY <1>3, <1>4, <1>5, <1>6, <1>7, <1>8 DEF After

(* parse_field: parts made of the tokens with positions.                   *)
LEMMA NewFieldOK ==
  ASSUME IndInv, stage = "declare", NEW d \in NewField
  PROVE  FieldOK(d.f)
<1>1. toks \in Seq(Token) /\ toks # <<>>
  BY DEF IndInv, TypeOK, FileOK, Shapes
<1>2. OfKind("pos") \in Seq({t \in Token : t.kind = "pos"})
  BY <1>1, Picked
<1>3. PICK subs \in Seq({t \in Token : t.kind = "pos"}) : subs = OfKind("pos")
  BY <1>2
<1>4. PICK n \in Nat : DOMAIN subs = 1..n
  OBVIOUS
<1>5. ASSUME NEW k \in DOMAIN subs
      PROVE  Part(subs[k].pos, subs[k].len, subs[k].sign) \in Parts
  <2>1. subs[k] \in Token /\ subs[k].kind = "pos"
    BY <1>4
  <2>2. subs[k].pos \in Nat /\ subs[k].len \in Nat /\ subs[k].sign \in BOOLEAN
    BY <2>1, TokenShape
  <2>. QED
    BY <2>2 DEF Part, Parts
<1>6. [k \in DOMAIN subs |-> Part(subs[k].pos, subs[k].len, subs[k].sign)] \in Seq(Parts)
  BY <1>4, <1>5
<1>. DEFINE ps(s) == [k \in DOMAIN s |-> Part(s[k].pos, s[k].len, s[k].sign)]
            fn(s) == IF s = <<>> THEN "" ELSE s[1].func
<1>7. d = [name |-> name.name, f |-> FieldIn(ps(OfKind("pos")), fn(OfKind("function")))]
  BY Zenon DEF NewField
<1>8. d.f = FieldIn(ps(subs), fn(OfKind("function")))
  <2>. HIDE DEF ps, fn
  <2>. QED
    BY <1>3, <1>7
<1>9. d.f.subs = ps(subs) /\ d.f.val = 0
  <2>. HIDE DEF ps, fn
  <2>. QED
    BY <1>8 DEF FieldIn
<1>10. \A j, k \in DOMAIN subs :
         j # k => PartMask(subs[j]) \intersect PartMask(subs[k]) = {}
  BY <1>3 DEF NewField, SoundField
<1>11. PartsApart(d.f)
  <2>1. /\ DOMAIN ps(subs) = DOMAIN subs
        /\ \A k \in DOMAIN subs : PartMask(ps(subs)[k]) = PartMask(subs[k])
    BY DEF Part, PartMask
  <2>. HIDE DEF ps
  <2>. QED
    BY <1>9, <1>10, <2>1 DEF PartsApart
<1>. QED
  BY <1>6, <1>9, <1>11 DEF FieldOK

-----------------------------------------------------------------------------
LEMMA NoFields == FldsOK(<<>>) /\ IsSeq(<<>>) /\ DOMAIN <<>> = {}
<1>1. <<>> \in Seq({}) /\ DOMAIN <<>> = {}
  OBVIOUS
<1>2. IsSeq(<<>>)
  BY <1>1, SeqIsSeq
<1>. QED
  BY <1>1, <1>2 DEF FldsOK

LEMMA FieldInit == Init => FieldInv
<1>1. NoLine.flds = <<>> /\ NoLine.width = 0
  BY DEF NoLine
<1>. QED
  BY <1>1, NoFields DEF Init, FieldInv

LEMMA FieldStep == IndInv /\ FieldInv /\ [Generate]_vars => FieldInv'
<1>. SUFFICES ASSUME IndInv, FieldInv, [Generate]_vars PROVE FieldInv'
  OBVIOUS
<1>1. CASE UNCHANGED <<cur, formats, fields>>
  BY <1>1 DEF FieldInv, FldsOK
<1>2. CASE ParseField
  <2>1. PICK d \in NewField : fields' = Append(fields, d)
    BY <1>2 DEF ParseField
  <2>2. FieldOK(d.f)
    BY <1>2, <2>1, NewFieldOK DEF ParseField, Starts, Declares
  <2>3. /\ IsSeq(fields')
        /\ \A k \in DOMAIN fields' : (k \in DOMAIN fields /\ fields'[k] = fields[k]) \/ fields'[k] = d
    BY <2>1, AppendSeq DEF FieldInv
  <2>4. UNCHANGED <<cur, formats>>
    BY <1>2 DEF ParseField
  <2>5. \A k \in DOMAIN fields' : FieldOK(fields'[k].f)
    BY <2>2, <2>3 DEF FieldInv
  <2>. QED
    BY <2>3, <2>4, <2>5 DEF FieldInv
<1>3. CASE StartGeneric
  <2>1. /\ UNCHANGED <<fields, formats>>
        /\ cur' = [NoLine EXCEPT !.kind = name.kind, !.name = name.name]
    BY <1>3 DEF StartGeneric, declVars
  <2>2. cur'.flds = <<>> /\ cur'.width = 0
    BY <2>1 DEF NoLine
  <2>. QED
    BY <2>1, <2>2, NoFields DEF FieldInv
<1>4. CASE TakeToken
  <2>1. /\ UNCHANGED <<fields, formats>> /\ toks # <<>> /\ cur' \in After(Head(toks))
    BY <1>4 DEF TakeToken, declVars
  <2>2. Head(toks) \in Token
    BY <2>1 DEF IndInv, TypeOK, FileOK
  <2>3. FldsOK(cur'.flds) /\ cur'.width \in Int
    BY <2>1, <2>2, AfterFields
  <2>. QED
    BY <2>1, <2>3 DEF FieldInv
<1>5. ASSUME NEW F, F.flds = cur.flds, formats' = Append(formats, F), UNCHANGED <<cur, fields>>
      PROVE  FieldInv'
  <2>1. IsSeq(formats)
    BY DEF IndInv, Shapes
  <2>2. \A k \in DOMAIN formats' : (k \in DOMAIN formats /\ formats'[k] = formats[k]) \/ formats'[k] = F
    BY <1>5, <2>1, AppendSeq
  <2>3. \A k \in DOMAIN formats' : FldsOK(formats'[k].flds)
    BY <1>5, <2>2 DEF FieldInv
  <2>. QED
    BY <1>5, <2>3 DEF FieldInv
<1>6. CASE ParseFormat
  <2>1. Format(cur.name, base, cur, cur.flds).flds = cur.flds
    BY DEF Format
  <2>. QED
    BY <1>5, <1>6, <2>1 DEF ParseFormat
<1>7. CASE ParsePattern
  <2>1. Format("", base, NoLine, cur.flds).flds = cur.flds
    BY DEF Format
  <2>. QED
    BY <1>1, <1>5, <1>7, <2>1 DEF ParsePattern, FormatsAfter
<1>. QED
  BY <1>1, <1>2, <1>3, <1>4, <1>6, <1>7
     DEF Generate, Parse, SkipLine, MisplacedComment, ReadLine, EndOfFile, OpenGroup,
         CloseGroup, BadGroup, BadDeclaration, ParseArguments, BadFieldOrArguments, BadToken,
         BadLine, Fail, StartProp, PropMasks, EnterGroup, EmptyGroup, Widen, Settle,
         StartBuild, BuildTree, Split, SoleLeaf, Overlap, FinishBuild,
         vars, parseVars, fileVars, declVars

-----------------------------------------------------------------------------
(* The value of a name is the one its only field has, the pattern's own    *)
(* before the format's.                                                    *)
SourceIn(own, given, n) ==
  IF At(own, n) # {} THEN own[First(At(own, n))].f ELSE given[First(At(given, n))].f
Sent(own, given, n, insn) ==
  <<SourceIn(own, given, n).func, str_extract(SourceIn(own, given, n), insn)>>

LEMMA SentOwn ==
  ASSUME NEW own, NEW given, NEW insn, FldsOK(own), NEW k \in DOMAIN own
  PROVE  Sent(own, given, own[k].name, insn) = <<own[k].f.func, str_extract(own[k].f, insn)>>
BY FirstAt DEF Sent, SourceIn

LEMMA SentGiven ==
  ASSUME NEW own, NEW given, NEW insn, FldsOK(given), NEW k \in DOMAIN given,
         given[k].name \notin Names(own)
  PROVE  Sent(own, given, given[k].name, insn)
           = <<given[k].f.func, str_extract(given[k].f, insn)>>
<1>1. At(own, given[k].name) = {}
  BY DEF At, Names
<1>. QED
  BY <1>1, FirstAt DEF Sent, SourceIn

(* What ParsePattern does to the dictionaries.                             *)
LEMMA PatternPut ==
  ASSUME IndInv, ParsePattern
  PROVE  pats'[Len(pats')] = Pattern /\ formats' = FormatsAfter
<1>1. IsSeq(pats)
  BY DEF IndInv, Shapes
<1>2. pats' = Append(pats, Pattern) /\ formats' = FormatsAfter
  BY DEF ParsePattern
<1>. QED
  BY <1>1, <1>2, AppendSeq

LEMMA FormatIs ==
  ASSUME IndInv
  PROVE  FormatsAfter[format].flds =
           IF cur.fmt # 0 THEN FormatFlds
           ELSE IF fmtFits # {} THEN formats[First(fmtFits)].flds
           ELSE cur.flds
<1>1. CASE cur.fmt # 0 \/ fmtFits # {}
  BY <1>1 DEF FormatsAfter, NewFormat, format, FormatFlds
<1>2. CASE cur.fmt = 0 /\ fmtFits = {}
  <2>1. FormatsAfter[format] = Format("", base, NoLine, cur.flds)
    <3>1. PICK F : F = Format("", base, NoLine, cur.flds)
      OBVIOUS
    <3>2. IsSeq(formats) /\ FormatsAfter = Append(formats, F) /\ format = Len(formats) + 1
      BY <1>2, <3>1 DEF FormatsAfter, NewFormat, format, IndInv, Shapes
    <3>. QED
      BY <3>1, <3>2, AppendSeq
  <2>2. Format("", base, NoLine, cur.flds).flds = cur.flds
    BY DEF Format
  <2>. QED
    BY <1>2, <2>1, <2>2
<1>. QED
  BY <1>1, <1>2

LEMMA PatternKeeps ==
  ASSUME IndInv, FieldInv, ParsePattern, NEW d \in Written, NEW insn
  PROVE  \/ Read(d, insn) = Passed(Len(pats), d.name, insn)'
         \/ Rearranged(d.f, Source(Len(pats), d.name)')
<1>1. PICK own, given : own = Pattern.flds /\ given = FormatsAfter[format].flds
  OBVIOUS
<1>2. /\ Source(Len(pats), d.name)' = SourceIn(own, given, d.name)
      /\ Passed(Len(pats), d.name, insn)' = Sent(own, given, d.name, insn)
  <2>1. Pattern.fmt = format
    BY DEF Pattern
  <2>2. pats'[Len(pats')].flds = own /\ formats'[pats'[Len(pats')].fmt].flds = given
    BY <1>1, <2>1, PatternPut
  <2>3. Source(Len(pats), d.name)' = SourceIn(own, given, d.name)
    BY <2>2 DEF Source, SourceIn
  <2>4. Passed(Len(pats), d.name, insn)'
          = <<SourceIn(own, given, d.name).func, str_extract(SourceIn(own, given, d.name), insn)>>
    BY <2>3 DEF Passed
  <2>. QED
    BY <2>3, <2>4 DEF Sent
<1>3. own = IF cur.fmt # 0 THEN cur.flds ELSE <<>>
  BY <1>1 DEF Pattern
<1>4. FldsOK(cur.flds)
  BY DEF FieldInv
<1>5. CASE cur.fmt # 0
  <2>1. given = FormatFlds /\ own = cur.flds
    BY <1>1, <1>3, <1>5, FormatIs
  <2>2. Names(own) \intersect Names(given) = {}
    BY <1>1 DEF ParsePattern, AcceptsPattern, SetsArguments
  <2>3. FldsOK(given)
    <3>1. cur.fmt \in DOMAIN formats
      BY <1>5, IsSeqLen DEF IndInv, TypeOK, CurOK, Shapes
    <3>. QED
      BY <1>5, <2>1, <3>1 DEF FieldInv, FormatFlds
  <2>4. ASSUME NEW k \in DOMAIN own, d = own[k]
        PROVE  Sent(own, given, d.name, insn) = Read(d, insn)
    BY <1>4, <2>1, <2>4, SentOwn DEF Read
  <2>5. ASSUME NEW k \in DOMAIN given, d = given[k]
        PROVE  Sent(own, given, d.name, insn) = Read(d, insn)
    <3>1. given[k].name \notin Names(own)
      BY <2>2 DEF Names
    <3>. QED
      BY <2>3, <2>5, <3>1, SentGiven DEF Read
  <2>. QED
    BY <1>2, <2>1, <2>4, <2>5 DEF Written
<1>6. CASE cur.fmt = 0
  <2>1. own = <<>> /\ FormatFlds = <<>>
    BY <1>3, <1>6 DEF FormatFlds
  <2>2. PICK k \in DOMAIN cur.flds : d = cur.flds[k]
    BY <2>1, NoFields DEF Written
  <2>3. FldsOK(given) /\ \E j \in DOMAIN given :
          /\ given[j].name = d.name
          /\ \/ /\ given[j].f.func = d.f.func
                /\ str_extract(given[j].f, insn) = str_extract(d.f, insn)
             \/ Rearranged(d.f, given[j].f)
    <3>1. CASE fmtFits = {}
      <4>1. given = cur.flds
        BY <1>1, <1>6, <3>1, FormatIs
      <4>. QED
        BY <1>4, <2>2, <4>1
    <3>2. CASE fmtFits # {}
      <4>1. PICK m : m = First(fmtFits)
        OBVIOUS
      <4>2. m \in fmtFits
        BY <3>2, <4>1, FirstFits
      <4>3. given = formats[m].flds /\ FldsOK(given)
        BY <1>1, <1>6, <3>2, <4>1, <4>2, FormatIs DEF FieldInv, fmtFits, alike
      <4>4. SameFields(cur.flds, given)
        BY <4>2, <4>3 DEF fmtFits
      <4>5. PICK j \in At(given, d.name) : SameField(d.f, given[j].f)
        BY <2>2, <4>4 DEF SameFields
      <4>6. j \in DOMAIN given /\ given[j].name = d.name
        BY DEF At
      <4>7. FieldOK(d.f) /\ FieldOK(given[j].f)
        BY <1>4, <2>2, <4>3, <4>6 DEF FldsOK
      <4>8. CASE PlainToCompound(d.f, given[j].f)
        <5>1. Rearranged(d.f, given[j].f)
          BY <4>5, <4>8 DEF SameField, Rearranged
        <5>. QED
          BY <4>3, <4>6, <5>1
      <4>9. CASE ~ PlainToCompound(d.f, given[j].f)
        BY <4>3, <4>5, <4>6, <4>7, <4>9, SameValue
      <4>. QED
        BY <4>8, <4>9
    <3>. QED
      BY <3>1, <3>2
  <2>4. PICK j \in DOMAIN given :
          /\ given[j].name = d.name
          /\ \/ /\ given[j].f.func = d.f.func
                /\ str_extract(given[j].f, insn) = str_extract(d.f, insn)
             \/ Rearranged(d.f, given[j].f)
    BY <2>3
  <2>5. given[j].name \notin Names(own) /\ At(own, d.name) = {}
    BY <2>1, NoFields DEF Names, At
  <2>6. Sent(own, given, given[j].name, insn)
          = <<given[j].f.func, str_extract(given[j].f, insn)>>
    BY <2>3, <2>5, SentGiven
  <2>7. SourceIn(own, given, d.name) = given[j].f
    BY <2>3, <2>4, <2>5, FirstAt DEF SourceIn
  <2>. QED
    BY <1>2, <2>4, <2>6, <2>7 DEF Read
<1>. QED
  BY <1>5, <1>6

(* Every step but the reading of a pattern leaves the patterns as many as  *)
(* they are, or adds a group.                                              *)
LEMMA PatternsOnly ==
  ASSUME IndInv, [Generate]_vars, PatternAdded
  PROVE  ParsePattern
<1>1. IsSeq(pats) /\ Len(pats) \in Nat
  BY IsSeqLen DEF IndInv, Shapes
<1>2. pats' # pats
  BY <1>1 DEF PatternAdded
<1>3. ~ OpenGroup
  <2>. SUFFICES ASSUME OpenGroup PROVE FALSE
    OBVIOUS
  <2>1. PICK kind \in {"inc", "exc"} : pats' = Append(pats, Group(kind))
    BY DEF OpenGroup
  <2>2. pats'[Len(pats')] = Group(kind)
    BY <1>1, <2>1, AppendSeq
  <2>3. Group(kind).kind = kind
    BY DEF Group
  <2>4. kind = "pattern"
    BY <2>2, <2>3 DEF PatternAdded
  <2>. QED
    BY <2>4
<1>4. ~ Settle
  <2>. SUFFICES ASSUME Settle PROVE FALSE
    OBVIOUS
  <2>1. DOMAIN pats' = DOMAIN pats
    BY DEF Settle
  <2>2. pats = [k \in 1..Len(pats) |-> pats[k]] /\ DOMAIN pats = 1..Len(pats)
    BY <1>1 DEF IsSeq
  <2>3. pats' = [k \in 1..Len(pats) |-> pats'[k]]
    BY <2>2 DEF Settle
  <2>4. Len(pats') = Len(pats)
    BY <1>1, <2>2, <2>3
  <2>. QED
    BY <1>1, <2>4 DEF PatternAdded
<1>. QED
  BY <1>2, <1>3, <1>4
     DEF Generate, Parse, SkipLine, MisplacedComment, ReadLine, EndOfFile,
         CloseGroup, BadGroup, BadDeclaration, ParseField, ParseArguments, BadFieldOrArguments,
         StartGeneric, TakeToken, BadToken, ParseFormat, BadLine, Fail, StartProp, PropMasks,
         EnterGroup, EmptyGroup, Widen, StartBuild, BuildTree, Split, SoleLeaf, Overlap,
         FinishBuild, vars, parseVars, fileVars, declVars

(* Whatever the file, every field of a pattern's line, and of the format   *)
(* it names, reaches the translator with the value the line gives it, also *)
(* where another pattern's format is used for it; the only exception is a  *)
(* plain field taken for a compound of its bits, which must both go        *)
(* through the same function (ValuesKeptButPlain).                         *)
THEOREM ValuesCorrect == Spec => ValuesKeptButPlain
<1>. DEFINE A == PatternAdded =>
                   \A d \in Written, insn \in SUBSET Bits :
                     \/ Read(d, insn) = Passed(Len(pats), d.name, insn)'
                     \/ Rearranged(d.f, Source(Len(pats), d.name)')
<1>1. IndInv /\ FieldInv /\ [Generate]_vars => [A]_vars
  BY PatternsOnly, PatternKeeps
<1>2. Init /\ TreeInit => IndInv /\ FieldInv
  BY InitInd, FieldInit
<1>3. IndInv /\ FieldInv /\ [Generate]_vars => (IndInv /\ FieldInv)'
  BY StepInd, FieldStep
<1>. QED
  BY <1>1, <1>2, <1>3, PTL DEF Spec, ValuesKeptButPlain
=============================================================================
