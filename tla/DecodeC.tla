------------------------------ MODULE DecodeC -------------------------------
(***************************************************************************)
(* The C decoder decodetree.py writes, run on an instruction: the nested   *)
(* switches of the trees, the tests of groups in braces, the extraction of *)
(* the fields into the union u, and the calls of the trans_* functions,    *)
(* which end the decoding when they return true.                           *)
(***************************************************************************)
EXTENDS DecodeTree

VARIABLES
  insn,     \* the instruction being decoded
  frames,   \* the nested statements being executed, innermost last
  u,        \* the format whose extract function filled u last; 0 after a call
  calls     \* the trans_* functions called, by their patterns

cVars == <<insn, frames, u, calls>>
decVars == <<file, toks, indent, nesting, fields, arguments, formats, cur, pats, stage,
             unset, work, todo, trees, leaves, insn, frames, u, calls>>

-----------------------------------------------------------------------------
(* The code of a Tree, a group in braces or a pattern, with the arguments  *)
(* output_code has when it writes it: outermask, and whether the fields    *)
(* have been extracted.                                                    *)

Switch(g, path, outer, extracted) ==
  [do |-> "switch", group |-> g, path |-> path, outer |-> outer, extracted |-> extracted]
Tests(left, outer, extracted) ==
  [do |-> "tests", left |-> left, outer |-> outer, extracted |-> extracted]
CallOf(i, extracted) == [do |-> "call", pat |-> i, extracted |-> extracted]

InOrder(S) == LET At1[k \in 0..Len(pats)] ==
                    IF k = 0 THEN <<>>
                    ELSE IF k \in S THEN Append(At1[k - 1], k) ELSE At1[k - 1]
              IN At1[Len(pats)]

Code(i, outer, extracted) ==
  CASE pats[i].kind = "pattern" -> CallOf(i, extracted)
    [] pats[i].kind = "inc" -> Tests(InOrder(Children(i)), outer, extracted)
    [] pats[i].kind = "exc" -> Switch(i, <<>>, outer, extracted)

top == frames[Len(frames)]
outside == SubSeq(frames, 1, Len(frames) - 1)
Does(what) == stage = "decode" /\ frames # <<>> /\ top.do = what

-----------------------------------------------------------------------------
CInit == insn = {} /\ frames = <<>> /\ u = 0 /\ calls = <<>>

(* A translator is declared once for all patterns of its name, so they     *)
(* must have one argument set.                                             *)
Patterns == {i \in DOMAIN pats : pats[i].kind = "pattern"}
Conflict ==
  \E i, j \in Patterns : /\ pats[i].name = pats[j].name
                         /\ formats[pats[i].fmt].base # formats[pats[j].fmt].base

RefuseDecoder ==
  /\ stage = "built" /\ Conflict
  /\ stage' = "error"
  /\ UNCHANGED <<parseVars, treeVars, cVars>>

StartDecode ==
  /\ stage = "built" /\ ~ Conflict
  /\ stage' = "decode"
  /\ insn' \in SUBSET Bits
  /\ frames' = IF Patterns # {} THEN <<Switch(0, <<>>, {}, FALSE)>> ELSE <<>>
  /\ UNCHANGED <<parseVars, treeVars, u, calls>>

(* prop_format: only the file's tree has a base, the format of all         *)
(* patterns below a node; its groups are built again and never get one.    *)
BaseOfFirst(t) ==   \* mutant: the format of the first one is enough
  IF t.group = 0 THEN {pats[First(t.pats)].fmt} ELSE {}

Base(t) ==
  {f \in {pats[i].fmt : i \in t.pats} :
     /\ t.group = 0
     /\ \A i \in t.pats : pats[i].kind = "pattern" /\ pats[i].fmt = f}

TreeAt == {t \in trees : t.group = top.group /\ t.path = top.path}

(* A switch is left after its case, which has another one or a leaf.       *)
Branch ==
  /\ Does("switch")
  /\ \E t \in TreeAt :
       LET case == Append(t.path, insn \intersect t.thismask)
           outer == top.outer \union t.thismask
           extracts == ~ top.extracted /\ Base(t) # {}
           extracted == top.extracted \/ Base(t) # {}
       IN /\ u' = IF extracts THEN First(Base(t)) ELSE u
          /\ frames' =
               outside \o
               IF \E s \in trees : s.group = t.group /\ s.path = case
               THEN <<Switch(t.group, case, outer, extracted)>>
               ELSE LET l == {s \in leaves : s.group = t.group /\ s.path = case}
                    IN IF l = {} THEN <<>>
                       ELSE <<Code((CHOOSE s \in l : TRUE).pat, outer, extracted)>>
  /\ UNCHANGED <<parseVars, stage, treeVars, insn, calls>>

(* The tests of a group in braces, one after the other: only for bits not  *)
(* tested outside, and none if there are no others.                        *)
PassesAll(i, outer) ==   \* mutant: also bits the group does not fix are asked for
  \/ outer = pats[i].mask
  \/ insn \ outer = pats[i].bits \ outer

PassesTest(i, outer) ==
  \/ outer = pats[i].mask
  \/ insn \intersect (pats[i].mask \ outer) = pats[i].bits \ outer

Test ==
  /\ Does("tests")
  /\ frames' =
       IF top.left = <<>> THEN outside
       ELSE LET i == Head(top.left)
            IN Append(outside, Tests(Tail(top.left), top.outer, top.extracted))
                 \o IF PassesTest(i, top.outer)
                    THEN <<Code(i, pats[i].mask, top.extracted)>> ELSE <<>>
  /\ UNCHANGED <<parseVars, stage, treeVars, insn, u, calls>>

(* trans_* may refuse the instruction, and then decoding goes on; what it  *)
(* does to u is its own affair.                                            *)
Extracted == IF top.extracted THEN u ELSE pats[top.pat].fmt

CallTrans(accepted) ==
  /\ Does("call")
  /\ calls' = Append(calls, [pat |-> top.pat, fmt |-> Extracted])
  /\ u' = 0
  /\ frames' = IF accepted THEN <<>> ELSE outside
  /\ stage' = IF accepted THEN "accepted" ELSE stage
  /\ UNCHANGED <<parseVars, treeVars, insn>>

ReturnFalseLate ==   \* mutant: an instruction no pattern matches gets no return
  /\ stage = "decode" /\ frames = <<>> /\ calls # <<>>
  /\ stage' = "refused"
  /\ UNCHANGED <<parseVars, treeVars, cVars>>

ReturnFalse ==
  /\ stage = "decode" /\ frames = <<>>
  /\ stage' = "refused"
  /\ UNCHANGED <<parseVars, treeVars, cVars>>

Decode ==
  \/ RefuseDecoder \/ StartDecode \/ Branch \/ Test \/ ReturnFalse
  \/ \E accepted \in BOOLEAN : CallTrans(accepted)

DecodeNext ==
  \/ Generate /\ UNCHANGED cVars
  \/ Decode

DecodeInit == Init /\ TreeInit /\ CInit
DecodeSpec ==
  /\ DecodeInit
  /\ [][DecodeNext]_decVars
  /\ WF_decVars(DecodeNext)

-----------------------------------------------------------------------------
Matching == InOrder({i \in DOMAIN pats : pats[i].kind = "pattern" /\ MatchesPat(insn, i)})

(* The functions called are those of the patterns that match, in the order *)
(* of the file, until one accepts; and when none does, none was left out.  *)
(* The switches of the trees come in the order of their labels, groups are *)
(* entered by masks that hold for several patterns (decodetree.py:601-614),*)
(* bits tested outside are not tested again, and a mask that widened to    *)
(* nothing leaves bits behind (572).                                       *)
CallsInOrder ==
  /\ Len(calls) <= Len(Matching)
  /\ \A k \in DOMAIN calls : calls[k].pat = Matching[k]
  /\ (stage = "refused") => Len(calls) = Len(Matching)

(* Each call gets the fields its own pattern's format extracts, whether    *)
(* they were extracted in a tree for all patterns below it                 *)
(* (decodetree.py:688-691) or for this one (492-494).                      *)
CallsExtracted == \A k \in DOMAIN calls : calls[k].fmt = pats[calls[k].pat].fmt

(* The decoder returns, whatever the trans_* functions say.                *)
Returns == <>(stage \in {"accepted", "refused", "error"})
=============================================================================
