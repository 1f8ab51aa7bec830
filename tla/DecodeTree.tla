----------------------------- MODULE DecodeTree -----------------------------
(***************************************************************************)
(* The second half of tools/decoder/decodetree.py: prop_masks gives each   *)
(* group the bits all its members fix alike, and build_tree of every group *)
(* in brackets, and of the whole file, separates the members by the bits   *)
(* all of them fix, again and again.  A leaf of the file's tree becomes a  *)
(* BitPat of the hardware decoder and an opcode of the assembler; the C    *)
(* decoder walks all trees.                                                *)
(***************************************************************************)
EXTENDS DecodeFile

VARIABLES
  unset,    \* the groups that have no masks yet
  work,     \* the locals of the prop_masks being run; group 0 is none
  todo,     \* the calls of __build_tree still to be made
  trees,    \* the Tree nodes made
  leaves    \* their entries that are patterns or groups

treeVars == <<unset, work, todo, trees, leaves>>
vars == <<file, toks, indent, nesting, fields, arguments, formats, cur, pats, stage,
          unset, work, todo, trees, leaves>>

(* Group 0 is toppat, which stands for the whole file.                     *)
Children(g) == {i \in DOMAIN pats : pats[i].parent = g}
Groups == {g \in DOMAIN pats : pats[g].kind # "pattern"}
ExcGroups == {0} \union {g \in DOMAIN pats : pats[g].kind = "exc"}

-----------------------------------------------------------------------------
(* prop_masks, of the groups in a group before it.                         *)

Idle == [group |-> 0, mask |-> {}, bits |-> {}]
CommonMask(g) == {b \in Bits : \A i \in Children(g) : b \in pats[i].mask}
thisbits(i) == pats[i].bits \intersect work.mask

TreeInit == unset = {} /\ work = Idle /\ todo = {} /\ trees = {} /\ leaves = {}

StartProp ==
  /\ stage = "prop"
  /\ unset' = Groups
  /\ stage' = "masks"
  /\ UNCHANGED <<parseVars, work, todo, trees, leaves>>

EnterGroup(g) ==
  /\ work = Idle /\ Children(g) # {}
  /\ Children(g) \intersect unset = {}
  /\ work' = [group |-> g, mask |-> CommonMask(g), bits |-> {}]
  /\ UNCHANGED <<parseVars, stage, unset, todo, trees, leaves>>

(* Nothing gives an empty group bits, and whoever asks for them crashes.   *)
EmptyGroup(g) ==
  /\ Children(g) = {}
  /\ stage' = "error"
  /\ UNCHANGED <<parseVars, treeVars>>

(* The first member, and those that do not fix the bits as it does.        *)
Leader == First(Children(work.group))
Others == {i \in Children(work.group) : thisbits(i) # thisbits(Leader)}

Differ(i, j) == {b \in work.mask : (b \in pats[i].bits) # (b \in pats[j].bits)}

Widen ==
  /\ work.group # 0 /\ work.mask # {} /\ Others # {}
  /\ work' = [work EXCEPT !.mask = @ \ Differ(Leader, First(Others)),
                          !.bits = thisbits(Leader)]
  /\ UNCHANGED <<parseVars, stage, unset, todo, trees, leaves>>

SettleEarly ==   \* mutant: the comparison is made once only
  /\ work.group # 0
  /\ pats' = [pats EXCEPT ![work.group].mask = work.mask,
                          ![work.group].bits = thisbits(Leader)]
  /\ unset' = unset \ {work.group} /\ work' = Idle
  /\ UNCHANGED <<fileVars, declVars, cur, stage, todo, trees, leaves>>

(* When no bit is left the bits are those of the last comparison.          *)
Settle ==
  /\ work.group # 0
  /\ work.mask = {} \/ Others = {}
  /\ pats' = [pats EXCEPT ![work.group].mask = work.mask,
                          ![work.group].bits =
                             IF work.mask = {} THEN work.bits ELSE thisbits(Leader)]
  /\ unset' = unset \ {work.group} /\ work' = Idle
  /\ UNCHANGED <<fileVars, declVars, cur, stage, todo, trees, leaves>>

PropMasks ==
  /\ stage = "masks"
  /\ \/ \E g \in unset : EnterGroup(g) \/ EmptyGroup(g)
     \/ Widen
     \/ Settle

-----------------------------------------------------------------------------
(* __build_tree(pats, outerbits, outermask) for a group.  A call is the    *)
(* set of its patterns, the bits decided on the way to it, and that way:   *)
(* the case label of each switch, which adds up to outerbits.              *)

Call(g, ps, mask, path) == [group |-> g, pats |-> ps, mask |-> mask, path |-> path]

innermask(t) == {b \in Bits \ t.mask : \A i \in t.pats : b \in pats[i].mask}
fullmask(t) == t.mask \union innermask(t)

(* The bin of a pattern, and those in it.                                  *)
fb(t, i) == pats[i].bits \intersect innermask(t)
Bin(t, i) == {j \in t.pats : fb(t, j) = fb(t, i)}

(* The only pattern of its bin, with all its bits decided: no recursion.   *)
SettledAlone(t, i) == Bin(t, i) = {i}   \* mutant: undecided bits are ignored
Settled(t, i) == Bin(t, i) = {i} /\ pats[i].mask \subseteq fullmask(t)

Leaf(t, i) ==
  [group |-> t.group, pat |-> i, mask |-> fullmask(t), path |-> Append(t.path, fb(t, i))]
Tree(t) ==
  [group |-> t.group, pats |-> t.pats, path |-> t.path, mask |-> fullmask(t),
   thismask |-> innermask(t)]

SubCallsSameMask(t) ==   \* mutant: the caller's masks are passed on
  {Call(t.group, Bin(t, i), t.mask, t.path) : i \in {j \in t.pats : ~ Settled(t, j)}}

SubCalls(t) ==
  {Call(t.group, Bin(t, i), fullmask(t), Append(t.path, fb(t, i))) :
     i \in {j \in t.pats : ~ Settled(t, j)}}
SubLeaves(t) == {Leaf(t, i) : i \in {j \in t.pats : Settled(t, j)}}

GroupMask(g) == IF g = 0 THEN {} ELSE pats[g].mask

(* main(): toppat's own masks stay empty, so decoding starts from naught.  *)
StartBuild ==
  /\ stage = "masks" /\ unset = {}
  /\ stage' = "build"
  /\ todo' = {Call(g, Children(g), GroupMask(g), <<>>) : g \in ExcGroups}
  /\ UNCHANGED <<parseVars, unset, work, trees, leaves>>

(* The calls do not depend on each other; they are made in any order.      *)
Split(t) ==
  /\ innermask(t) # {}
  /\ todo' = (todo \ {t}) \union SubCalls(t)
  /\ trees' = trees \union {Tree(t)}
  /\ leaves' = leaves \union SubLeaves(t)
  /\ UNCHANGED <<parseVars, stage, unset, work>>

SoleLeafOrFirst(t) ==   \* mutant: of patterns nothing separates one is taken
  /\ innermask(t) = {}
  /\ \E i \in t.pats : leaves' = leaves \union {Leaf(t, i)}
  /\ todo' = todo \ {t}
  /\ trees' = trees \union {Tree(t)}
  /\ UNCHANGED <<parseVars, stage, unset, work>>

(* Nothing left to tell one pattern from another.                          *)
SoleLeaf(t) ==
  /\ innermask(t) = {}
  /\ \E i \in t.pats :
       /\ t.pats = {i}
       /\ leaves' = leaves \union {Leaf(t, i)}
  /\ todo' = todo \ {t}
  /\ trees' = trees \union {Tree(t)}
  /\ UNCHANGED <<parseVars, stage, unset, work>>

Overlap(t) ==
  /\ innermask(t) = {}
  /\ \A i \in t.pats : t.pats # {i}
  /\ stage' = "error"
  /\ UNCHANGED <<parseVars, treeVars>>

BuildTree ==
  /\ stage = "build"
  /\ \E t \in todo : Split(t) \/ SoleLeaf(t) \/ Overlap(t)

FinishBuild ==
  /\ stage = "build" /\ todo = {}
  /\ stage' = "built"
  /\ UNCHANGED <<parseVars, treeVars>>

Generate ==
  \/ Parse /\ UNCHANGED treeVars
  \/ StartProp \/ PropMasks
  \/ StartBuild \/ BuildTree \/ FinishBuild

(* One process that waits for nothing.                                     *)
Spec == Init /\ TreeInit /\ [][Generate]_vars /\ WF_vars(Generate)

-----------------------------------------------------------------------------
Masked(m) == m.mask \subseteq Bits /\ m.bits \subseteq m.mask
Node(p) ==
  /\ p.kind \in {"pattern", "inc", "exc"}
  /\ p.mask \subseteq Bits
  /\ p.kind = "pattern" => p.bits \subseteq p.mask

Tasks == [group : Nat, pats : SUBSET DOMAIN pats, mask : SUBSET Bits,
          path : Seq(SUBSET Bits)]
Leaves == [group : Nat, pat : DOMAIN pats, mask : SUBSET Bits,
           path : Seq(SUBSET Bits)]

FileOK == file \in Seq(Line) /\ toks \in Seq(Token)
CurOK == Masked(cur) /\ cur.fmt \in 0..Len(formats)
FormatsOK == \A k \in DOMAIN formats : Masked(formats[k])
NodesOK ==
  /\ nesting \in Seq(DOMAIN pats)
  /\ \A i \in DOMAIN pats : Node(pats[i]) /\ pats[i].parent \in 0..(i - 1)
TreesOK == todo \subseteq Tasks /\ leaves \subseteq Leaves

(* What a line, a format or a pattern demands of a bit is demanded of a    *)
(* fixed bit, groups hold only what comes after them, and calls and leaves *)
(* are of the file's patterns.                                             *)
TypeOK == FileOK /\ CurOK /\ FormatsOK /\ NodesOK /\ TreesOK

(* What is in a group, however deep, and the patterns among it.            *)
Under(g) ==
  LET under[i \in DOMAIN pats] == pats[i].parent = g \/ (pats[i].parent # 0 /\ under[pats[i].parent])
  IN {i \in DOMAIN pats : under[i]}
Below(g) == {i \in Under(g) : pats[i].kind = "pattern"}

(* The widening of prop_masks (decodetree.py:557-570), which compares      *)
(* members with the first until none differs, ends with exactly the bits   *)
(* that all patterns below the group fix to one value, and with that       *)
(* value; none is lost, and none is left that some pattern has otherwise.  *)
GroupsAgree ==
  stage \in {"build", "built"} =>
    \A g \in Groups :
      /\ pats[g].mask =
           {b \in Bits : /\ \A i \in Below(g) : b \in pats[i].mask
                         /\ \A i, j \in Below(g) : (b \in pats[i].bits) = (b \in pats[j].bits)}
      /\ \A i \in Below(g) :
           pats[i].bits \intersect pats[g].mask = pats[g].bits \intersect pats[g].mask

Labels(path) == UNION {path[k] : k \in DOMAIN path}
GroupBits(g) == IF g = 0 THEN {} ELSE pats[g].bits \intersect pats[g].mask

(* What is written for a pattern from the way through a tree is the        *)
(* pattern: the outermask and outerbits collected for its BitPat           *)
(* (decodetree.py:646-652, 503-505), the disjunction of the case labels    *)
(* that output_encoding makes its opcode (674-681), and what the C decoder *)
(* has tested when it gets there (710-718), with the bits of the group     *)
(* tested outside.  No bit is lost in a bin, and none is made up.          *)
LeavesExact ==
  \A l \in leaves :
    /\ l.mask = pats[l.pat].mask
    /\ Labels(l.path) \union GroupBits(l.group)
         = pats[l.pat].bits \intersect pats[l.pat].mask

(* Does the instruction match the pattern or group?                        *)
MatchesPat(insn, i) == insn \intersect pats[i].mask = pats[i].bits \intersect pats[i].mask

(* When the generator succeeds, no instruction matches two members of a    *)
(* group in brackets or of the file, and each member has its leaf: bins    *)
(* separate all of them, however deep, and an overlap always ends in the   *)
(* error (decodetree.py:741-751).                                          *)
Unambiguous ==
  stage = "built" =>
    \A g \in ExcGroups :
      /\ \A insn \in SUBSET Bits, i, j \in Children(g) :
           MatchesPat(insn, i) /\ MatchesPat(insn, j) => i = j
      /\ \A i \in Children(g) : \E l \in leaves : l.group = g /\ l.pat = i

(* Generation ends: each comparison of prop_masks drops a bit, and each    *)
(* call of __build_tree has more bits decided than its caller.             *)
Terminates == <>(stage \in {"built", "error"})

(* The field the decoder has for a name, and the value it passes to        *)
(* trans_*: the pattern's own assignment comes after the format's extract  *)
(* function.                                                               *)
Source(i, n) ==
  LET own == At(pats[i].flds, n)
  IN IF own # {} THEN pats[i].flds[First(own)].f
     ELSE formats[pats[i].fmt].flds[First(At(formats[pats[i].fmt].flds, n))].f
Passed(i, n, insn) == <<Source(i, n).func, str_extract(Source(i, n), insn)>>

(* The fields of the line, and those of the format it names.               *)
Written == {cur.flds[k] : k \in DOMAIN cur.flds} \union {FormatFlds[k] : k \in DOMAIN FormatFlds}
Read(d, insn) == <<d.f.func, str_extract(d.f, insn)>>
PatternAdded == Len(pats') > Len(pats) /\ pats'[Len(pats')].kind = "pattern"

(* Every field of a pattern's line, and of the format it names, has on     *)
(* every instruction the value the line gives it, although a format that   *)
(* looks alike may be used for several patterns: infer_format looks for    *)
(* one "with the same argument set and fields" (decodetree.py:946).        *)
ValuesKept ==
  [][ PatternAdded =>
        \A d \in Written, insn \in SUBSET Bits :
          Read(d, insn) = Passed(Len(pats), d.name, insn)' ]_vars

(* A compound of the bits of a plain field, in whatever order, through the *)
(* same function.                                                          *)
Rearranged(a, b) ==
  PlainToCompound(a, b) /\ FieldMask(a) = FieldMask(b) /\ FieldSign(a) = FieldSign(b)

(* The same, but for such fields, which are taken for each other           *)
(* (decodetree.py:234-235, 326-327).  No other difference between formats  *)
(* is overlooked.                                                          *)
ValuesKeptButPlain ==
  [][ PatternAdded =>
        \A d \in Written, insn \in SUBSET Bits :
          \/ Read(d, insn) = Passed(Len(pats), d.name, insn)'
          \/ Rearranged(d.f, Source(Len(pats), d.name)') ]_vars
=============================================================================
