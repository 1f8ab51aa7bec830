------------------------------ MODULE Backends ------------------------------
(***************************************************************************)
(* decodetree.py --hw and --asm, and what is built from their output: the  *)
(* instruction patterns and register ranges of the hardware decoder, and   *)
(* the assembler with the generated backend.  The build runs the generator *)
(* once for each; both runs read the same file.                            *)
(***************************************************************************)
EXTENDS DecodeTree, AsmParser

CONSTANTS
  NameOrder,     \* the names of argument sets, as sorted() orders them; "" stands
                 \* for those made up
  imm_fields, reg_src_fields, reg_dst_fields, label_fields,   \* decoder: in the .yml file
  atomPerInsn    \* isa: in the .yml file; atomLen is Width

VARIABLE hw      \* the generated Instructions and InsnFieldExtractor, or NoTable

toolVars == <<vars, asmVars, be, hw>>

ASSUME ConfigAssumption ==
  /\ \A S \in {imm_fields, reg_src_fields, reg_dst_fields, label_fields} : S \subseteq STRING
  /\ atomPerInsn \in Nat \ {0}

NoTable == [bitpats |-> {}]

-----------------------------------------------------------------------------
(* Both backends walk the file's tree.  Groups have no output_hw_recursive *)
(* and no output_encoding.  A subtree opens an entry for each of its        *)
(* patterns, but the end of an entry is written once for each case of the  *)
(* root (decodetree.py:651-653, 678-679): with two in a case the text      *)
(* cannot be read.                                                         *)

entries == {l \in leaves : l.group = 0}
Readable ==
  /\ \A l \in entries : pats[l.pat].kind = "pattern"
  /\ Cardinality({l.path[1] : l \in entries}) = Cardinality(entries)

(* A register field is a plain one: a compound or a function has no pos.   *)
Plain(f) == Len(f.subs) = 1 /\ f.func = ""

Ranges(S) ==
  LET regs == SelectSeq(fields, LAMBDA d : d.name \in S)
  IN [k \in DOMAIN regs |->
        [max |-> regs[k].f.subs[1].pos + regs[k].f.subs[1].len - 1,
         min |-> regs[k].f.subs[1].pos]]

HasTable ==
  /\ Readable
  /\ \A k \in DOMAIN fields :
       fields[k].name \in reg_src_fields \union reg_dst_fields => Plain(fields[k].f)

output_hw ==
  /\ stage = "built" /\ hw = NoTable /\ HasTable
  /\ hw' = [bitpats |-> {[name |-> pats[l.pat].name, mask |-> l.mask,
                          bits |-> UNION {l.path[k] : k \in DOMAIN l.path}] : l \in entries},
            srcRegs |-> Ranges(reg_src_fields), dstRegs |-> Ranges(reg_dst_fields)]
  /\ UNCHANGED <<vars, asmVars, be>>

NoHw ==
  /\ stage = "built" /\ hw = NoTable /\ ~ HasTable
  /\ stage' = "error"
  /\ UNCHANGED <<parseVars, treeVars, asmVars, be, hw>>

-----------------------------------------------------------------------------
(* output_asm_be.                                                          *)

reg_fields == reg_src_fields \union reg_dst_fields
Kind(n) == IF n \in reg_fields THEN "reg" ELSE IF n \in imm_fields THEN "imm" ELSE "label"

LabelFields(a) == ArgNames(a) \intersect label_fields
FieldNamed(n) == fields[First(At(fields, n))].f

Log2(n) == CHOOSE k \in 0..n : TwoTo[k] <= n /\ n < TwoTo[k + 1]
insn_byte_shift == TwoTo[Log2((Width * atomPerInsn) \div 8)]
Size(f) == IF FieldSign(f) THEN FieldLen(f) - 1 ELSE FieldLen(f)

(* sorted(arguments.keys()).                                               *)
Rank(k) == CHOOSE r \in DOMAIN NameOrder : NameOrder[r] = arguments[k].name
Place(k) == Cardinality({j \in DOMAIN arguments : Rank(j) < Rank(k) \/ (Rank(j) = Rank(k) /\ j <= k)})
Sorted == [p \in DOMAIN arguments |-> CHOOSE k \in DOMAIN arguments : Place(k) = p]

(* encode() takes the format that has the argument set's name, whatever    *)
(* formats the patterns have.  If there is none, its "return" has no end,  *)
(* and the file cannot be read unless it is the last one.                  *)
OwnFormatOther(a) ==   \* mutant: another format of the generator's
  {k \in DOMAIN formats : a.name # "" /\ formats[k].name # a.name}
OwnFormat(a) == {k \in At(formats, a.name) : a.name # ""}

Encodable(f) == f.subs # <<>> /\ f.func = ""

(* The limit of a branch is made of the length of its field, which a field *)
(* behind a function has not.                                              *)
HasBackend ==
  /\ Readable /\ entries # {}
  /\ \A p \in DOMAIN Sorted :
       LET a == arguments[Sorted[p]]
       IN /\ ArgNames(a) \subseteq reg_fields \union imm_fields \union label_fields
          /\ Cardinality(LabelFields(a)) <= 1
          /\ LabelFields(a) \subseteq Names(fields)
          /\ \A n \in LabelFields(a) : FieldNamed(n).func = ""
          /\ OwnFormat(a) = {} => p = Len(Sorted)
          /\ \A j \in OwnFormat(a) :
               \A d \in DOMAIN formats[j].flds : Encodable(formats[j].flds[d].f)

(* Only a set with operands makes the next one an elif: the else at the    *)
(* end is not the ifs' before the first such set, and refuses their        *)
(* instructions.                                                           *)
Falls(p) == \E q \in DOMAIN Sorted :
              /\ p < q
              /\ \A r \in 1..(q - 1) : arguments[Sorted[r]].fields = <<>>

target(a) == CHOOSE n \in LabelFields(a) : TRUE
Limit(a) == IF LabelFields(a) = {} THEN 0
            ELSE TwoTo[Size(FieldNamed(target(a)))] * insn_byte_shift

(* The patterns whose format is of the argument set.                       *)
Mnemonics(k) == {pats[i].name : i \in {j \in DOMAIN pats : /\ pats[j].kind = "pattern"
                                                           /\ formats[pats[j].fmt].base = k}}

SetBackend(k) ==
  LET a == arguments[k]
  IN [args |-> [n \in DOMAIN a.fields |-> [name |-> a.fields[n], as |-> Kind(a.fields[n])]],
      ops |-> Mnemonics(k),
      falls |-> Falls(Place(k)),
      encodes |-> OwnFormat(a) # {},
      flds |-> IF OwnFormat(a) = {} THEN <<>> ELSE formats[First(OwnFormat(a))].flds,
      target |-> IF LabelFields(a) = {} THEN "" ELSE target(a),
      limit |-> Limit(a)]

(* encode_op; a mnemonic is taken to be the name of one pattern only.      *)
Opcode(op) == UNION {UNION {l.path[k] : k \in DOMAIN l.path} :
                       l \in {m \in entries : pats[m.pat].name = op}}

Backend ==
  [sets |-> [p \in DOMAIN Sorted |-> SetBackend(Sorted[p])],
   opcode |-> [op \in {pats[l.pat].name : l \in entries} |-> Opcode(op)],
   atomPerInsn |-> atomPerInsn, bytes |-> insn_byte_shift]

output_asm_be ==
  /\ stage = "built" /\ be = NoBackend /\ HasBackend
  /\ be' = Backend
  /\ UNCHANGED <<vars, source, linenum, words, current_addr, labels, insns, left, vliw_insn,
                 asm, phase, hw>>

NoBe ==
  /\ stage = "built" /\ be = NoBackend /\ ~ HasBackend
  /\ stage' = "error"
  /\ UNCHANGED <<parseVars, treeVars, asmVars, be, hw>>

-----------------------------------------------------------------------------
ToolsInit == Init /\ TreeInit /\ AsmInit /\ hw = NoTable

ToolsNext ==
  \/ Generate /\ UNCHANGED <<asmVars, be, hw>>
  \/ output_hw \/ NoHw \/ output_asm_be \/ NoBe
  \/ hw # NoTable /\ AsmNext /\ UNCHANGED <<vars, hw>>

ToolsSpec == ToolsInit /\ [][ToolsNext]_toolVars /\ WF_toolVars(ToolsNext)

-----------------------------------------------------------------------------
(* The table of the hardware decoder is the file: it has a row for each    *)
(* pattern with the bits that the pattern fixes, although a row is put     *)
(* together from the way through the trees (decodetree.py:503-505,         *)
(* 646-652), and two rows differ in a bit that both fix, so that the       *)
(* decoder, which looks for one row that matches, finds no other.          *)
TableExact ==
  hw # NoTable =>
    /\ hw.bitpats = {[name |-> pats[i].name, mask |-> pats[i].mask,
                      bits |-> pats[i].bits \intersect pats[i].mask] : i \in DOMAIN pats}
    /\ \A r, s \in hw.bitpats :
         r = s \/ \E b \in r.mask \intersect s.mask : (b \in r.bits) # (b \in s.bits)

(* What asm.py has encoded is decoded again: of all patterns the one of    *)
(* the mnemonic matches, and every operand but a branch distance reads     *)
(* back as it was written.  The opcode comes from the labels of the tree,  *)
(* the operands go through the format named like the argument set          *)
(* (decodetree.py:1564), whatever format the pattern is of, and through    *)
(* Bits() piece by piece (228-232); the decoder uses the pattern's masks   *)
(* and its own format.                                                     *)
ReadsBack ==
  phase = "done" =>
    \A k \in DOMAIN vliw_insn :
      \A j \in DOMAIN vliw_insn[k].insns :
        LET i == vliw_insn[k].insns[j]
            bits == IF j <= atomPerInsn THEN asm[k][j] ELSE {}
        IN \A m \in entries :
             /\ MatchesPat(bits, m.pat) <=> pats[m.pat].name = i.op
             /\ pats[m.pat].name = i.op =>
                  \A n \in DOMAIN i.val \ label_fields :
                    Passed(m.pat, n, bits) = <<"", i.val[n]>>

(* What ReadsBack needs of a file, and the generator does not ask for: a   *)
(* name belongs to one pattern; the format that encodes an argument set    *)
(* decodes its patterns too, and leaves none of its fields to them; fields *)
(* share no bits; and a signed field other than a branch distance has one  *)
(* part, because each part's bits are cut from a value of the length of    *)
(* that part, where the sign is not extended (decodetree.py:228-232).      *)
Suits(i) ==
  LET k == pats[i].fmt
      flds == formats[k].flds
      own == OwnFormat(arguments[formats[k].base])
  IN own # {} =>
       /\ First(own) = k /\ pats[i].flds = <<>>
       /\ \A c, d \in DOMAIN flds :
            c # d => FieldMask(flds[c].f) \intersect FieldMask(flds[d].f) = {}
       /\ \A d \in DOMAIN flds :
            Len(flds[d].f.subs) > 1 /\ flds[d].name \notin label_fields
              => ~ FieldSign(flds[d].f)

Invertible ==
  /\ \A l, m \in entries : pats[l.pat].name = pats[m.pat].name => l.pat = m.pat
  /\ \A m \in entries : Suits(m.pat)

(* A branch that passes the generated range check "cannot fit into imm"    *)
(* (decodetree.py:394-397) fits: its distance is encoded, and reads back.  *)
BranchKept ==
  phase = "encode" =>
    \A k \in DOMAIN vliw_insn :
      \A j \in Branches(vliw_insn[k]) :
        LET i == vliw_insn[k].insns[j]
            f == FieldNamed(SetAt(i).target)
            off == i.val[SetAt(i).target]
        IN Encodes(f, off) /\ str_extract(f, str_encode(f, off)) = off
=============================================================================
