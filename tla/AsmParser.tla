----------------------------- MODULE AsmParser ------------------------------
(***************************************************************************)
(* tools/asm/asm.py, token by token: parse_line with the parse_instruction *)
(* of the generated backend, the two passes over the VLIW lines, and the   *)
(* output.  A word of a line is a record of its kind; an encoded           *)
(* instruction is the set of its bits that are one.  Every error, and      *)
(* every exception, ends the program: phase "failed".                      *)
(***************************************************************************)
EXTENDS Fields, FiniteSets

CONSTANT Sources   \* the sources to assemble: sequences of lines of words

VARIABLES
  be,            \* the generated backend, or NoBackend
  source,        \* Parser.lines
  linenum,       \* Parser.linenum
  words,         \* the tokens of the line not consumed yet
  current_addr,
  labels,        \* the labels defined, to their addresses
  insns,         \* the instructions of the line
  left,          \* the operands parse_instruction has still to consume
  vliw_insn,     \* the VLIW lines
  asm,           \* their encodings, as they are written
  phase

asmVars == <<source, linenum, words, current_addr, labels, insns, left, vliw_insn, asm, phase>>

Word ==
  [kind : {"|", ".org", "directive", "junk"}]
  \union [kind : {"op", ":", "label"}, name : STRING]
  \union [kind : {"reg", "imm", "int"}, val : Int]

ASSUME SourcesAssumption == Sources \subseteq Seq(Seq(Word))

-----------------------------------------------------------------------------
(* The backend: the argument sets in the order of the generated if chain,  *)
(* with their operands (a name and what parse_fn takes it for), mnemonics  *)
(* and, if there is a format of the set's name, its fields; whether a      *)
(* mnemonic of the set reaches the chain's "else"; the opcodes; and the    *)
(* limit and the shift of branch distances.                                *)

NoBackend == [sets |-> <<>>]

instructions == UNION {be.sets[k].ops : k \in DOMAIN be.sets}
SetOf(op) == CHOOSE k \in DOMAIN be.sets :
               op \in be.sets[k].ops /\ \A j \in 1..(k - 1) : op \notin be.sets[j].ops

AsmInit ==
  /\ be = NoBackend
  /\ source = <<>> /\ linenum = 0 /\ words = <<>>
  /\ current_addr = 0 /\ labels = <<>>
  /\ insns = <<>> /\ left = <<>> /\ vliw_insn = <<>> /\ asm = <<>>
  /\ phase = "start"

OpenSource ==
  /\ phase = "start" /\ be # NoBackend
  /\ source' \in Sources
  /\ phase' = "parse"
  /\ UNCHANGED <<be, linenum, words, current_addr, labels, insns, left, vliw_insn, asm>>

AsmFail == phase' = "failed" /\ UNCHANGED <<be, source, linenum, words, current_addr, labels,
                                           insns, left, vliw_insn, asm>>

-----------------------------------------------------------------------------
(* parse_line.                                                             *)

NextLine ==
  /\ phase = "parse" /\ linenum < Len(source)
  /\ linenum' = linenum + 1
  /\ words' = source[linenum + 1]
  /\ insns' = <<>>
  /\ phase' = "line"
  /\ UNCHANGED <<be, source, current_addr, labels, left, vliw_insn, asm>>

EndOfLine ==
  /\ phase = "line" /\ words = <<>>
  /\ IF insns = <<>> THEN UNCHANGED <<vliw_insn, current_addr>>
     ELSE /\ vliw_insn' = Append(vliw_insn, [addr |-> current_addr, insns |-> insns])
          /\ current_addr' = current_addr + 4
  /\ phase' = "parse"
  /\ UNCHANGED <<be, source, linenum, words, labels, insns, left, asm>>

t == Head(words)
Sees(kinds) == phase = "line" /\ words # <<>> /\ t.kind \in kinds

(* A label of its own gets the address behind the line it stands before;   *)
(* so does one before a single word.                                       *)
label_pcSame == current_addr   \* mutant: always this line's
label_pc == IF Len(words) > 2 THEN current_addr ELSE current_addr + 4

DefineLabel ==
  /\ Sees({":"})
  /\ labels' = [l \in DOMAIN labels \union {t.name} |->
                  IF l = t.name THEN label_pc ELSE labels[l]]
  /\ words' = Tail(words)
  /\ UNCHANGED <<be, source, linenum, current_addr, insns, left, vliw_insn, asm, phase>>

OrgAddr == Len(words) > 1 /\ words[2].kind = "int"

SetAddr ==
  /\ Sees({".org"}) /\ OrgAddr
  /\ current_addr' = words[2].val
  /\ words' = Tail(Tail(words))
  /\ UNCHANGED <<be, source, linenum, labels, insns, left, vliw_insn, asm, phase>>

StartInsn ==
  /\ Sees({"op"}) /\ t.name \in instructions
  /\ insns' = Append(insns, [op |-> t.name, val |-> <<>>, label |-> ""])
  /\ left' = be.sets[SetOf(t.name)].args
  /\ words' = Tail(words)
  /\ phase' = "operands"
  /\ UNCHANGED <<be, source, linenum, current_addr, labels, vliw_insn, asm>>

BadWord ==
  /\ \/ Sees({"directive", "junk", "|", "label", "reg", "imm", "int"})
     \/ Sees({".org"}) /\ ~ OrgAddr
     \/ Sees({"op"}) /\ t.name \notin instructions
  /\ AsmFail

-----------------------------------------------------------------------------
(* parse_instruction: each operand is the next word, which must be there.  *)

this == insns[Len(insns)]

(* Below 15, also below 0.                                                 *)
parse_reg_ok(reg) == reg < 15

IsOperand(as) ==
  /\ words # <<>> /\ t.kind = as
  /\ as = "reg" => parse_reg_ok(t.val)

Operand ==
  /\ phase = "operands" /\ left # <<>> /\ IsOperand(Head(left).as)
  /\ insns' =
       [insns EXCEPT ![Len(insns)] =
          IF Head(left).as = "label" THEN [this EXCEPT !.label = t.name]
          ELSE [this EXCEPT !.val = [n \in DOMAIN @ \union {Head(left).name} |->
                                       IF n = Head(left).name THEN t.val ELSE @[n]]]]
  /\ left' = Tail(left) /\ words' = Tail(words)
  /\ UNCHANGED <<be, source, linenum, current_addr, labels, vliw_insn, asm, phase>>

BadOperand ==
  /\ phase = "operands" /\ left # <<>> /\ ~ IsOperand(Head(left).as)
  /\ AsmFail

(* The bar after an instruction may be the last word.                      *)
EndOfInsn ==
  /\ phase = "operands" /\ left = <<>>
  /\ ~ be.sets[SetOf(this.op)].falls
  /\ words # <<>> => t.kind = "|"
  /\ words' = IF words = <<>> THEN <<>> ELSE Tail(words)
  /\ phase' = "line"
  /\ UNCHANGED <<be, source, linenum, current_addr, labels, insns, left, vliw_insn, asm>>

NoBar ==
  /\ phase = "operands" /\ left = <<>>
  /\ \/ be.sets[SetOf(this.op)].falls
     \/ words # <<>> /\ t.kind # "|"
  /\ AsmFail

-----------------------------------------------------------------------------
(* resolve_branches and encode_insn, over all lines; each ends the program *)
(* with the first instruction it refuses.                                  *)

SetAt(i) == be.sets[SetOf(i.op)]
Branches(v) == {k \in DOMAIN v.insns : SetAt(v.insns[k]).limit # 0}
Distance(v, k) == labels[v.insns[k].label] - v.addr

(* The range check of the generated resolve_br_label.                      *)
InRange(v, k) ==
  /\ v.insns[k].label \in DOMAIN labels
  /\ Distance(v, k) < SetAt(v.insns[k]).limit
  /\ - Distance(v, k) < SetAt(v.insns[k]).limit

Resolves(v) == \A k \in Branches(v) : InRange(v, k)

(* The shifted distance is the value of the label's operand.               *)
Resolved(v, k) ==
  LET i == v.insns[k]
      n == SetAt(i).target
  IN IF k \notin Branches(v) THEN i
     ELSE [i EXCEPT !.val = [m \in DOMAIN @ \union {n} |->
                               IF m = n THEN Distance(v, k) \div be.bytes ELSE @[m]]]

ResolveBranches ==
  /\ phase = "parse" /\ linenum = Len(source)
  /\ \A k \in DOMAIN vliw_insn : Resolves(vliw_insn[k])
  /\ vliw_insn' = [k \in DOMAIN vliw_insn |->
                     [vliw_insn[k] EXCEPT !.insns =
                        [j \in DOMAIN @ |-> Resolved(vliw_insn[k], j)]]]
  /\ phase' = "encode"
  /\ UNCHANGED <<be, source, linenum, words, current_addr, labels, insns, left, asm>>

BadBranch ==
  /\ phase = "parse" /\ linenum = Len(source)
  /\ \E k \in DOMAIN vliw_insn : ~ Resolves(vliw_insn[k])
  /\ AsmFail

(* encode() of an instruction: the format of its argument set's name; none *)
(* gives no number.                                                        *)
EncodesInsn(i) ==
  /\ SetAt(i).encodes
  /\ \A k \in DOMAIN SetAt(i).flds :
       Encodes(SetAt(i).flds[k].f, i.val[SetAt(i).flds[k].name])

encode(i) ==
  be.opcode[i.op]
    \union UNION {str_encode(SetAt(i).flds[k].f, i.val[SetAt(i).flds[k].name]) :
                    k \in DOMAIN SetAt(i).flds}

(* More instructions than lanes do not fit into the bytes of a line, if    *)
(* those too many have a bit that is one.                                  *)
EncodesLine(v) ==
  /\ \A k \in DOMAIN v.insns : EncodesInsn(v.insns[k])
  /\ \A k \in DOMAIN v.insns : k > be.atomPerInsn => encode(v.insns[k]) = {}

Lanes(v) ==
  [k \in 1..be.atomPerInsn |-> IF k <= Len(v.insns) THEN encode(v.insns[k]) ELSE {}]

(* The output file is opened when everything is encoded.                   *)
EncodeInsns ==
  /\ phase = "encode"
  /\ \A k \in DOMAIN vliw_insn : EncodesLine(vliw_insn[k])
  /\ asm' = [k \in DOMAIN vliw_insn |-> Lanes(vliw_insn[k])]
  /\ phase' = "done"
  /\ UNCHANGED <<be, source, linenum, words, current_addr, labels, insns, left, vliw_insn>>

BadEncoding ==
  /\ phase = "encode"
  /\ \E k \in DOMAIN vliw_insn : ~ EncodesLine(vliw_insn[k])
  /\ AsmFail

AsmNext ==
  \/ OpenSource \/ NextLine \/ EndOfLine
  \/ DefineLabel \/ SetAddr \/ StartInsn \/ BadWord
  \/ Operand \/ BadOperand \/ EndOfInsn \/ NoBar
  \/ ResolveBranches \/ BadBranch \/ EncodeInsns \/ BadEncoding
=============================================================================
