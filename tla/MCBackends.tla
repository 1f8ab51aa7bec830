----------------------------- MODULE MCBackends -----------------------------
(* The tools from pyke32.decode, and from small files only they can refuse,*)
(* to assembled lines.                                                     *)
EXTENDS Backends, TLC

Asm == INSTANCE PykeAsm WITH AtomsPerInsn <- 2

-----------------------------------------------------------------------------
(* resources/isa/pyke32.decode.                                            *)
Ln(ts) == [blank |-> FALSE, indent |-> 0, toks |-> ts, more |-> FALSE]
N(kind, nm) == [kind |-> kind, name |-> nm]
Pos(p, n, s) == [kind |-> "pos", pos |-> p, len |-> n, sign |-> s]
D(ds) == [kind |-> "bits", digits |-> ds]
Dots(n) == D([k \in 1..n |-> "."])
Zeros(n) == D([k \in 1..n |-> "0"])
Binary(v, n) == D([k \in 1..n |-> IF (v \div 2^(n - k)) % 2 = 1 THEN "1" ELSE "0"])

Fields32 ==
  <<Ln(<<N("%", "rd"), Pos(5, 5, FALSE)>>), Ln(<<N("%", "rs1"), Pos(10, 5, FALSE)>>),
    Ln(<<N("%", "rs2"), Pos(15, 5, FALSE)>>), Ln(<<N("%", "imm_i"), Pos(15, 17, FALSE)>>),
    Ln(<<N("%", "imm_s"), Pos(20, 12, FALSE), Pos(5, 5, FALSE)>>),
    Ln(<<N("%", "imm_l"), Pos(20, 12, TRUE), Pos(5, 5, FALSE)>>)>>
Operands(a) == CASE a = "rrr" -> <<"rd", "rs1", "rs2">> [] a = "rri" -> <<"rd", "rs1", "imm_i">>
                 [] a = "rrs" -> <<"rs2", "rs1", "imm_s">> [] a = "rrl" -> <<"rs1", "rs2", "imm_l">>
Args32(sets) == [k \in DOMAIN sets |->
                   Ln(<<N("&", sets[k])>> \o [n \in 1..3 |-> N("name", Operands(sets[k])[n])])]
Formats32(as, top) ==
  Ln(<<N("@", as), top, Dots(5), Dots(5), Dots(5), Dots(5), N("&", as)>>
     \o [n \in 1..3 |-> N("%", Operands(as)[4 - n])])
Ops == <<"add", "addi", "sub", "lw", "sw", "sll", "srl", "sra", "xor", "and",
         "or", "beq", "jr", "slli", "bne">>
Format32(op) ==
  CASE op \in Asm!RrrOps -> "rrr" [] op \in Asm!RriOps -> "rri"
    [] op \in Asm!RrsOps -> "rrs" [] op \in Asm!RrlOps -> "rrl"
Sets32 == <<"rrr", "rri", "rrs", "rrl">>

Pyke32 ==
  Fields32 \o Args32(Sets32)
  \o [k \in 1..4 |-> Formats32(Sets32[k], IF k = 1 THEN Binary(2048, 12) ELSE Dots(12))]
  \o [k \in 1..15 |-> Ln(<<N("name", Ops[k]), Dots(12), Dots(5), Dots(5), Dots(5),
                           Binary(k - 1, 5), N("@", Format32(Ops[k]))>>)]

(* Files that one backend or the other cannot use: no patterns, groups, an *)
(* unknown operand, a compound register, a branch distance behind a        *)
(* function, a set without a format of its name, in the middle or at the   *)
(* end, one without operands before others.                                *)
Nop(k) == Ln(<<N("name", "nop"), Zeros(31), Binary(k, 1)>>)
Load(rest) == Ln(<<N("name", "lw"), Zeros(26), Dots(5), Binary(1, 1)>> \o rest)
Small ==
  {<<>>, <<Ln(<<[kind |-> "{"]>>), [Nop(0) EXCEPT !.indent = 2], Ln(<<[kind |-> "}"]>>)>>,
   <<Ln(<<N("%", "x"), Pos(1, 5, FALSE)>>), Load(<<N("%", "x")>>)>>,
   <<Ln(<<N("%", "rd"), Pos(3, 3, FALSE), Pos(1, 2, FALSE)>>), Load(<<N("%", "rd")>>)>>,
   <<Ln(<<N("%", "imm_l"), Pos(1, 5, FALSE), [kind |-> "function", func |-> "f"]>>),
     Load(<<N("%", "imm_l")>>)>>,
   <<Ln(<<N("%", "rd"), Pos(1, 5, FALSE)>>), Load(<<N("%", "rd")>>)>>,
   <<Nop(0), Ln(<<N("%", "rd"), Pos(1, 5, FALSE)>>), Ln(<<N("&", "rri"), N("name", "rd")>>),
     Load(<<N("%", "rd"), N("&", "rri")>>)>>,
   <<Ln(<<N("&", "a")>>), Ln(<<N("@", "a"), Zeros(31), Dots(1), N("&", "a")>>),
     Ln(<<N("name", "nop"), Dots(31), Zeros(1), N("@", "a")>>),
     Ln(<<N("%", "rd"), Pos(1, 5, FALSE)>>), Ln(<<N("&", "rri"), N("name", "rd")>>),
     Load(<<N("%", "rd"), N("&", "rri")>>)>>}

-----------------------------------------------------------------------------
(* Sources of pyke32: lines as PykeAsm has them, and their words.          *)
W(kind) == [kind |-> kind]
Reg(v) == [kind |-> "reg", val |-> v]
Words(i) ==
  <<N("op", i.op)>> \o
  CASE i.op \in Asm!RrrOps -> <<Reg(i.rd), Reg(i.rs1), Reg(i.rs2)>>
    [] i.op \in Asm!RriOps -> <<Reg(i.rd), Reg(i.rs1), [kind |-> "imm", val |-> i.imm]>>
    [] i.op \in Asm!RrsOps -> <<Reg(i.rs2), Reg(i.rs1), [kind |-> "imm", val |-> i.imm]>>
    [] i.op \in Asm!RrlOps -> <<Reg(i.rs1), Reg(i.rs2), N("label", i.label)>>
Bundle(is) ==
  LET upto[k \in 0..Len(is)] ==
        IF k = 0 THEN <<>>
        ELSE upto[k - 1] \o (IF k = 1 THEN <<>> ELSE <<W("|")>>) \o Words(is[k])
  IN upto[Len(is)]
LineWords(l) ==
  (IF l.org = 0 THEN <<>> ELSE <<W(".org"), [kind |-> "int", val |-> l.org]>>)
  \o (IF l.label = "" THEN <<>> ELSE <<N(":", l.label)>>) \o Bundle(l.insns)
SourceOf(p) == [k \in DOMAIN p |-> LineWords(p[k])]

Insn(op, rd, rs1, rs2, imm, l) ==
  [op |-> op, rd |-> rd, rs1 |-> rs1, rs2 |-> rs2, imm |-> imm, label |-> l]
L(org, l, is) == [org |-> org, label |-> l, insns |-> is]
Simple == {Insn(op, 1, 2, 14, 0, "") : op \in Asm!RrrOps}
            \union {Insn(op, 14, 1, 0, v, "") : op \in Asm!RriOps, v \in {5, 131071}}
            \union {Insn("sw", 0, 1, 2, 31, "")}
Edges == {Insn("add", 15, 0, 0, 0, ""), Insn("sub", 0, -1, 0, 0, ""),
          Insn("addi", 1, 1, 0, 131072, ""), Insn("addi", 1, 1, 0, -1, ""),
          Insn("sw", 0, 1, 2, 32, ""), Insn("add", 0, 0, 0, 0, "")}
Branch(op) == Insn(op, 0, 1, 2, 0, "x")
Some == {Insn("xor", 1, 2, 3, 0, ""), Insn("lw", 4, 5, 0, 40, ""), Branch("bne"), Branch("jr"),
         Insn("sw", 0, 1, 2, 31, ""), Insn("addi", 1, 2, 0, 131071, "")}

Programs ==
  {<<L(0, "", <<a>>)>> : a \in Simple \union Edges}
  \union {<<L(o, l, <<a, b>>)>> : o \in {0, 8}, l \in {"", "x"}, a, b \in Some}
  \union {<<L(0, "", <<a, b, c>>)>> : a, b, c \in Some}
  \union {<<L(0, "", <<a>>), L(0, "x", is), L(0, "y", <<b>>), L(0, "x", js)>> :
            a, b \in Some, is, js \in {<<>>, <<Branch("beq")>>}}
  \union {<<L(o, "x", <<a>>), L(0, "", <<Branch("bne")>>), L(q, "", <<Branch("beq")>>)>> :
            o \in {0, 64, 128}, q \in {0, 96, 256, 260}, a \in Some}
Texts == [p \in Programs |-> SourceOf(p)]

(* Lines that no program of PykeAsm is written as.                         *)
add == Words(Insn("add", 1, 2, 3, 0, ""))
nop == <<N("op", "nop")>>
Odd ==
  {<<>>, <<<<>>, add>>, <<add \o <<W("|")>>>>, <<add \o add>>, <<<<W("|")>> \o add>>,
   <<SubSeq(add, 1, 3)>>, <<<<W("junk")>>>>, <<<<W("directive")>>>>, <<<<W(".org")>>>>,
   <<<<W(".org"), Reg(1)>>>>, <<<<N("op", "mul")>>>>, <<<<add[1], W("|")>>>>,
   <<<<N(":", "x"), W(".org"), [kind |-> "int", val |-> 64]>> \o Bundle(<<Branch("jr")>>)>>,
   <<add \o <<W("|"), W(".org"), [kind |-> "int", val |-> 64]>>>>,
   <<nop>>, <<<<N("op", "lw"), Reg(3)>>>>, <<<<N("op", "lw"), Reg(3), W("|")>> \o nop>>,
   <<nop \o <<W("|")>> \o nop \o <<W("|")>> \o nop>>}

MCWidth == 32
MCFiles == {Pyke32} \union Small
MCPyke32 == {Pyke32}
MCSources == {Texts[p] : p \in Programs} \union Odd
MCNames == <<"a", "", "rri", "rrl", "rrr", "rrs">>
MCImm == {"imm_i", "imm_s"}
MCSrc == {"rs1", "rs2"}
MCDst == {"rd"}
MCLabel == {"imm_l"}

-----------------------------------------------------------------------------
OneBits(atom) ==
  {b \in 0..23 : (atom.lo \div 2^b) % 2 = 1}
  \union {b \in 24..31 : (atom.top \div 2^(b - 24)) % 2 = 1}
Samples ==
  {[lo |-> op + 32 * mid + 1048576 * (hi % 16), top |-> hi \div 16] :
     op \in 0..31, mid \in {0, 21845, 32767}, hi \in {0, 1, 2047, 2048, 2049, 4095}}

IsPyke32 == Cardinality({l.pat : l \in entries}) = Len(Ops)
RegAddr(range, atom) ==
  str_extract(FieldIn(<<Part(range.min, range.max - range.min + 1, FALSE)>>, ""), OneBits(atom))

(* What decodetree.py generates from pyke32.decode is what the lanes decode*)
(* by: a BitPat matches an instruction exactly if the decode table has a   *)
(* row for it, and the getters of register addresses, which go by the order*)
(* of the fields in the file, cut rs1, rs2 and rd out of it                *)
(* (decodetree.py:1443-1468).                                              *)
TableIsGenerated ==
  phase = "start" /\ hw # NoTable /\ IsPyke32 =>
    \A atom \in Samples :
      /\ \A p \in hw.bitpats :
           OneBits(atom) \intersect p.mask = p.bits
             <=> Asm!Matches(atom) /\ Ops[Asm!Opcode(atom) + 1] = p.name
      /\ [k \in DOMAIN hw.srcRegs |-> RegAddr(hw.srcRegs[k], atom)]
           = <<Asm!Rs1(atom), Asm!Rs2(atom)>>
      /\ [k \in DOMAIN hw.dstRegs |-> RegAddr(hw.dstRegs[k], atom)] = <<Asm!Rd(atom)>>

(* pyke32.decode keeps to what an operand needs to read back.              *)
Pyke32Invertible == stage = "built" /\ IsPyke32 => Invertible

(* The assembler the whole system is checked with is this one: asm.py with *)
(* the generated backend accepts a program exactly if PykeAsm does, and    *)
(* then writes the same lines; labels get the address of the current or of *)
(* the next line by the number of words behind them (asm.py:106-109).      *)
AssemblesAs ==
  phase \in {"done", "failed"} /\ IsPyke32 =>
    \A p \in Programs :
      Texts[p] = source =>
        /\ phase = "done" <=> Asm!Accepts(p)
        /\ phase = "done" =>
             asm = [k \in DOMAIN Asm!Assemble(p) |->
                      [j \in 1..2 |-> OneBits(Asm!Assemble(p)[k][j])]]
=============================================================================
