------------------------------ MODULE MCPykeTop -----------------------------
(* Simulations of assembled programs: every short program over a few lines *)
(* and the repository's own tests.                                         *)
EXTENDS PykeTop, TLC

(* The files of the runs are assembled ones.                               *)
ASSUME FilesAssembled == Assembled /\ StartsClean

(* The programs for two lanes keep the programmer's machine's conditions;  *)
(* that of the four-lane run stores in a lane that cannot.                 *)
ASSUME TwoLanesWellFormed == Len(LaneNames) = 2 <=> Core!AllWellFormed

-----------------------------------------------------------------------------
(* A taken branch continues at the line its label stands before: the       *)
(* "bne %1 %3 :fail" of sw/asm/2Lane/xor.S:10, Instr.txt:114 "pc = pc +     *)
(* $target if %s1 != %s2".  The assembler puts a label on a line of its    *)
(* own one line late (asm.py:109), counts four bytes a line and divides    *)
(* the distance by the line's length (asm.py:159, decodetree.py:395-398),   *)
(* and the lane adds bits 7 to 4, twice the field (Lane.scala:116).        *)
TextOf(h) == CHOOSE t \in Texts : Hex(t) = h
LabelAddress(text, l) ==
  LET p == CHOOSE q \in 1..Len(text) : text[q].label = l
  IN Load!LoadBase
     + InsnLenBytes * Cardinality({q \in 1..(p - 1) : text[q].insns # <<>>})

BranchReachesLabel ==
  LET k == ((pc - Load!LoadBase) \div InsnLenBytes) + 1
      branch == SourceOf[hex][k][1]
      atom == Core!Fetch([i \in Core!Lanes |-> NOP])[1]
  IN /\ stage = "run"
     /\ k \in 1..Len(SourceOf[hex])
     /\ branch.op = "bne" /\ rf[branch.rs1] # rf[branch.rs2]
     => Core!pc_next(1, atom) = LabelAddress(TextOf(hex), branch.label)

-----------------------------------------------------------------------------
(* Values of the constants.                                                *)

MCTwoLanes == <<"BranchALULane", "MemALULane">>
MCFourLanes == <<"BranchALULane", "MemALULane", "MemALULane", "MemALULane">>
MCBytes == 0..255
MCZeroRegs == {[r \in 1..15 |-> 0]}
MCZeroMem == {[m \in 0..(DmemSize - 1) |-> 0]}
MCImages == {Hex(t) : t \in Texts}
MCGarbage == {NOP}

Rrr(op, d, a, b) == [op |-> op, rd |-> d, rs1 |-> a, rs2 |-> b, imm |-> 0, label |-> ""]
Rri(op, d, a, v) == [op |-> op, rd |-> d, rs1 |-> a, rs2 |-> 0, imm |-> v, label |-> ""]
Rrs(op, b, a, v) == [op |-> op, rd |-> 0, rs1 |-> a, rs2 |-> b, imm |-> v, label |-> ""]
Rrl(op, a, b, l) == [op |-> op, rd |-> 0, rs1 |-> a, rs2 |-> b, imm |-> 0, label |-> l]
Text(insns) == [org |-> 0, label |-> "", insns |-> insns]
Org(addr) == [org |-> addr, label |-> "", insns |-> <<>>]
Label(l) == [org |-> 0, label |-> l, insns |-> <<>>]

(* Short programs: with a data memory of three words, register 11 is made  *)
(* to point at the last one and register 2 is stored there.                *)
ShortLines ==
  {<<Rri("addi", 11, 0, 8), Rri("addi", 2, 0, v)>> : v \in 1..3}
  \union {<<Rrr("add", 0, 0, 0), Rrs("sw", 2, 11, 0)>>,
          <<Rri("addi", 2, 2, 1), Rrs("sw", 2, 11, 0)>>}
FirstLine(v) == Text(<<Rri("addi", 11, 0, 8), Rri("addi", 2, 0, v)>>)
(* Three lines, and four, which fill the instruction memory.               *)
MCShortTexts ==
  {<<FirstLine(v), Text(l), Text(m)>> : v \in 0..3, l, m \in ShortLines}
  \union {<<FirstLine(1), Text(l), Text(l), Text(m)>> : l, m \in ShortLines}

(* A program that writes 3, and 1 two lines later.                         *)
Store == Text(<<Rrr("add", 0, 0, 0), Rrs("sw", 2, 11, 0)>>)
MCSuccessThenFail == {<<FirstLine(3), Store, FirstLine(1), Store>>}

(* sw/asm/2Lane/makros.S.inc, simple.S and xor.S, with what xor.S expects.  *)
LOAD_RESULT_ADDR(reg) ==
  <<Text(<<Rri("addi", 11, 0, 5), Rri("addi", 13, 0, 15)>>),
    Text(<<Rri("slli", 11, 11, 13), Rrr("add", 0, 0, 0)>>),
    Text(<<Rri("slli", 13, 13, 6), Rri("addi", 14, 0, 1)>>),
    Text(<<Rri("addi", 12, 0, 7), Rri("slli", 14, 14, 5)>>),
    Text(<<Rrr("add", 13, 13, 14), Rrr("add", 11, 11, 12)>>),
    Text(<<Rrr("add", 11, 11, 13), Rrr("xor", 1, 1, 2)>>),
    Text(<<Rri("slli", reg, 11, 2)>>)>>

simple ==
  <<Org(32768), Label("start")>> \o LOAD_RESULT_ADDR(11) \o
  <<Text(<<Rri("addi", 2, 0, 2)>>),
    Text(<<Rrl("jr", 0, 0, "start"), Rrs("sw", 2, 11, 0)>>)>>

XorTest(expected) ==
  <<Org(32768)>> \o LOAD_RESULT_ADDR(11) \o
  <<Label("test1"),
    Text(<<Rri("addi", 1, 0, 4), Rri("addi", 2, 0, 7)>>),
    Text(<<Rri("addi", 3, 0, expected), Rrr("xor", 1, 1, 2)>>),
    Text(<<Rrl("bne", 1, 3, "fail"), Rri("addi", 2, 0, 2)>>),
    Label("success"),
    Text(<<Rrr("add", 0, 0, 0), Rrs("sw", 2, 11, 0)>>),
    Label("fail"),
    Text(<<Rri("addi", 2, 0, 1)>>),
    Text(<<Rrr("add", 0, 0, 0), Rrs("sw", 2, 11, 0)>>)>>

MCTests == {simple, XorTest(3)}
MCSimple == {simple}
MCFailingXor == {XorTest(4)}   \* the comparison of the test fails
=============================================================================
