------------------------------- MODULE PykeIsa ------------------------------
(***************************************************************************)
(* The combinational parts of a lane: field extraction, the decode table   *)
(* (Decoder.scala over the patterns of pyke32.decode), the ALU and the     *)
(* branch unit.  An atom is one 32-bit instruction, held as its low 24     *)
(* bits and its top byte.  Decoder constants are their names.              *)
(***************************************************************************)
EXTENDS Integers, Sequences

WordSize == 65536           \* LaneIO, ALUIO and BranchUnitIO are 16 bits wide
Word == 0..(WordSize - 1)
TruncNot(x) == x            \* mutant: wires wider than the registers
Trunc(x) == x % WordSize
Signed(a) == IF a < 32768 THEN a ELSE a - 65536

(* The control codes of Constants.scala.                                   *)
Op1Sel == {"OP1_X", "OP1_RS1", "OP1_PC", "OP1_IMM"}
Op2Sel == {"OP2_X", "OP2_RS2", "OP2_IMM_I", "OP2_IMM_U", "OP2_IMM_S"}
AluOp == {"ALU_X", "ALU_ADD", "ALU_SUB", "ALU_AND", "ALU_OR", "ALU_XOR",
          "ALU_SLT", "ALU_SLTU", "ALU_SLL", "ALU_SRL", "ALU_SRA"}
MemOp == {"MEM_X", "MEM_LOAD", "MEM_LOAD_SEXT", "MEM_STORE"}
BranchOp == {"BR_N", "BR_EQ", "BR_NE", "BR_LT", "BR_LTU", "BR_GE", "BR_GEU",
             "BR_JAL", "BR_JALR"}
WbSel == {"WB_X", "WB_ALU", "WB_MEM", "WB_PC4", "WB_CSR"}

CtrlSignals == [valid : BOOLEAN, br : BranchOp, op1 : Op1Sel, op2 : Op2Sel,
                alu : AluOp, wr_reg : BOOLEAN, wb : WbSel, mem : MemOp]

-----------------------------------------------------------------------------
(* Atoms and their fields.                                                 *)

LoSize == 16777216
Atom == [lo : 0..(LoSize - 1), top : 0..255]
NOP == [lo |-> 0, top |-> 0]

(* Instruction bits h..l, for h below 24.                                  *)
Slice(atom, h, l) == (atom.lo \div 2^l) % 2^(h - l + 1)

Opcode(atom) == Slice(atom, 4, 0)
Rd(atom) == Slice(atom, 9, 5)
Rs1(atom) == Slice(atom, 14, 10)
Rs2(atom) == Slice(atom, 19, 15)
(* The rrr format also fixes the top twelve bits, to 100000000000.         *)
RrrFixed(atom) == atom.top = 128 /\ Slice(atom, 23, 20) = 0

(* The instruction patterns, in opcode order, and those of format rrr.     *)
Patterns == <<"ADD", "ADDI", "SUB", "LW", "SW", "SLL", "SRL", "SRA", "XOR",
              "AND", "OR", "BEQ", "JR", "SLLI", "BNE">>
RrrPatterns == {"ADD", "SUB", "SLL", "SRL", "SRA", "XOR", "AND", "OR"}

(* The patterns differ in the opcode, so at most one matches.              *)
Matches(atom) ==
  /\ Opcode(atom) < Len(Patterns)
  /\ Patterns[Opcode(atom) + 1] \in RrrPatterns => RrrFixed(atom)

-----------------------------------------------------------------------------
(* The decode table.                                                       *)

Row(v, br, op1, op2, alu, wr, wb, mem) ==
  [valid |-> v, br |-> br, op1 |-> op1, op2 |-> op2, alu |-> alu,
   wr_reg |-> wr, wb |-> wb, mem |-> mem]

RegReg(alu) == Row(TRUE, "BR_N", "OP1_RS1", "OP2_RS2", alu, TRUE, "WB_ALU", "MEM_X")
RegImm(alu) == Row(TRUE, "BR_N", "OP1_RS1", "OP2_IMM_I", alu, TRUE, "WB_ALU", "MEM_X")
Branch(br) == Row(TRUE, br, "OP1_RS1", "OP2_X", "ALU_X", FALSE, "WB_X", "MEM_X")

DefaultRow == Row(FALSE, "BR_N", "OP1_X", "OP2_X", "ALU_X", FALSE, "WB_X", "MEM_X")

DecodeTable ==
  [ADD |-> RegReg("ALU_ADD"), ADDI |-> RegImm("ALU_ADD"), SUB |-> RegReg("ALU_SUB"),
   LW |-> Row(TRUE, "BR_N", "OP1_RS1", "OP2_IMM_I", "ALU_ADD", TRUE, "WB_ALU", "MEM_LOAD"),
   SW |-> Row(TRUE, "BR_N", "OP1_RS1", "OP2_IMM_S", "ALU_ADD", FALSE, "WB_X", "MEM_STORE"),
   SLL |-> RegReg("ALU_SLL"), SLLI |-> RegImm("ALU_SLL"),
   SRL |-> RegReg("ALU_SRL"), SRA |-> RegReg("ALU_SRA"),
   XOR |-> RegReg("ALU_XOR"), AND |-> RegReg("ALU_AND"), OR |-> RegReg("ALU_OR"),
   BEQ |-> Branch("BR_EQ"), BNE |-> Branch("BR_NE"),
   JR |-> Row(TRUE, "BR_JALR", "OP1_RS1", "OP2_IMM_I", "ALU_ADD", TRUE, "WB_PC4", "MEM_X")]

Decode(atom) ==
  IF Matches(atom) THEN DecodeTable[Patterns[Opcode(atom) + 1]] ELSE DefaultRow

-----------------------------------------------------------------------------
(* The ALU.                                                                *)

Pow2 == <<1, 2, 4, 8, 16, 32, 64, 128, 256, 512, 1024, 2048, 4096, 8192,
          16384, 32768>>
Bit(x, i) == (x \div Pow2[i + 1]) % 2
Nibble(b, i) == b[i] + 2 * b[i + 1] + 4 * b[i + 2] + 8 * b[i + 3]
FromBits(b) ==
  Nibble(b, 0) + 16 * Nibble(b, 4) + 256 * Nibble(b, 8) + 4096 * Nibble(b, 12)

BitAnd(a, b) == FromBits([i \in 0..15 |-> IF Bit(a, i) = 1 THEN Bit(b, i) ELSE 0])
BitOr(a, b) == FromBits([i \in 0..15 |-> IF Bit(a, i) = 1 THEN 1 ELSE Bit(b, i)])
BitXor(a, b) == FromBits([i \in 0..15 |-> IF Bit(a, i) = Bit(b, i) THEN 0 ELSE 1])

(* ALUSimple: 16-bit operands, and a shift amount that is all of in2.      *)
AluOut(op, a, b) ==
  CASE op = "ALU_ADD" -> Trunc(a + b)
    [] op = "ALU_SUB" -> Trunc(a - b)
    [] op = "ALU_OR" -> BitOr(a, b)
    [] op = "ALU_AND" -> BitAnd(a, b)
    [] op = "ALU_XOR" -> BitXor(a, b)
    [] op = "ALU_SLT" -> IF Signed(a) < Signed(b) THEN 1 ELSE 0
    [] op = "ALU_SLTU" -> IF a < b THEN 1 ELSE 0
    [] op = "ALU_SLL" -> IF b < 16 THEN Trunc(a * Pow2[b + 1]) ELSE 0
    [] op = "ALU_SRL" -> IF b < 16 THEN a \div Pow2[b + 1] ELSE 0
    [] op = "ALU_SRA" -> IF b < 16 THEN Trunc(Signed(a) \div Pow2[b + 1])
                         ELSE IF Signed(a) < 0 THEN WordSize - 1 ELSE 0
    [] OTHER -> 0

-----------------------------------------------------------------------------
(* The branch unit: the comparison codes without a case fall through.      *)

BranchOut(ctrl, rs1, rs2, br_target, jal_target, pc_plusX) ==
  CASE ctrl = "BR_EQ" /\ rs1 = rs2 -> br_target
    [] ctrl = "BR_NE" /\ rs1 # rs2 -> br_target
    [] ctrl = "BR_JALR" -> jal_target
    [] OTHER -> pc_plusX
=============================================================================
