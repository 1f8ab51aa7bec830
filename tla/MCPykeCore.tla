------------------------------ MODULE MCPykeCore ----------------------------
(* The core on assembled programs, for so many clock edges.                *)
EXTENDS PykeProgram, TLC

CONSTANT MaxTicks   \* bound on the clock edges of a run

VARIABLE ticks

mcVars == <<programVars, ticks>>

MCInit == ProgramInit /\ ticks = 0
MCClock == ticks < MaxTicks /\ ticks' = ticks + 1 /\ Clock /\ UNCHANGED source
MCDrive == Drive /\ UNCHANGED <<source, ticks>>
MCNext == MCClock \/ MCDrive
MCSpec == MCInit /\ [][MCNext]_mcVars

-----------------------------------------------------------------------------
(* A load gives its register the word of data memory it addresses:         *)
(* Instr.txt:29 lists lw as a load from base plus offset, and lsu.scala:42  *)
(* has the path for it, but the decoder selects the ALU for its writeback. *)
LoadsMemory ==
  LET bundle == Fetch(NopBundle)
      i == LastOf(LsuLanes)
      cell == Dmem!OffsetIndex(MemAddr(bundle))
  IN fetch_en /\ Decode(bundle[i]).mem = "MEM_LOAD" /\ cell \in Dmem!Cells =>
       rfWritePort(i, bundle[i], Response(bundle, 0)).data = dmem[cell]

-----------------------------------------------------------------------------
(* Values of the constants.                                                *)

MCLanes == <<"BranchALULane", "MemALULane">>
MCRegisters == {[r \in Regs |-> CASE r = 1 -> 3 [] r = 2 -> 65532 [] r = 3 -> 32776
                                  [] r = 11 -> 8 [] OTHER -> 0]}
MCMemories == {[m \in Dmem!Cells |-> 0]}
MCPowerOn == {0, ResetPC}

Insn(op, rd, r1, r2, imm) ==
  [op |-> op, rd |-> rd, rs1 |-> r1, rs2 |-> r2, imm |-> imm, label |-> ""]

AluInsns ==
  {Insn(op, 1, 2, 1, 0) : op \in RrrOps} \union {Insn("addi", 1, 2, 0, 21),
   Insn("slli", 2, 1, 0, 15), Insn("sra", 3, 3, 1, 0), Insn("srl", 3, 3, 2, 0),
   Insn("add", 0, 1, 2, 0), Insn("sll", 15, 1, 1, 0)}
BranchInsns ==
  {Insn("beq", 0, 1, 1, 4), Insn("beq", 0, 1, 2, 7), Insn("bne", 0, 1, 2, 4),
   Insn("bne", 0, 1, 3, 1), Insn("jr", 0, 3, 0, 0), Insn("jr", 0, 3, 0, -15),
   Insn("jr", 0, 1, 2, -16)}
StoreInsns == {Insn("sw", 0, 11, 2, 0), Insn("sw", 0, 11, 1, 4), Insn("sw", 0, 2, 3, 31)}

(* Four lanes, of which the first branches and the last stores: lines cut  *)
(* short, lines with the same two instructions in the middle, and all of a *)
(* few instructions.                                                       *)
MCFourLanes == <<"BranchALULane", "MemALULane", "MemALULane", "MemALULane">>
Lines(first, last) ==
  {l \in {<<>>} \union {<<a>> : a \in first}
         \union {<<a, Insn("or", 5, 1, 3, 0), Insn("addi", 6, 2, 0, 9), d>> :
                    a \in first, d \in last} :
     Machine!WellFormed(l, 4)}
FourInsns == {Insn("or", 5, 1, 3, 0), Insn("xor", 2, 1, 3, 0), Insn("addi", 11, 1, 0, 9)}
FullLines ==
  {l \in {<<a, b, c, d>> : a \in {Insn("sub", 1, 2, 1, 0)} \union BranchInsns,
                          b, c \in FourInsns,
                          d \in FourInsns \union {Insn("sw", 0, 1, 3, 4)}} :
     Machine!WellFormed(l, 4)}
MCOneLine ==
  {<<l>> : l \in FullLines \union Lines(AluInsns \union BranchInsns,
                                      AluInsns \union StoreInsns)}
FewInsns == {Insn("sub", 1, 2, 1, 0), Insn("addi", 11, 1, 0, 9), Insn("xor", 2, 1, 3, 0)}
MCTwoLines ==
  {<<l, m>> : l, m \in Lines(FewInsns \union {Insn("bne", 0, 1, 2, 4)},
                            FewInsns \union {Insn("sw", 0, 11, 2, 0)})}
MCSources == MCOneLine \union MCTwoLines
ASSUME ProgramsWellFormed == Sources = MCSources => AllWellFormed

MCLoadSources == {<<<<Insn("add", 0, 0, 0, 0), Insn("lw", 1, 11, 0, 0)>>>>}
MCLoadMemories == {[m \in Dmem!Cells |-> 7]}

MCPrograms == {Image(s) : s \in Sources}
MCNoGarbage == {NOP}   \* where every fetch hits a word
=============================================================================
