----------------------------- MODULE PykeProgram ----------------------------
(***************************************************************************)
(* The core running an assembled program.  source is the program as the    *)
(* assembler is given it, with branch distances resolved; imem is what     *)
(* PykeAsm makes of it, and the core and its inputs are those of PykeCore.  *)
(***************************************************************************)
EXTENDS PykeCore, PykeAsm

CONSTANT Sources   \* the programs, as instructions

VARIABLE source

programVars == <<imem, fetch_en, reset, pc, rf, dmem, source>>

(* The instructions of a line, and programs that fit the memory.           *)
Insns == [op : RrrOps \union RriOps \union RrsOps \union RrlOps,
          rd : 0..15, rs1 : 0..15, rs2 : 0..15, imm : Int, label : STRING]
Fits(s) ==
  /\ s \in Seq(Seq(Insns))
  /\ Len(s) <= ImemSize
  /\ \A k \in 1..Len(s) : Len(s[k]) <= AtomsPerInsn

(* What the configurations of the repository have in common: only the      *)
(* first lane branches and the last one has a load-store unit, a line's    *)
(* length is a power of two, and the base address is a multiple of the     *)
(* memory's span.  A fetch hits a word of the memory, or gives NOPs.       *)
ASSUME ProgramAssumption ==
  /\ AtomsPerInsn = Len(LaneNames)
  /\ BruLanes = {1} /\ AtomsPerInsn \in LsuLanes
  /\ Imem!Pow2Ceil(PcIncr) = PcIncr /\ ResetPC % PcIncr = 0
  /\ Imem!IndexMod \in Nat /\ ImemSize <= Imem!IndexMod
  /\ Imem!ScaledOffset % Imem!IndexMod = 0
  /\ Imem!IndexMod = ImemSize \/ GarbageAtoms = {NOP}
  /\ Dmem!IndexMod \in Nat \ {0}
  /\ \A s \in Sources : Fits(s)

Image(lines) ==
  [c \in Imem!Cells |-> IF c < Len(lines) THEN EncodeBundle(lines[c + 1])
                        ELSE NopBundle]

ProgramInit == source \in Sources /\ imem = Image(source) /\ Init
ProgramNext == Next /\ UNCHANGED source
ProgramSpec == ProgramInit /\ [][ProgramNext]_programVars

-----------------------------------------------------------------------------
(* The hardware, running what the assembler makes of well-formed lines, is  *)
(* the machine the programmer was promised: encoding (decodetree.py        *)
(* str_encode, asm.py:22-29), the decode table (Decoder.scala:31-55), the  *)
(* field extraction and truncations of Lane.scala:78-126, the ALU and the  *)
(* shared ports of PykeCore.scala:51-67 amount to one step of VliwIsa for   *)
(* each edge, with stutters while fetch is disabled and restarts at reset. *)
Machine == INSTANCE VliwIsa
         WITH LineBytes <- PcIncr, AddrMod <- PcMod, LineMirror <- Imem!IndexMod,
              MemSize <- DmemSize, MemMirror <- Dmem!IndexMod,
              LoadBase <- ResetPC,
              at <- pc, regs <- [r \in 0..15 |-> IF r = 0 THEN 0 ELSE rf[r]],
              mem <- dmem
RunsIsa == Machine!Spec

(* The orders in which the instructions of a line can be run.              *)
Orders == [n \in 0..AtomsPerInsn |-> Bijection(1..n, 1..n)]

(* The instructions of a line in which none takes what another gives may   *)
(* be run one after the other in any order: what a programmer or compiler  *)
(* relies on when packing instructions into a line.  In the core the lanes *)
(* share the register file's ports and one data-memory port                *)
(* (PykeCore.scala:57-63), so no lane may miss, see or undo another's      *)
(* write.                                                                  *)
LanesSerialise ==
  [][ LET insns == Machine!LineAt(pc) IN
      Clock /\ fetch_en /\ Machine!Independent(insns) =>
        \A order \in Orders[Len(insns)] :
          Machine!RunInOrder(insns, order)
            = [regs |-> [r \in 0..15 |-> IF r = 0 THEN 0 ELSE rf'[r]],
               mem |-> dmem'] ]_programVars

(* All lines of the programs are ones the machine keeps its promise for.   *)
AllWellFormed ==
  \A s \in Sources : \A k \in 1..Len(s) : Machine!WellFormed(s[k], AtomsPerInsn)
=============================================================================
