------------------------------ MODULE PykeCore ------------------------------
(***************************************************************************)
(* The single-cycle VLIW core of pyke/PykeCore.scala, with its lanes       *)
(* (pyke/Lane.scala), register file, load-store units and data memory.     *)
(* All lanes run one bundle in one clock edge: every combinational value   *)
(* of a cycle is an operator of the state before the edge, and CoreEdge is *)
(* the edge.  Widths are those of the code: lanes, ALU and register-file   *)
(* ports are 16 bits wide whatever xLen is, and register addresses 4 bits. *)
(***************************************************************************)
EXTENDS PykeIsa, Sequences, FiniteSets

CONSTANTS
  LaneNames,     \* config.hw.lanes: the type of each lane, in order
  PcIncr,        \* bytes of a bundle, config.isa.pcIncr
  PcMod,         \* 2^xLen, the width of pc
  ImemSize,      \* words of instruction memory (1000 in PykeTop)
  DmemSize,      \* words of data memory (1000 in PykeTop)
  ResetPC,       \* what reset puts in pc (0x8000)
  Programs,      \* the contents of the instruction memory
  PowerOnPCs,    \* what pc may hold before the first edge
  RegisterFiles, \* what rf may hold before the first edge
  DataMemories,  \* what dmem may hold before the first edge
  GarbageAtoms,  \* what a fetch beyond the instruction memory may return
  GarbageWords   \* what a load beyond the data memory may return

LaneTypes == {"ALULane", "MemALULane", "BranchALULane", "BranchMemALULane"}

VARIABLES
  imem,      \* the atoms of each instruction word, lowest bits first
  fetch_en,  \* io.fetch_en, an input
  reset,     \* the reset input
  pc,        \* PykeCore.pc
  rf,        \* RegisterFile.mem: the registers a 4-bit address reaches
  dmem       \* the words of data memory

coreVars == <<pc, rf, dmem>>
vars == <<imem, fetch_en, reset, pc, rf, dmem>>

Lanes == 1..Len(LaneNames)
Regs == 1..15
PC == 0..(PcMod - 1)
Bundle == [Lanes -> Atom]

Imem == INSTANCE Scratchpad
          WITH Size <- ImemSize, DataBytes <- PcIncr, AddrOffset <- ResetPC
Dmem == INSTANCE Scratchpad
          WITH Size <- DmemSize, DataBytes <- 4, AddrOffset <- 655360

ASSUME CoreAssumption ==
  /\ LaneNames \in Seq(LaneTypes) /\ LaneNames # <<>>
  /\ PcIncr \in Nat \ {0} /\ PcMod \in Nat /\ PcMod >= WordSize
  /\ ImemSize \in Nat \ {0} /\ DmemSize \in Nat \ {0}
  /\ ResetPC \in 0..(PcMod - 1)
  /\ Programs \subseteq [Imem!Cells -> Bundle]
  /\ PowerOnPCs \subseteq PC
  /\ RegisterFiles \subseteq [Regs -> Word]
  /\ DataMemories \subseteq [Dmem!Cells -> Word]
  /\ GarbageAtoms \subseteq Atom /\ GarbageAtoms # {}
  /\ GarbageWords \subseteq Word /\ GarbageWords # {}

(* createFromName builds a BranchMemALULane for "BranchALULane" as well.   *)
HasBru(i) == LaneNames[i] \in {"BranchALULane", "BranchMemALULane"}
HasLsu(i) == LaneNames[i] # "ALULane"
BruLanes == {i \in Lanes : HasBru(i)}
LsuLanes == {i \in Lanes : HasLsu(i)}
FirstOf(S) == CHOOSE i \in S : \A j \in S : i <= j   \* mutant: the first drives
LastOf(S) == CHOOSE i \in S : \A j \in S : j <= i

-----------------------------------------------------------------------------
(* A lane's cycle.  a is the lane's atom; the register file is read through *)
(* ports of 4 address bits, and gives 0 for x0 or a disabled port.         *)

Port(reg) == reg % 16
ReadPort(a, reg) ==
  IF /\ Decode(a).op1 = "OP1_RS1" \/ Decode(a).op2 = "OP2_RS2"
     /\ Port(reg) # 0
  THEN rf[Port(reg)] ELSE 0
rs1(a) == ReadPort(a, Rs1(a))
rs2(a) == ReadPort(a, Rs2(a))

inp1(a) ==
  CASE Decode(a).op1 = "OP1_RS1" -> rs1(a)
    [] Decode(a).op1 = "OP1_PC" -> Trunc(pc)
    [] Decode(a).op1 = "OP1_IMM" -> Rs1(a)
    [] OTHER -> 0

(* The immediates are the 5-bit register fields.                           *)
inp2(a) ==
  CASE Decode(a).op2 = "OP2_RS2" -> rs2(a)
    [] Decode(a).op2 = "OP2_IMM_I" -> Rs2(a)
    [] Decode(a).op2 = "OP2_IMM_S" -> Rd(a)
    [] OTHER -> 0

alu(a) == AluOut(Decode(a).alu, inp1(a), inp2(a))

pc_plusX == IF fetch_en THEN (pc + PcIncr) % PcMod ELSE pc

(* Branches are pc plus instruction bits 7 to 4, jumps rs1 plus bits 15 to *)
(* 12.  A lane without branch unit leaves pc_next DontCare, built as 0.    *)
pc_next(i, a) ==
  IF HasBru(i)
  THEN BranchOut(Decode(a).br, rs1(a), rs2(a),
                 (pc + Slice(a, 7, 4)) % PcMod,
                 Trunc(rs1(a) + Slice(a, 15, 12)), pc_plusX)
  ELSE 0

(* Every load-store unit sees the response of the one data-memory port;    *)
(* r_data is 0xdead unless this lane is not storing and the port is busy.  *)
NoData == 57005
lsu_data(i, a, response) ==
  CASE ~ HasLsu(i) -> 0
    [] HasLsu(i) /\ Decode(a).mem # "MEM_STORE" /\ response.rdy -> response.data
    [] OTHER -> NoData

wb(i, a, response) ==
  CASE Decode(a).wb = "WB_ALU" -> alu(a)
    [] Decode(a).wb = "WB_MEM" -> lsu_data(i, a, response)
    [] Decode(a).wb = "WB_PC4" -> Trunc(pc_next(i, a))
    [] OTHER -> 0

rfWritePort(i, a, response) ==
  [en |-> Decode(a).wr_reg, addr |-> Port(Rd(a)), data |-> wb(i, a, response)]

-----------------------------------------------------------------------------
(* One clock edge.                                                         *)

FetchUngated(garbage) ==   \* mutant: the lanes run while fetch is disabled
  Imem!ReadNonmasked(imem, pc \div Imem!Pow2Ceil(PcIncr), garbage)

(* The bundle in the lanes: NOPs while fetch is disabled.                  *)
NopBundle == [i \in Lanes |-> NOP]
Fetch(garbage) ==
  IF fetch_en
  THEN Imem!ReadNonmasked(imem, pc \div Imem!Pow2Ceil(PcIncr), garbage)
  ELSE NopBundle

(* The lane connected last drives the data-memory port, for all of them.   *)
PortAtom(bundle) == IF LsuLanes = {} THEN NOP ELSE bundle[LastOf(LsuLanes)]
MemAddr(bundle) == alu(PortAtom(bundle)) \div 4
Stores(bundle) == Decode(PortAtom(bundle)).mem = "MEM_STORE"

Response(bundle, garbage) ==
  [rdy |-> Decode(PortAtom(bundle)).mem # "MEM_X",
   data |-> IF Decode(PortAtom(bundle)).mem \in {"MEM_X", "MEM_STORE"} THEN 0
            ELSE Dmem!ReadMasked(dmem, MemAddr(bundle), garbage)]

DmemEdge(bundle) ==
  dmem' = IF Stores(bundle)
          THEN Dmem!WriteMasked(dmem, MemAddr(bundle), rs2(PortAtom(bundle)))
          ELSE dmem

RfEdgeOnePort(ports) ==   \* mutant: only the last enabled port is written
  LET enabled == {i \in Lanes : ports[i].en}
  IN rf' = [r \in Regs |->
              IF enabled # {} /\ ports[LastOf(enabled)].addr = r
              THEN ports[LastOf(enabled)].data ELSE rf[r]]

(* The register file writes each enabled port but those of x0.  Chisel     *)
(* does not define which of two writes to one register lands.              *)
RfEdge(ports) ==
  LET Writers(r) == {i \in Lanes : ports[i].en /\ ports[i].addr = r}
      written == {ports[i].addr : i \in {j \in Lanes : ports[j].en}} \ {0}
  IN \E winner \in [written -> Lanes] :
       /\ \A r \in written : winner[r] \in Writers(r)
       /\ rf' = [r \in Regs |-> IF r \in written THEN ports[winner[r]].data
                                ELSE rf[r]]

PcEdgeNoReset(bundle) ==   \* mutant: pc without its reset value
  pc' = IF BruLanes # {}
        THEN pc_next(LastOf(BruLanes), bundle[LastOf(BruLanes)]) ELSE pc

(* The last lane with a branch unit drives pc.                             *)
PcEdge(bundle) ==
  pc' = CASE reset -> ResetPC
          [] ~ reset /\ BruLanes # {} ->
               pc_next(LastOf(BruLanes), bundle[LastOf(BruLanes)])
          [] OTHER -> pc

(* reset reaches pc alone: registers and data memory are written under it. *)
CoreEdge ==
  \E atoms \in [Lanes -> GarbageAtoms], word \in GarbageWords :
    LET bundle == Fetch(atoms)
        response == Response(bundle, word)
    IN /\ PcEdge(bundle)
       /\ \E ports \in {[i \in Lanes |-> rfWritePort(i, bundle[i], response)]} :
            RfEdge(ports)
       /\ DmemEdge(bundle)

-----------------------------------------------------------------------------
(* The core with whatever drives its inputs: they may change between any   *)
(* two edges.  imem is filled before the core runs.                        *)

Init ==
  /\ imem \in Programs
  /\ fetch_en \in BOOLEAN
  /\ reset \in BOOLEAN
  /\ pc \in PowerOnPCs
  /\ rf \in RegisterFiles
  /\ dmem \in DataMemories

Clock ==
  /\ CoreEdge
  /\ UNCHANGED <<imem, fetch_en, reset>>

Drive ==
  /\ fetch_en' \in BOOLEAN
  /\ reset' \in BOOLEAN
  /\ UNCHANGED <<imem, pc, rf, dmem>>

Next == Clock \/ Drive

Spec == Init /\ [][Next]_vars

-----------------------------------------------------------------------------
(* Every register and memory of the core keeps to its width.  The values   *)
(* written are 16 bits wide in 32-bit words.                               *)
TypeOK ==
  /\ imem \in [Imem!Cells -> Bundle]
  /\ fetch_en \in BOOLEAN
  /\ reset \in BOOLEAN
  /\ pc \in PC
  /\ rf \in [Regs -> Word]
  /\ dmem \in [Dmem!Cells -> Word]

(* A core that may not fetch does nothing: the NOPs in its lanes (Constants *)
(* NOP, PykeCore.scala:51) write no register and no memory, and pc stays    *)
(* (PykeCore.scala:55), whatever the debug module is doing to the           *)
(* instruction memory meanwhile.                                            *)
IdleCoreHolds == [][~ fetch_en /\ ~ reset => UNCHANGED coreVars]_vars
=============================================================================
