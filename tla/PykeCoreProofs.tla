--------------------------- MODULE PykeCoreProofs ---------------------------
(***************************************************************************)
(* Proofs about the core, for every number and type of lanes, every size   *)
(* of the memories, every content of the instruction memory and whatever   *)
(* is read beyond the memories.  TypeOK is inductive; the idle core's NOP  *)
(* is no instruction, from which the rest follows.                         *)
(***************************************************************************)
EXTENDS PykeCore, NatLemmas, TLAPS

(* First the combinational parts of a lane: every operation keeps to the   *)
(* 16 bits of its wires.                                                   *)

(* A chisel truncation gives a value of its width.                         *)
LEMMA ModRange ==
  ASSUME NEW x \in Int, NEW n \in Nat \ {0}
  PROVE  x % n \in 0..(n - 1)
OBVIOUS

LEMMA WordSizeNat == WordSize \in Nat /\ WordSize > 1
BY DEF WordSize

LEMMA TruncWord ==
  ASSUME NEW x \in Int
  PROVE  Trunc(x) \in Word
BY WordSizeNat, ModRange DEF Trunc, Word

LEMMA BitRange ==
  ASSUME NEW x \in Word, NEW i \in 0..15
  PROVE  Bit(x, i) \in 0..1
<1>1. Pow2[i + 1] \in Nat \ {0}
  BY DEF Pow2
<1>2. x \in Nat
  BY WordSizeNat DEF Word
<1>3. x \div Pow2[i + 1] \in Int
  BY <1>1, <1>2
<1>. QED
  BY <1>3, ModRange DEF Bit

LEMMA NibbleRange ==
  ASSUME NEW b \in [0..15 -> 0..1], NEW i \in {0, 4, 8, 12}
  PROVE  Nibble(b, i) \in 0..15
<1>1. b[i] \in 0..1 /\ b[i + 1] \in 0..1 /\ b[i + 2] \in 0..1 /\ b[i + 3] \in 0..1
  OBVIOUS
<1>. QED
  BY <1>1 DEF Nibble

LEMMA FromBitsWord ==
  ASSUME NEW b \in [0..15 -> 0..1]
  PROVE  FromBits(b) \in Word
<1>1. /\ Nibble(b, 0) \in 0..15 /\ Nibble(b, 4) \in 0..15
      /\ Nibble(b, 8) \in 0..15 /\ Nibble(b, 12) \in 0..15
  BY NibbleRange
<1>2. FromBits(b) \in Nat /\ FromBits(b) < 65536
  <2>. DEFINE n0 == Nibble(b, 0)  n1 == Nibble(b, 4)
              n2 == Nibble(b, 8)  n3 == Nibble(b, 12)
  <2>. HIDE DEF n0, n1, n2, n3
  <2>1. n0 \in 0..15 /\ n1 \in 0..15 /\ n2 \in 0..15 /\ n3 \in 0..15
    BY <1>1 DEF n0, n1, n2, n3
  <2>2. n0 + 16 * n1 + 256 * n2 + 4096 * n3 < 65536
    BY <2>1
  <2>3. n0 + 16 * n1 + 256 * n2 + 4096 * n3 \in Nat
    BY <2>1
  <2>. QED
    BY <2>2, <2>3 DEF FromBits, n0, n1, n2, n3
<1>3. FromBits(b) < WordSize
  BY <1>2 DEF WordSize
<1>. QED
  BY <1>2, <1>3, WordSizeNat DEF Word

(* The ALU gives 16 bits for every operation and operands (ALU.scala).     *)
LEMMA AluWord ==
  ASSUME NEW op, NEW a \in Word, NEW b \in Word
  PROVE  AluOut(op, a, b) \in Word
<1>1. a \in Int /\ b \in Int /\ a + b \in Int /\ a - b \in Int /\ Signed(a) \in Int
  BY WordSizeNat DEF Word, Signed
<1>2. Trunc(a + b) \in Word /\ Trunc(a - b) \in Word
  BY <1>1, TruncWord
<1>3. BitOr(a, b) \in Word /\ BitAnd(a, b) \in Word /\ BitXor(a, b) \in Word
  <2>1. /\ [i \in 0..15 |-> IF Bit(a, i) = 1 THEN 1 ELSE Bit(b, i)] \in [0..15 -> 0..1]
        /\ [i \in 0..15 |-> IF Bit(a, i) = 1 THEN Bit(b, i) ELSE 0] \in [0..15 -> 0..1]
        /\ [i \in 0..15 |-> IF Bit(a, i) = Bit(b, i) THEN 0 ELSE 1] \in [0..15 -> 0..1]
    BY BitRange
  <2>. QED
    BY <2>1, FromBitsWord DEF BitOr, BitAnd, BitXor
<1>4. ASSUME b < 16
      PROVE  /\ Trunc(a * Pow2[b + 1]) \in Word
             /\ a \div Pow2[b + 1] \in Word
             /\ Trunc(Signed(a) \div Pow2[b + 1]) \in Word
  <2>1. Pow2[b + 1] \in Nat \ {0}
    BY <1>4, WordSizeNat DEF Pow2, Word
  <2>2. a * Pow2[b + 1] \in Int /\ Signed(a) \div Pow2[b + 1] \in Int
    BY <1>1, <2>1
  <2>3. a \div Pow2[b + 1] \in Word
    <3>. DEFINE n == Pow2[b + 1]
    <3>1. n \in Nat \ {0} /\ a \in Nat
      BY <2>1, WordSizeNat DEF Word
    <3>. HIDE DEF n
    <3>2. a \div n \in 0..a
      BY <3>1, DivLe
    <3>. QED
      <4>1. a \div n \in Word
        BY <3>1, <3>2, WordSizeNat DEF Word
      <4>. QED
        BY <4>1 DEF n
  <2>. QED
    BY <2>2, <2>3, TruncWord
<1>5. 0 \in Word /\ 1 \in Word /\ WordSize - 1 \in Word
  BY WordSizeNat DEF Word
<1>. QED
  BY <1>2, <1>3, <1>4, <1>5 DEF AluOut

(* The register fields and branch immediates of an atom.                   *)
LEMMA FieldRange ==
  ASSUME NEW atom \in Atom
  PROVE  /\ Rd(atom) \in 0..31 /\ Rs1(atom) \in 0..31 /\ Rs2(atom) \in 0..31
         /\ Slice(atom, 7, 4) \in 0..15 /\ Slice(atom, 15, 12) \in 0..15
<1>1. atom.lo \in Int
  <2>1. LoSize \in Int
    BY DEF LoSize
  <2>. QED
    BY <2>1 DEF Atom
<1>2. Rd(atom) \in 0..31
  BY <1>1 DEF Rd, Slice
<1>3. Rs1(atom) \in 0..31
  BY <1>1 DEF Rs1, Slice
<1>4. Rs2(atom) \in 0..31
  BY <1>1 DEF Rs2, Slice
<1>5. Slice(atom, 7, 4) \in 0..15 /\ Slice(atom, 15, 12) \in 0..15
  BY <1>1 DEF Slice
<1>. QED
  BY <1>2, <1>3, <1>4, <1>5

(* A NOP is no instruction: it has the opcode of ADD but not its fixed     *)
(* bits (Constants.scala:98), so the decoder gives its default row.        *)
LEMMA NopRow == NOP \in Atom /\ Decode(NOP) = DefaultRow
<1>1. LoSize \in Nat /\ LoSize > 0
  BY DEF LoSize
<1>2. NOP \in Atom
  BY <1>1 DEF NOP, Atom
<1>3. Opcode(NOP) = 0
  <2>1. NOP.lo = 0 /\ 2^0 = 1 /\ 2^(4 - 0 + 1) = 32
    BY DEF NOP
  <2>2. 0 \div 1 = 0 /\ 0 % 32 = 0
    OBVIOUS
  <2>. QED
    BY <2>1, <2>2 DEF Opcode, Slice
<1>4. ~ RrrFixed(NOP)
  BY DEF RrrFixed, NOP
<1>5. Patterns[Opcode(NOP) + 1] \in RrrPatterns
  BY <1>3 DEF Patterns, RrrPatterns
<1>. QED
  BY <1>2, <1>4, <1>5 DEF Decode, Matches

-----------------------------------------------------------------------------
(* What the widths of the wires share.                                     *)
LEMMA Widths ==
  /\ 0..31 \subseteq Word /\ Word \subseteq PC /\ NoData \in Word
  /\ PC \subseteq Nat
<1>1. WordSize > 31
  BY DEF WordSize
<1>2. NoData \in Nat /\ NoData < WordSize
  BY DEF NoData, WordSize
<1>3. PcMod \in Nat \ {0} /\ PcMod >= WordSize
  BY WordSizeNat, CoreAssumption
<1>. QED
  BY <1>1, <1>2, <1>3, WordSizeNat DEF Word, PC

LEMMA PcModRange ==
  ASSUME NEW x \in Int
  PROVE  x % PcMod \in PC
<1>1. PcMod \in Nat \ {0}
  BY WordSizeNat, CoreAssumption
<1>. QED
  BY <1>1, ModRange DEF PC

-----------------------------------------------------------------------------
(* The wires of a lane.                                                    *)

LEMMA ReadPortWord ==
  ASSUME TypeOK, NEW a, NEW reg \in 0..31
  PROVE  ReadPort(a, reg) \in Word
<1>1. Port(reg) \in 0..15
  BY DEF Port
<1>. QED
  BY <1>1, Widths DEF ReadPort, TypeOK, Regs

LEMMA AluOperands ==
  ASSUME TypeOK, NEW a \in Atom
  PROVE  /\ rs1(a) \in Word /\ rs2(a) \in Word
         /\ inp1(a) \in Word /\ inp2(a) \in Word
         /\ alu(a) \in Word
<1>1. rs1(a) \in Word /\ rs2(a) \in Word
  BY ReadPortWord, FieldRange DEF rs1, rs2
<1>2. Trunc(pc) \in Word
  BY TruncWord, Widths DEF TypeOK
<1>3. Rs1(a) \in Word /\ Rs2(a) \in Word /\ Rd(a) \in Word /\ 0 \in Word
  BY FieldRange, Widths
<1>4. inp1(a) \in Word
  BY <1>1, <1>2, <1>3 DEF inp1
<1>5. inp2(a) \in Word
  BY <1>1, <1>3 DEF inp2
<1>. QED
  BY <1>1, <1>4, <1>5, AluWord DEF alu

LEMMA NextPC ==
  ASSUME TypeOK, NEW i \in Lanes, NEW a \in Atom
  PROVE  pc_next(i, a) \in PC
<1>1. pc \in Nat /\ PcIncr \in Nat
  BY CoreAssumption, Widths DEF TypeOK
<1>2. pc_plusX \in PC
  <2>1. pc + PcIncr \in Int
    BY <1>1
  <2>2. (pc + PcIncr) % PcMod \in PC
    BY <2>1, PcModRange
  <2>. QED
    BY <2>2 DEF pc_plusX, TypeOK
<1>3. (pc + Slice(a, 7, 4)) % PcMod \in PC
  <2>1. pc + Slice(a, 7, 4) \in Int
    BY <1>1, FieldRange
  <2>. QED
    BY <2>1, PcModRange
<1>4. Trunc(rs1(a) + Slice(a, 15, 12)) \in PC
  <2>1. rs1(a) \in Int
    BY AluOperands, WordSizeNat DEF Word
  <2>2. rs1(a) + Slice(a, 15, 12) \in Int
    BY <2>1, FieldRange
  <2>. QED
    BY <2>2, TruncWord, Widths
<1>. QED
  BY <1>2, <1>3, <1>4, Widths DEF pc_next, BranchOut

LEMMA WriteBack ==
  ASSUME TypeOK, NEW i \in Lanes, NEW a \in Atom, NEW response,
         response.data \in Word
  PROVE  wb(i, a, response) \in Word
<1>1. lsu_data(i, a, response) \in Word
  BY Widths DEF lsu_data
<1>2. Trunc(pc_next(i, a)) \in Word
  <2>1. pc_next(i, a) \in PC
    BY NextPC
  <2>2. \A x \in PC : x \in Int
    BY Widths
  <2>3. pc_next(i, a) \in Int
    BY <2>1, <2>2, Zenon
  <2>. QED
    BY <2>3, TruncWord
<1>3. alu(a) \in Word
  BY AluOperands
<1>. QED
  BY <1>1, <1>2, <1>3, Widths DEF wb

-----------------------------------------------------------------------------
(* The lane connected last is one of them.                                 *)
LEMMA LastInSet ==
  ASSUME NEW S \in SUBSET Lanes, S # {}
  PROVE  LastOf(S) \in S
<1>1. Len(LaneNames) \in Nat
  BY CoreAssumption
<1>2. \E i \in S : \A j \in S : j <= i
  BY <1>1, NatMax DEF Lanes
<1>. QED
  BY <1>2 DEF LastOf

-----------------------------------------------------------------------------
(* The parts of an edge.                                                   *)

LEMMA FetchType ==
  ASSUME TypeOK, NEW atoms \in [Lanes -> GarbageAtoms]
  PROVE  Fetch(atoms) \in Bundle
<1>1. atoms \in Bundle /\ NopBundle \in Bundle
  BY CoreAssumption, NopRow DEF Bundle, NopBundle
<1>. QED
  BY <1>1 DEF Fetch, Imem!ReadNonmasked, TypeOK

LEMMA PortType ==
  ASSUME NEW bundle \in Bundle
  PROVE  PortAtom(bundle) \in Atom
<1>1. LsuLanes # {} => LastOf(LsuLanes) \in Lanes
  BY LastInSet DEF LsuLanes
<1>. QED
  BY <1>1, NopRow DEF PortAtom, Bundle

LEMMA ResponseData ==
  ASSUME TypeOK, NEW bundle, NEW word \in GarbageWords
  PROVE  Response(bundle, word).data \in Word
<1>1. word \in Word /\ 0 \in Word
  BY CoreAssumption, Widths
<1>2. Dmem!ReadMasked(dmem, MemAddr(bundle), word) \in Word
  BY <1>1 DEF Dmem!ReadMasked, TypeOK
<1>. QED
  BY <1>1, <1>2 DEF Response

LEMMA PcEdgeType ==
  ASSUME TypeOK, NEW bundle \in Bundle, PcEdge(bundle)
  PROVE  pc' \in PC
<1>1. ResetPC \in PC /\ pc \in PC
  BY CoreAssumption DEF PC, TypeOK
<1>2. BruLanes # {} => LastOf(BruLanes) \in Lanes
  BY LastInSet DEF BruLanes
<1>3. BruLanes # {} => pc_next(LastOf(BruLanes), bundle[LastOf(BruLanes)]) \in PC
  BY <1>2, NextPC DEF Bundle
<1>. QED
  BY <1>1, <1>3 DEF PcEdge, TypeOK

LEMMA RfEdgeType ==
  ASSUME TypeOK, NEW ports, \A i \in Lanes : ports[i].data \in Word, RfEdge(ports)
  PROVE  rf' \in [Regs -> Word]
BY DEF RfEdge, TypeOK

LEMMA DmemEdgeType ==
  ASSUME TypeOK, NEW bundle \in Bundle, DmemEdge(bundle)
  PROVE  dmem' \in [Dmem!Cells -> Word]
<1>1. rs2(PortAtom(bundle)) \in Word
  BY PortType, AluOperands
<1>. QED
  BY <1>1 DEF DmemEdge, Dmem!WriteMasked, Dmem!Put, TypeOK

LEMMA EdgeTypes ==
  ASSUME TypeOK, CoreEdge
  PROVE  /\ pc' \in PC
         /\ rf' \in [Regs -> Word]
         /\ dmem' \in [Dmem!Cells -> Word]
<1>1. PICK atoms \in [Lanes -> GarbageAtoms], word \in GarbageWords :
        /\ PcEdge(Fetch(atoms))
        /\ RfEdge([i \in Lanes |-> rfWritePort(i, Fetch(atoms)[i],
                                               Response(Fetch(atoms), word))])
        /\ DmemEdge(Fetch(atoms))
  BY DEF CoreEdge
<1>2. Fetch(atoms) \in Bundle
  BY FetchType
<1>3. \A i \in Lanes :
        rfWritePort(i, Fetch(atoms)[i], Response(Fetch(atoms), word)).data \in Word
  BY <1>2, ResponseData, WriteBack DEF rfWritePort, Bundle
<1>4. rf' \in [Regs -> Word]
  BY <1>1, <1>3, RfEdgeType
<1>. QED
  BY <1>1, <1>2, <1>4, PcEdgeType, DmemEdgeType

-----------------------------------------------------------------------------
(* Every register and memory keeps its width: whatever a program does,     *)
(* the lanes' 16-bit wires never truncate what the register file or the    *)
(* data memory holds (TypeOK).                                             *)
THEOREM CoreTypeCorrect == Spec => []TypeOK
<1>1. Init => TypeOK
  BY CoreAssumption DEF Init, TypeOK
<1>2. TypeOK /\ [Next]_vars => TypeOK'
  <2>. SUFFICES ASSUME TypeOK, [Next]_vars PROVE TypeOK'
    OBVIOUS
  <2>1. CASE Clock
    BY <2>1, EdgeTypes DEF Clock, TypeOK
  <2>2. CASE Drive
    BY <2>2 DEF Drive, TypeOK
  <2>3. CASE UNCHANGED vars
    BY <2>3 DEF vars, TypeOK
  <2>. QED
    BY <2>1, <2>2, <2>3 DEF Next
<1>. QED
  BY <1>1, <1>2, PTL DEF Spec

-----------------------------------------------------------------------------
(* NOPs in all lanes write nothing and leave pc to the increment, which is *)
(* 0 while fetch is disabled, or to its reset value.                       *)
LEMMA IdleEdge ==
  ASSUME TypeOK, ~ fetch_en, CoreEdge
  PROVE  /\ rf' = rf /\ dmem' = dmem
         /\ pc' = IF reset THEN ResetPC ELSE pc
<1>1. PICK atoms \in [Lanes -> GarbageAtoms], word \in GarbageWords :
        /\ PcEdge(Fetch(atoms))
        /\ RfEdge([i \in Lanes |-> rfWritePort(i, Fetch(atoms)[i],
                                               Response(Fetch(atoms), word))])
        /\ DmemEdge(Fetch(atoms))
  BY DEF CoreEdge
<1>2. Fetch(atoms) = NopBundle /\ \A i \in Lanes : NopBundle[i] = NOP
  BY DEF Fetch, NopBundle
<1>3. pc' = IF reset THEN ResetPC ELSE pc
  <2>1. \A i \in Lanes : HasBru(i) => pc_next(i, NOP) = pc
    BY NopRow DEF pc_next, BranchOut, DefaultRow, Row, pc_plusX
  <2>2. BruLanes # {} => LastOf(BruLanes) \in BruLanes
    BY LastInSet DEF BruLanes
  <2>. QED
    BY <1>1, <1>2, <2>1, <2>2 DEF PcEdge, BruLanes, TypeOK
<1>4. rf' = rf
  <2>. DEFINE ports == [i \in Lanes |-> rfWritePort(i, NOP, Response(NopBundle, word))]
  <2>1. \A i \in Lanes : ~ ports[i].en
    BY NopRow DEF rfWritePort, DefaultRow, Row
  <2>2. RfEdge(ports)
    BY <1>1, <1>2
  <2>. HIDE DEF ports
  <2>3. rf' = [r \in Regs |-> rf[r]]
    BY <2>1, <2>2 DEF RfEdge
  <2>. QED
    BY <2>3 DEF TypeOK
<1>5. dmem' = dmem
  <2>1. PortAtom(NopBundle) = NOP
    BY <1>2, LastInSet DEF PortAtom, LsuLanes
  <2>2. ~ Stores(NopBundle)
    BY <2>1, NopRow DEF Stores, DefaultRow, Row
  <2>. QED
    BY <1>1, <1>2, <2>2 DEF DmemEdge
<1>. QED
  BY <1>3, <1>4, <1>5

(* While the debug module fills the instruction memory the core stands     *)
(* still, for every configuration (IdleCoreHolds): PykeCore.scala:51 and   *)
(* 55 are enough, although the lanes are clocked and the register file and *)
(* the data memory have no enable of their own.                            *)
THEOREM IdleCorrect == Spec => IdleCoreHolds
<1>1. TypeOK /\ [Next]_vars => [~ fetch_en /\ ~ reset => UNCHANGED coreVars]_vars
  <2>. SUFFICES ASSUME TypeOK, Next, ~ fetch_en, ~ reset PROVE UNCHANGED coreVars
    OBVIOUS
  <2>. QED
    BY IdleEdge DEF Next, Clock, Drive, coreVars
<1>. QED
  BY <1>1, CoreTypeCorrect, PTL DEF Spec, IdleCoreHolds
=============================================================================
