---------------------------- MODULE PykeTopProofs ---------------------------
(* The whole simulation keeps its types and the program, and its exit code *)
(* is the verdict, for every configuration, program and start.  The parts  *)
(* take their steps together, so what is known of each is known of both.   *)
EXTENDS PykeTop, NatLemmas, TLAPS

(* The program in the instruction memory, while it is loaded and later.    *)
Loaded == IF stage \in {"preload", "missing"} THEN Load!IndInv ELSE Load!LoadedImage

(* Nothing has been reported while the loop goes on.                       *)
Running ==
  /\ stage \in {"preload", "missing", "reset"} => cycle = 0
  /\ stage \notin {"exit", "aborted"} => exit_code = 0

(* While the loop goes on, it has not seen the values it looks for.        *)
Unanswered == stage = "run" /\ cycle > 0 => success(dmem) \notin {1, 2}

IndInv == TypeOK /\ Loaded /\ Running /\ Unanswered /\ ExitCodeIsVerdict

LEMMA LoadConstants ==
  /\ Load!ConfigAssumption /\ Load!WidthAssumption /\ Load!SetupAssumption
  /\ Core!CoreAssumption
BY TopAssumption

-----------------------------------------------------------------------------
(* Three bytes make a number of 24 bits.                                   *)
Low(a, b, c) == a + 256 * b + 65536 * c

LEMMA LowRange ==
  ASSUME NEW a \in 0..255, NEW b \in 0..255, NEW c \in 0..255
  PROVE  Low(a, b, c) \in 0..(Core!LoSize - 1)
<1>1. Low(a, b, c) \in Nat
  BY SMT DEF Low
<1>2. Core!LoSize \in Nat
  BY SMT DEF Core!LoSize
<1>3. Low(a, b, c) < Core!LoSize
  BY SMT DEF Low, Core!LoSize
<1>. QED
  BY <1>1, <1>2, <1>3

(* A word of bytes is an atom for each lane.                               *)
LEMMA AtomOfWord ==
  ASSUME NEW word \in Load!Line, NEW i \in Core!Lanes
  PROVE  extractAtom(i, word) \in Core!Atom
<1>1. Len(LaneNames) \in Nat
  BY LoadConstants DEF Core!CoreAssumption
<1>2. i \in 1..Len(LaneNames)
  BY DEF Core!Lanes
<1>3. ASSUME NEW k \in 1..4 PROVE word[4*i - k] \in 0..255
  <2>1. 4*i - k \in Load!Positions
    BY <1>1, <1>2, TopAssumption DEF Load!Positions
  <2>. QED
    BY <2>1, TopAssumption DEF Load!Line
<1>. DEFINE at(k) == word[4*i - k]
<1>4. at(4) \in 0..255 /\ at(3) \in 0..255 /\ at(2) \in 0..255 /\ at(1) \in 0..255
  BY <1>3
<1>5. extractAtom(i, word) = [lo |-> Low(at(4), at(3), at(2)), top |-> at(1)]
  BY DEF extractAtom, Low
<1>. HIDE DEF at
<1>6. Low(at(4), at(3), at(2)) \in 0..(Core!LoSize - 1)
  BY <1>4, LowRange
<1>. QED
  BY <1>4, <1>5, <1>6 DEF Core!Atom

LEMMA MemoryOfAtoms ==
  ASSUME NEW mem \in [Load!Mem!Cells -> Load!Line]
  PROVE  [c \in Load!Mem!Cells |-> [i \in 1..Len(LaneNames) |-> extractAtom(i, mem[c])]]
           \in [Core!Imem!Cells -> Core!Bundle]
BY AtomOfWord DEF Load!Mem!Cells, Core!Imem!Cells, Core!Bundle, Core!Lanes

LEMMA SuccessBits ==
  ASSUME NEW mem \in [Core!Dmem!Cells -> Core!Word]
  PROVE  success(mem) \in 0..3
<1>1. DmemSize - 1 \in Core!Dmem!Cells
  BY LoadConstants DEF Core!CoreAssumption, Core!Dmem!Cells
<1>2. mem[DmemSize - 1] \in Core!Word
  BY <1>1
<1>3. mem[DmemSize - 1] \in Nat
  BY <1>2, Core!WordSizeNat DEF Core!Word
<1>. QED
  BY <1>3 DEF success

-----------------------------------------------------------------------------
(* A step of the memory's words is a step of the core's atoms.             *)
LEMMA CoreTypeStep ==
  ASSUME Load!TypeOK', pc' \in Core!PC, rf' \in [Core!Regs -> Core!Word],
         dmem' \in [Core!Dmem!Cells -> Core!Word], reset' \in BOOLEAN
  PROVE  Core!TypeOK'
<1>1. imem' \in [Load!Mem!Cells -> Load!Line] /\ fetch_en' \in BOOLEAN
  BY DEF Load!TypeOK
<1>2. [c \in Load!Mem!Cells |-> [i \in 1..Len(LaneNames) |-> extractAtom(i, imem'[c])]]
        \in [Core!Imem!Cells -> Core!Bundle]
  BY <1>1, MemoryOfAtoms
<1>. QED
  BY <1>1, <1>2 DEF Core!TypeOK

(* An edge of the core keeps its widths, whatever the load does.           *)
LEMMA CoreEdgeTypes ==
  ASSUME TypeOK, Core!CoreEdge
  PROVE  /\ pc' \in Core!PC
         /\ rf' \in [Core!Regs -> Core!Word]
         /\ dmem' \in [Core!Dmem!Cells -> Core!Word]
BY LoadConstants, Core!EdgeTypes DEF TypeOK

(* The types of the core when it takes no step.                            *)
LEMMA CoreRests ==
  ASSUME TypeOK, UNCHANGED coreVars
  PROVE  /\ pc' \in Core!PC
         /\ rf' \in [Core!Regs -> Core!Word]
         /\ dmem' \in [Core!Dmem!Cells -> Core!Word]
BY DEF TypeOK, Core!TypeOK, coreVars

(* Behind preload_imem the port keeps its values, and nothing of the       *)
(* memory changes once the core may fetch.                                 *)
LEMMA EdgeInd ==
  ASSUME TypeOK, Load!LoadedImage, Edge
  PROVE  /\ Load!TypeOK' /\ Load!LoadedImage'
         /\ pc' \in Core!PC
         /\ rf' \in [Core!Regs -> Core!Word]
         /\ dmem' \in [Core!Dmem!Cells -> Core!Word]
<1>1. Load!DebugEdge(imem_val, imem_addr, reset)
  BY DEF Edge
<1>2. imem_val \in Byte /\ imem_addr \in Nat /\ reset \in BOOLEAN /\ Load!TypeOK
  BY DEF TypeOK, Load!TypeOK, Core!TypeOK
<1>3. /\ counter' \in 0..(Load!Span - 1) /\ buf' \in Load!Line
      /\ next_mem_addr' \in Nat /\ imem' \in [Load!Mem!Cells -> Load!Line]
  BY <1>1, <1>2, LoadConstants, Load!EdgeType
<1>4. Load!TypeOK'
  BY <1>2, <1>3 DEF Edge, Load!TypeOK
<1>5. Load!LoadedImage'
  <2>1. fetch_en' = fetch_en /\ hex' = hex /\ (fetch_en => imem' = imem)
    BY <1>1 DEF Edge, Load!DebugEdge
  <2>. QED
    BY <2>1 DEF Load!LoadedImage
<1>. QED
  BY <1>4, <1>5, CoreEdgeTypes DEF Edge

-----------------------------------------------------------------------------
LEMMA InitInd == Init => IndInv
<1>. SUFFICES ASSUME Init PROVE IndInv
  OBVIOUS
<1>1. Load!IndInv
  BY LoadConstants, Load!InitInd DEF Init
<1>2. Load!LoadedImage
  BY <1>1, LoadConstants, Load!IndImpliesLoaded
<1>3. Load!TypeOK
  BY <1>1 DEF Load!IndInv
<1>4. Core!TypeOK
  <2>1. imem \in [Load!Mem!Cells -> Load!Line] /\ fetch_en \in BOOLEAN
    BY <1>3 DEF Load!TypeOK
  <2>2. [c \in Load!Mem!Cells |-> [i \in 1..Len(LaneNames) |-> extractAtom(i, imem[c])]]
          \in [Core!Imem!Cells -> Core!Bundle]
    BY <2>1, MemoryOfAtoms
  <2>. QED
    BY <2>1, <2>2, LoadConstants DEF Init, Core!TypeOK, Core!CoreAssumption
<1>5. stage \in {"preload", "missing", "reset"} /\ cycle = 0 /\ exit_code = 0
  BY TopAssumption DEF Init, FirstStage
<1>6. 0 \in 0..MaxCycles
  BY TopAssumption
<1>. QED
  BY <1>1, <1>2, <1>3, <1>4, <1>5, <1>6
     DEF IndInv, TypeOK, Loaded, Running, Unanswered, ExitCodeIsVerdict

LEMMA LoadedFollows == Load!IndInv => Load!LoadedImage
BY LoadConstants, Load!IndImpliesLoaded

(* A step of preload_imem is a step of the load.                           *)
LEMMA LoadStep ==
  ASSUME Load!IndInv, Load!Next
  PROVE  Load!IndInv' /\ Load!TypeOK' /\ Load!LoadedImage'
<1>1. Load!IndInv'
  BY LoadConstants, Load!StepInd
<1>2. Load!LoadedImage'
  BY <1>1, LoadedFollows, PTL
<1>. QED
  BY <1>1, <1>2 DEF Load!IndInv

LEMMA StepInd == IndInv /\ [Next]_vars => IndInv'
<1>. SUFFICES ASSUME IndInv, [Next]_vars PROVE IndInv'
  OBVIOUS
<1>0. /\ TypeOK /\ reset \in BOOLEAN /\ cycle \in 0..MaxCycles
      /\ MaxCycles \in Nat \ {0}
      /\ stage \in {"preload", "missing"} => Load!IndInv
      /\ stage \notin {"preload", "missing"} => Load!LoadedImage
  BY TopAssumption DEF IndInv, Loaded, TypeOK, Core!TypeOK
<1>1. ASSUME stage = "preload", Load!Next, TypeOK',
             stage' = "preload" \/ stage' = "reset", UNCHANGED <<cycle, exit_code>>
      PROVE  IndInv'
  <2>1. Loaded'
    BY <1>0, <1>1, LoadStep DEF Loaded
  <2>. QED
    BY <1>1, <2>1 DEF IndInv, Running, Unanswered, ExitCodeIsVerdict
<1>2. CASE PreloadStart
  <2>1. Load!Next /\ UNCHANGED coreVars /\ UNCHANGED mainVars /\ stage = "preload"
    BY <1>2, LoadConstants DEF PreloadStart, Load!Next, Load!SetupAssumption
  <2>2. TypeOK'
    BY <1>0, <2>1, LoadStep, CoreRests, CoreTypeStep DEF mainVars, TypeOK
  <2>. QED
    BY <1>1, <2>1, <2>2 DEF mainVars
<1>3. CASE PreloadEdge
  <2>1. Load!Next /\ Core!CoreEdge /\ UNCHANGED mainVars /\ stage = "preload"
    BY <1>3 DEF PreloadEdge, Load!Next
  <2>2. TypeOK'
    BY <1>0, <2>1, LoadStep, CoreEdgeTypes, CoreTypeStep DEF mainVars, TypeOK
  <2>. QED
    BY <1>1, <2>1, <2>2 DEF mainVars
<1>4. CASE PreloadDone
  <2>1. /\ Load!Next /\ UNCHANGED coreVars /\ UNCHANGED <<reset, cycle, exit_code>>
        /\ stage = "preload" /\ stage' = "reset"
    BY <1>4 DEF PreloadDone, Load!Next
  <2>2. TypeOK'
    BY <1>0, <2>1, LoadStep, CoreRests, CoreTypeStep DEF TypeOK
  <2>. QED
    BY <1>1, <2>1, <2>2
<1>5. CASE RaiseReset
  <2>1. /\ UNCHANGED loadVars /\ UNCHANGED coreVars /\ UNCHANGED <<stage, cycle, exit_code>>
        /\ stage = "reset" /\ reset' = TRUE
    BY <1>5 DEF RaiseReset
  <2>2. Load!TypeOK' /\ Load!LoadedImage'
    BY <1>0, <2>1 DEF TypeOK, loadVars, Load!TypeOK, Load!LoadedImage
  <2>3. TypeOK'
    BY <1>0, <2>1, <2>2, CoreRests, CoreTypeStep DEF TypeOK
  <2>. QED
    BY <2>1, <2>2, <2>3 DEF IndInv, Loaded, Running, Unanswered, ExitCodeIsVerdict
<1>6. CASE ResetEdge
  <2>1. /\ Edge /\ stage = "reset" /\ stage' = "run" /\ reset' = FALSE
        /\ UNCHANGED <<cycle, exit_code>>
    BY <1>6 DEF ResetEdge
  <2>2. TypeOK' /\ Load!LoadedImage'
    BY <1>0, <2>1, EdgeInd, CoreTypeStep DEF TypeOK
  <2>. QED
    BY <2>1, <2>2 DEF IndInv, Loaded, Running, Unanswered, ExitCodeIsVerdict
<1>7. CASE RunCycle
  <2>1. /\ Edge /\ stage = "run" /\ stage' \in {"run", "exit"} /\ UNCHANGED reset
        /\ cycle' = cycle + 1 /\ cycle < MaxCycles
        /\ stage' = IF success(dmem') \in {1, 2} THEN "exit" ELSE "run"
        /\ exit_code' = IF success(dmem') = 1 THEN 1 ELSE exit_code
        /\ exit_code = 0
    BY <1>7 DEF RunCycle, IndInv, Running
  <2>2. TypeOK' /\ Load!LoadedImage'
    <3>1. cycle' \in 0..MaxCycles
      BY <1>0, <2>1
    <3>. QED
      BY <1>0, <2>1, <3>1, EdgeInd, CoreTypeStep DEF TypeOK
  <2>3. Running' /\ Unanswered' /\ ExitCodeIsVerdict'
    BY <2>1 DEF Running, Unanswered, ExitCodeIsVerdict
  <2>. QED
    BY <2>1, <2>2, <2>3 DEF IndInv, Loaded
<1>8. CASE LoopEnd
  <2>1. /\ UNCHANGED loadVars /\ UNCHANGED coreVars /\ UNCHANGED <<reset, cycle>>
        /\ stage = "run" /\ stage' = "exit" /\ cycle = MaxCycles
        /\ exit_code' = IF success(dmem) \in {0, 1} THEN 1 ELSE exit_code
        /\ exit_code = 0
    BY <1>8 DEF LoopEnd, IndInv, Running
  <2>2. Load!TypeOK' /\ Load!LoadedImage'
    BY <1>0, <2>1 DEF TypeOK, loadVars, Load!TypeOK, Load!LoadedImage
  <2>3. TypeOK'
    BY <1>0, <2>1, <2>2, CoreRests, CoreTypeStep DEF TypeOK
  <2>4. success(dmem) \in {0, 3} \/ success(dmem) = 0 \/ success(dmem) = 3
    BY <1>0, <2>1, SuccessBits DEF IndInv, Unanswered, TypeOK, Core!TypeOK
  <2>5. dmem' = dmem
    BY <2>1 DEF coreVars
  <2>6. Running' /\ Unanswered' /\ ExitCodeIsVerdict'
    BY <2>1, <2>4, <2>5 DEF Running, Unanswered, ExitCodeIsVerdict
  <2>. QED
    BY <2>1, <2>2, <2>3, <2>6 DEF IndInv, Loaded
<1>9. CASE PreloadFails
  <2>1. /\ Load!Next /\ UNCHANGED coreVars /\ UNCHANGED <<reset, cycle>>
        /\ stage = "missing" /\ stage' = "aborted" /\ exit_code' = 1
    BY <1>9 DEF PreloadFails, Load!Next
  <2>2. TypeOK' /\ Load!LoadedImage'
    BY <1>0, <2>1, LoadStep, CoreRests, CoreTypeStep DEF TypeOK
  <2>. QED
    BY <2>1, <2>2 DEF IndInv, Loaded, Running, Unanswered, ExitCodeIsVerdict
<1>10. CASE UNCHANGED vars
  <2>1. UNCHANGED loadVars /\ UNCHANGED coreVars /\ UNCHANGED mainVars
    BY <1>10 DEF vars
  <2>2. Load!TypeOK' /\ Load!LoadedImage' = Load!LoadedImage /\ Load!IndInv' = Load!IndInv
    BY <1>0, <2>1 DEF TypeOK, loadVars, Load!TypeOK, Load!LoadedImage, Load!IndInv,
                      Load!Progress, Load!InStep, Load!StoredLines, Load!Stored
  <2>3. TypeOK'
    BY <1>0, <2>1, <2>2, CoreRests, CoreTypeStep DEF TypeOK, mainVars
  <2>. QED
    BY <1>0, <2>1, <2>2, <2>3
       DEF IndInv, Loaded, Running, Unanswered, ExitCodeIsVerdict, mainVars, coreVars
<1>. QED
  BY <1>2, <1>3, <1>4, <1>5, <1>6, <1>7, <1>8, <1>9, <1>10 DEF Next

(* Every variable of the simulation keeps its type (TypeOK): the 32-bit    *)
(* atoms cut from the loaded bytes are in the lanes' range, and the loop   *)
(* counter of main() never passes its bound.                               *)
THEOREM TopTypeCorrect == Spec => []TypeOK
<1>1. IndInv => TypeOK
  BY DEF IndInv
<1>. QED
  BY InitInd, StepInd, <1>1, PTL DEF Spec

(* Whatever the program does and however long it runs, the instruction     *)
(* memory holds it once it was loaded (ImageKept), although the            *)
(* deserializer goes on and says it has a word every few edges.            *)
THEOREM ImageCorrect == Spec => []ImageKept
<1>1. IndInv => ImageKept
  BY LoadConstants, Load!IndImpliesLoaded DEF IndInv, Loaded, ImageKept
<1>. QED
  BY InitInd, StepInd, <1>1, PTL DEF Spec

(* The exit code is the program's verdict whichever of the loop's three    *)
(* ends was taken (ExitCodeIsVerdict).  It needs that the loop goes on     *)
(* only over the values it does not look for (Unanswered): its end by the  *)
(* bound takes all but 0 and 1 for a success.                              *)
THEOREM ExitCodeCorrect == Spec => []ExitCodeIsVerdict
<1>1. IndInv => ExitCodeIsVerdict
  BY DEF IndInv
<1>. QED
  BY InitInd, StepInd, <1>1, PTL DEF Spec

-----------------------------------------------------------------------------
(* The program in instruction memory is what its source was assembled to.  *)

(* The bytes of a line, cut into atoms again, are the line.                *)
Joined(lo) == (lo % 256) + 256 * ((lo \div 256) % 256) + 65536 * (lo \div 65536)

LEMMA BytesBack ==
  ASSUME NEW lo \in Nat
  PROVE  Joined(lo) = lo
BY SMT DEF Joined

LEMMA LineBack ==
  ASSUME AtomsPerInsn = Len(LaneNames), NEW bundle \in Core!Bundle, NEW i \in Core!Lanes
  PROVE  extractAtom(i, HexLine(bundle)) = bundle[i]
<1>1. Len(LaneNames) \in Nat /\ i \in Nat /\ 1 <= i /\ i <= Len(LaneNames)
  BY LoadConstants DEF Core!CoreAssumption, Core!Lanes
<1>. DEFINE a == bundle[i]
            at(p) == BytesOf(bundle[(p \div 4) + 1])[(p % 4) + 1]
<1>2. a \in Core!Atom
  BY DEF Core!Bundle
<1>3. a.lo \in Nat /\ a = [lo |-> a.lo, top |-> a.top]
  <2>. HIDE DEF a
  <2>1. Core!LoSize \in Nat
    BY SMT DEF Core!LoSize
  <2>. QED
    BY <1>2, <2>1 DEF Core!Atom
<1>4. \A p \in 0..(vliw_len - 1) : HexLine(bundle)[p] = at(p)
  BY DEF HexLine
<1>5. \A d \in 0..3 : /\ 4*i - 4 + d \in 0..(vliw_len - 1)
                      /\ ((4*i - 4 + d) \div 4) + 1 = i
                      /\ ((4*i - 4 + d) % 4) + 1 = d + 1
  BY <1>1 DEF vliw_len
<1>6. \A d \in 0..3 : HexLine(bundle)[4*i - 4 + d] = BytesOf(a)[d + 1]
  BY <1>4, <1>5
<1>. HIDE DEF a, at
<1>7. /\ HexLine(bundle)[4*i - 4] = BytesOf(a)[1]
      /\ HexLine(bundle)[4*i - 3] = BytesOf(a)[2]
      /\ HexLine(bundle)[4*i - 2] = BytesOf(a)[3]
      /\ HexLine(bundle)[4*i - 1] = BytesOf(a)[4]
  <2>1. /\ 4*i - 4 + 0 = 4*i - 4 /\ 4*i - 4 + 1 = 4*i - 3
        /\ 4*i - 4 + 2 = 4*i - 2 /\ 4*i - 4 + 3 = 4*i - 1
    BY <1>1
  <2>2. /\ HexLine(bundle)[4*i - 4 + 0] = BytesOf(a)[0 + 1]
        /\ HexLine(bundle)[4*i - 4 + 1] = BytesOf(a)[1 + 1]
        /\ HexLine(bundle)[4*i - 4 + 2] = BytesOf(a)[2 + 1]
        /\ HexLine(bundle)[4*i - 4 + 3] = BytesOf(a)[3 + 1]
    BY <1>6
  <2>. QED
    BY <2>1, <2>2
<1>8. /\ BytesOf(a)[1] = a.lo % 256 /\ BytesOf(a)[2] = (a.lo \div 256) % 256
      /\ BytesOf(a)[3] = a.lo \div 65536 /\ BytesOf(a)[4] = a.top
  BY DEF BytesOf
<1>9. extractAtom(i, HexLine(bundle)) = [lo |-> Joined(a.lo), top |-> a.top]
  BY <1>7, <1>8 DEF extractAtom, Joined
<1>10. Joined(a.lo) = a.lo
  BY <1>3, BytesBack
<1>. QED
  BY <1>3, <1>9, <1>10, Zenon DEF a

(* A file has a line for each line of its source.                          *)
LEMMA FileLines ==
  ASSUME Assembled, NEW h \in Images
  PROVE  /\ Core!Fits(SourceOf[h]) /\ Len(SourceOf[h]) \in Nat
         /\ Len(h) = Len(SourceOf[h])
         /\ \A k \in 1..Len(h) : h[k] = HexLine(EncodeBundle(SourceOf[h][k]))
<1>1. h \in DOMAIN SourceOf
  BY DEF Assembled
<1>2. PICK t \in Texts : Hex(t) = h /\ SourceOf[h] = Resolved(t)
  BY <1>1 DEF SourceOf
<1>3. Core!Fits(SourceOf[h])
  BY <1>1 DEF Assembled, Core!ProgramAssumption
<1>. DEFINE s == Resolved(t)
<1>4. s \in Seq(Seq(Core!Insns)) /\ Len(s) \in Nat
  BY <1>2, <1>3 DEF Core!Fits
<1>5. Assemble(t) = [k \in 1..Len(s) |-> EncodeBundle(s[k])]
  BY DEF Assemble
<1>6. Hex(t) = [k \in 1..Len(Assemble(t)) |-> HexLine(Assemble(t)[k])]
  BY DEF Hex
<1>. HIDE DEF s
<1>7. Len(Assemble(t)) = Len(s)
  BY <1>4, <1>5
<1>8. Len(h) = Len(s) /\ \A k \in 1..Len(h) : h[k] = HexLine(EncodeBundle(s[k]))
  BY <1>2, <1>4, <1>5, <1>6, <1>7
<1>. QED
  BY <1>2, <1>3, <1>4, <1>8 DEF s

(* The same encoder, here and in the core's program.                       *)
LEMMA SameEncoder ==
  ASSUME NEW insns
  PROVE  EncodeBundle(insns) = Core!EncodeBundle(insns)
<1>1. \A insn : encode(insn) = Core!encode(insn)
  BY DEF encode, Core!encode, Pack, Core!Pack, OpcodeOf, Core!OpcodeOf,
         RrrOps, Core!RrrOps, RriOps, Core!RriOps, RrsOps, Core!RrsOps,
         RrlOps, Core!RrlOps, LowField, Core!LowField, HighField, Core!HighField
<1>2. NOP = Core!NOP
  BY DEF NOP, Core!NOP
<1>. QED
  BY <1>1, <1>2 DEF EncodeBundle, Core!EncodeBundle

(* The memory as the core sees it.                                         *)
Atoms == [c \in Load!Mem!Cells |-> [i \in 1..Len(LaneNames) |-> extractAtom(i, imem[c])]]

(* A line that is encoded has an atom of the lanes in each place.          *)
LEMMA EncodedBundle ==
  ASSUME Assembled, Core!AllWellFormed, NEW h \in Images, NEW k \in 1..Len(SourceOf[h])
  PROVE  Core!EncodeBundle(SourceOf[h][k]) \in Core!Bundle
<1>. DEFINE l == SourceOf[h][k]
<1>1. SourceOf[h] \in {SourceOf[f] : f \in DOMAIN SourceOf}
  BY DEF Assembled
<1>2. Core!Machine!WellFormed(l, AtomsPerInsn)
  BY <1>1 DEF Core!AllWellFormed
<1>3. SourceOf[h] \in Seq(Seq(Core!Insns)) /\ l \in Seq(Core!Insns) /\ Len(l) \in Nat
  BY FileLines DEF Core!Fits
<1>. HIDE DEF l
<1>4. ASSUME NEW i \in 1..AtomsPerInsn, i <= Len(l)
      PROVE  Core!encode(l[i]) \in Core!Atom
  <2>1. AtomsPerInsn = Len(LaneNames) /\ Len(LaneNames) \in Nat
    BY LoadConstants DEF Assembled, Core!ProgramAssumption, Core!CoreAssumption
  <2>2. i \in 1..Len(l) /\ l[i] \in Core!Insns
    BY <1>3, <1>4, <2>1
  <2>3. Core!Machine!WellFormedInsn(l[i], i, AtomsPerInsn)
    BY <1>2, <2>2 DEF Core!Machine!WellFormed
  <2>. QED
    BY <2>2, <2>3, LoadConstants, Core!Encoded DEF Assembled, Core!Shape
<1>5. Core!NOP \in Core!Atom
  BY LoadConstants, Core!NopRow
<1>6. AtomsPerInsn = Len(LaneNames)
  BY DEF Assembled, Core!ProgramAssumption
<1>. QED
  BY <1>4, <1>5, <1>6 DEF Core!EncodeBundle, Core!Bundle, Core!Lanes, l

(* The cell of a line in a memory it fits into.                            *)
LEMMA CellIs ==
  ASSUME NEW k \in Nat, 1 <= k, k <= ImemSize
  PROVE  Load!Cell(k) = k - 1 /\ k - 1 \in Load!Mem!Cells
<1>1. /\ ImemSize \in Nat /\ Load!Mem!IndexMod \in Nat \ {0}
      /\ ImemSize <= Load!Mem!IndexMod /\ Load!Mem!Cells = 0..(ImemSize - 1)
      /\ Load!Mem!ScaledOffset % Load!Mem!IndexMod = 0
  BY LoadConstants, Load!Constants
     DEF Load!ConfigAssumption, Load!WidthAssumption, Load!SetupAssumption
<1>2. Load!Mem!ScaledOffset \in Nat
  BY LoadConstants, Load!OffsetIsNat
<1>. DEFINE j == k - 1
<1>3. j \in Nat /\ j < Load!Mem!IndexMod /\ j < ImemSize
  BY <1>1
<1>4. Load!Cell(k) = (Load!Mem!ScaledOffset + k - 1) % Load!Mem!IndexMod
  BY DEF Load!Cell, Load!Mem!PlainIndex
<1>5. Load!Mem!ScaledOffset + k - 1 = Load!Mem!ScaledOffset + j
  BY <1>2
<1>. HIDE DEF j
<1>6. (Load!Mem!ScaledOffset + j) % Load!Mem!IndexMod = j % Load!Mem!IndexMod
  BY <1>1, <1>2, <1>3, ModShift
<1>7. j % Load!Mem!IndexMod = j
  BY <1>1, <1>3
<1>. QED
  BY <1>1, <1>3, <1>4, <1>5, <1>6, <1>7 DEF j

(* When the load is done, all of the program is in memory and nothing else. *)
LEMMA WholeImage ==
  ASSUME Assembled, Core!AllWellFormed, Load!IndInv, Load!Untouched, fetch_en
  PROVE  Atoms = Core!Image(SourceOf[hex])
<1>. DEFINE s == SourceOf[hex]
<1>1. hex \in Images /\ Load!Stored = Len(hex)
  BY DEF Load!IndInv, Load!TypeOK, Load!Progress, Load!Stored
<1>2. /\ Len(s) \in Nat /\ Len(s) <= ImemSize /\ Len(hex) = Len(s)
      /\ \A k \in 1..Len(hex) : hex[k] = HexLine(EncodeBundle(s[k]))
  BY <1>1, FileLines DEF Core!Fits
<1>3. /\ ImemSize \in Nat /\ AtomsPerInsn = Len(LaneNames) /\ Len(LaneNames) \in Nat
      /\ Core!Lanes = 1..Len(LaneNames)
      /\ Load!Mem!Cells = 0..(ImemSize - 1) /\ Core!Imem!Cells = 0..(ImemSize - 1)
  BY LoadConstants DEF Assembled, Core!ProgramAssumption, Core!CoreAssumption, Core!Lanes,
                       Load!Mem!Cells, Core!Imem!Cells, Load!ConfigAssumption
<1>4. \A k \in 1..Len(s) : k \in Nat /\ 1 <= k /\ k <= ImemSize
  BY <1>2, <1>3
<1>5. \A k \in 1..Len(s) : Load!Cell(k) = k - 1 /\ k - 1 \in Load!Mem!Cells
  BY <1>4, CellIs
<1>6. ASSUME NEW c \in 0..(ImemSize - 1), c < Len(s)
      PROVE  Atoms[c] = Core!EncodeBundle(s[c + 1])
  <2>1. c + 1 \in 1..Len(s) /\ (c + 1) - 1 = c
    BY <1>2, <1>3, <1>6
  <2>2. Load!Cell(c + 1) = c
    BY <1>5, <2>1
  <2>3. \A j \in (c + 2)..Len(s) : j \in 1..Len(s) /\ j - 1 # c
    BY <1>2, <1>6
  <2>4. \A j \in (c + 2)..Len(hex) : Load!Cell(j) # c
    BY <1>2, <1>5, <2>3
  <2>5. imem[c] = hex[c + 1]
    <3>1. c + 1 + 1 = c + 2
      BY <1>6
    <3>. QED
      BY <1>1, <1>2, <1>3, <2>1, <2>2, <2>4, <3>1, LoadedFollows DEF Load!LoadedImage
  <2>. DEFINE b == Core!EncodeBundle(s[c + 1])
  <2>6. imem[c] = HexLine(b)
    BY <1>2, <2>1, <2>5, SameEncoder
  <2>7. b \in Core!Bundle
    BY <1>1, <2>1, EncodedBundle
  <2>. HIDE DEF b
  <2>8. \A i \in Core!Lanes : extractAtom(i, imem[c]) = b[i]
    BY <1>3, <2>6, <2>7, LineBack
  <2>9. Atoms[c] = [i \in Core!Lanes |-> extractAtom(i, imem[c])]
    BY <1>3, <1>6 DEF Atoms
  <2>10. b = [i \in Core!Lanes |-> b[i]]
    BY <2>7 DEF Core!Bundle
  <2>. QED
    BY <2>8, <2>9, <2>10 DEF b
<1>7. ASSUME NEW c \in 0..(ImemSize - 1), ~ (c < Len(s))
      PROVE  Atoms[c] = Core!NopBundle
  <2>1. \A k \in 1..Len(s) : k - 1 # c
    BY <1>2, <1>7
  <2>2. imem[c] = Load!PowerOnWord
    BY <1>1, <1>2, <1>3, <1>5, <2>1 DEF Load!Untouched
  <2>3. \A p \in Load!Positions : imem[c][p] = 0
    BY <2>2 DEF Load!PowerOnWord, Assembled
  <2>4. ASSUME NEW i \in 1..Len(LaneNames)
        PROVE  extractAtom(i, imem[c]) = Core!NOP
    <3>1. /\ 4*i - 4 \in Load!Positions /\ 4*i - 3 \in Load!Positions
          /\ 4*i - 2 \in Load!Positions /\ 4*i - 1 \in Load!Positions
      BY <1>3, TopAssumption DEF Load!Positions
    <3>. QED
      BY <2>3, <3>1 DEF extractAtom, Core!NOP
  <2>5. Atoms[c] = [i \in 1..Len(LaneNames) |-> extractAtom(i, imem[c])]
    BY <1>3, <1>7 DEF Atoms
  <2>. QED
    BY <1>3, <2>4, <2>5 DEF Core!NopBundle
<1>8. DOMAIN Atoms = 0..(ImemSize - 1) /\ Atoms = [c \in DOMAIN Atoms |-> Atoms[c]]
  BY <1>3 DEF Atoms
<1>9. Core!Image(s) = [c \in 0..(ImemSize - 1) |->
                         IF c < Len(s) THEN Core!EncodeBundle(s[c + 1]) ELSE Core!NopBundle]
  BY <1>3 DEF Core!Image
<1>. HIDE DEF s
<1>. QED
  BY <1>6, <1>7, <1>8, <1>9 DEF s

-----------------------------------------------------------------------------
(* The simulation is the programmer's machine.                             *)

(* What the instruction memory holds, while it is loaded and later.        *)
SourceInv ==
  /\ stage = "preload" => Load!Blank /\ Load!Untouched
  /\ fetch_en => Atoms = Core!Image(SourceOf[hex])

LEMMA SourceInit == Init => SourceInv
<1>. SUFFICES ASSUME Init PROVE SourceInv
  OBVIOUS
<1>1. ~ fetch_en
  BY DEF Init, Load!Init
<1>2. Load!Blank
  BY DEF Init, Load!Init, Load!Blank
<1>3. Load!Untouched
  BY DEF Init, Load!Init, Load!Untouched
<1>. QED
  BY <1>1, <1>2, <1>3 DEF SourceInv

LEMMA SourceStep ==
  ASSUME Assembled, Core!AllWellFormed
  PROVE  IndInv /\ SourceInv /\ [Next]_vars => SourceInv'
<1>. DEFINE Done == Load!IndInv /\ Load!Untouched /\ fetch_en
            InPlace == Atoms = Core!Image(SourceOf[hex])
<1>0. Done' => InPlace'
  <2>1. Done => InPlace
    BY WholeImage
  <2>. HIDE DEF Done, InPlace
  <2>. QED
    BY <2>1, PTL
<1>. SUFFICES ASSUME IndInv, SourceInv, [Next]_vars PROVE SourceInv'
  OBVIOUS
<1>1. ASSUME stage = "preload", Load!Next
      PROVE  SourceInv'
  <2>1. Load!IndInv /\ Load!Blank /\ Load!Untouched
    BY <1>1 DEF IndInv, Loaded, SourceInv
  <2>2. Load!IndInv' /\ Load!Blank' /\ Load!Untouched'
    BY <1>1, <2>1, LoadConstants, Load!StepInd, Load!BlankStep, Load!UntouchedStep
  <2>3. fetch_en' => InPlace'
    BY <1>0, <2>2
  <2>. QED
    BY <2>2, <2>3 DEF SourceInv
<1>2. ASSUME stage' # "preload", fetch_en' = fetch_en, hex' = hex, fetch_en => imem' = imem
      PROVE  SourceInv'
  BY <1>2 DEF SourceInv, Atoms, Core!Image
<1>3. CASE PreloadStart
  BY <1>1, <1>3 DEF PreloadStart, Load!Next
<1>4. CASE PreloadEdge
  BY <1>1, <1>4 DEF PreloadEdge, Load!Next
<1>5. CASE PreloadDone
  BY <1>1, <1>5 DEF PreloadDone, Load!Next
<1>6. CASE RaiseReset
  BY <1>2, <1>6 DEF RaiseReset, loadVars
<1>7. CASE ResetEdge
  BY <1>2, <1>7 DEF ResetEdge, Edge, Load!DebugEdge
<1>8. CASE RunCycle
  BY <1>2, <1>8 DEF RunCycle, Edge, Load!DebugEdge
<1>9. CASE LoopEnd
  BY <1>2, <1>9 DEF LoopEnd, loadVars
<1>10. CASE PreloadFails
  BY <1>2, <1>10 DEF PreloadFails, Load!CannotRead, Load!hwVars
<1>11. CASE UNCHANGED vars
  <2>1. UNCHANGED loadVars /\ stage' = stage
    BY <1>11 DEF vars, mainVars
  <2>2. Load!Blank' = Load!Blank /\ Load!Untouched' = Load!Untouched
    BY <2>1 DEF loadVars, Load!Blank, Load!Untouched, Load!Stored
  <2>. QED
    BY <2>1, <2>2 DEF SourceInv, loadVars, Atoms, Core!Image
<1>. QED
  BY <1>3, <1>4, <1>5, <1>6, <1>7, <1>8, <1>9, <1>10, <1>11 DEF Next

(* An edge of the core is a step of the machine if it runs the program, a  *)
(* restart under reset, and nothing while the program is loaded.           *)
LEMMA EdgeRuns ==
  ASSUME Assembled, Core!AllWellFormed, IndInv, SourceInv, Core!CoreEdge, hex' = hex
  PROVE  Core!Machine!Next \/ UNCHANGED Core!Machine!vars
<1>1. Core!TypeOK /\ hex \in Images /\ reset \in BOOLEAN /\ fetch_en \in BOOLEAN
  BY DEF IndInv, TypeOK, Load!TypeOK, Core!TypeOK
<1>2. CASE ~ fetch_en
  <2>1. /\ rf' = rf /\ dmem' = dmem
        /\ pc' = IF reset THEN Load!LoadBase ELSE pc
    BY <1>1, <1>2, LoadConstants, Core!IdleEdge
  <2>2. CASE reset
    <3>1. Core!Machine!ResetIdle
      BY <2>1, <2>2 DEF Core!Machine!ResetIdle
    <3>. QED
      BY <3>1 DEF Core!Machine!Next
  <2>3. CASE ~ reset
    BY <2>1, <2>3 DEF Core!Machine!vars
  <2>. QED
    BY <2>2, <2>3
<1>3. CASE fetch_en
  <2>1. Core!Holds
    BY <1>1, <1>3 DEF SourceInv, Atoms, Core!Holds, Assembled
  <2>2. /\ Core!IsaRegs' = Core!Machine!RegsAfter(Core!LineOf)
        /\ dmem' = Core!Machine!MemAfter(Core!LineOf)
        /\ pc' = IF reset THEN Load!LoadBase ELSE Core!Machine!NextAddress(Core!LineOf)
    BY <1>3, <2>1, LoadConstants, Core!RunningEdge DEF Assembled
  <2>3. Core!Machine!RunLine
    BY <2>2 DEF Core!Machine!RunLine, Core!LineOf, Core!IsaRegs
  <2>4. CASE reset
    <3>1. Core!Machine!ResetRunning
      BY <2>2, <2>3, <2>4 DEF Core!Machine!ResetRunning
    <3>. QED
      BY <3>1 DEF Core!Machine!Next
  <2>5. CASE ~ reset
    <3>1. Core!Machine!Step
      BY <2>2, <2>3, <2>5 DEF Core!Machine!Step, Core!LineOf
    <3>. QED
      BY <3>1 DEF Core!Machine!Next
  <2>. QED
    BY <2>4, <2>5
<1>. QED
  BY <1>1, <1>2, <1>3

LEMMA MachineStep ==
  ASSUME Assembled, Core!AllWellFormed, IndInv, SourceInv, [Next]_vars
  PROVE  [Core!Machine!Next]_(Core!Machine!vars)
<1>1. ASSUME hex' = hex, UNCHANGED coreVars
      PROVE  UNCHANGED Core!Machine!vars
  BY <1>1 DEF Core!Machine!vars, coreVars
<1>2. ASSUME hex' = hex, Core!CoreEdge
      PROVE  [Core!Machine!Next]_(Core!Machine!vars)
  BY <1>2, EdgeRuns
<1>3. CASE PreloadStart
  BY <1>1, <1>3, LoadConstants DEF PreloadStart, Load!StartPreload, Load!SetupAssumption
<1>4. CASE PreloadEdge
  BY <1>2, <1>4 DEF PreloadEdge, Load!SendByte, Load!FlushCycle
<1>5. CASE PreloadDone
  BY <1>1, <1>5 DEF PreloadDone, Load!ReleaseFetch
<1>6. CASE RaiseReset
  BY <1>1, <1>6 DEF RaiseReset, loadVars
<1>7. CASE ResetEdge
  BY <1>2, <1>7 DEF ResetEdge, Edge
<1>8. CASE RunCycle
  BY <1>2, <1>8 DEF RunCycle, Edge
<1>9. CASE LoopEnd
  BY <1>1, <1>9 DEF LoopEnd, loadVars
<1>10. CASE PreloadFails
  BY <1>1, <1>10 DEF PreloadFails, Load!CannotRead
<1>11. CASE UNCHANGED vars
  BY <1>1, <1>11 DEF vars, loadVars
<1>. QED
  BY <1>3, <1>4, <1>5, <1>6, <1>7, <1>8, <1>9, <1>10, <1>11 DEF Next

(* From the source to the running core (RunsSource): whatever well-formed  *)
(* program is assembled (asm.py), loaded byte by byte through the debug    *)
(* port (tb.cc:73-111, Debug.scala, Deserializer.scala) and started by     *)
(* reset(), the simulation takes the steps of the programmer's machine on  *)
(* the source lines and no others, with the memory sizes, lanes and        *)
(* contents of registers and memory any that the configuration allows.     *)
THEOREM SourceRuns ==
  ASSUME Assembled, Core!AllWellFormed
  PROVE  Spec => RunsSource
<1>1. Init => Core!Machine!Init
  BY DEF Core!Machine!Init
<1>2. IndInv /\ SourceInv /\ [Next]_vars => SourceInv'
  BY SourceStep
<1>3. IndInv /\ SourceInv /\ [Next]_vars => [Core!Machine!Next]_(Core!Machine!vars)
  BY MachineStep
<1>. QED
  BY InitInd, StepInd, SourceInit, <1>1, <1>2, <1>3, PTL
     DEF Spec, RunsSource, Core!RunsIsa, Core!Machine!Spec

-----------------------------------------------------------------------------
(* The clean start.  A step of the machine as a function of registers and  *)
(* memory, to compare steps from different ones.                           *)
RegsBy(regs, insns) ==
  [r \in 0..15 |->
     IF r # 0 /\ \E i \in 1..Len(insns) : Core!Machine!Dest(insns[i]) = r
     THEN Core!Machine!Value(regs, insns[CHOOSE i \in 1..Len(insns) :
                                           Core!Machine!Dest(insns[i]) = r])
     ELSE regs[r]]

MemBy(regs, mem, insns) ==
  [m \in 0..(DmemSize - 1) |->
     IF \E i \in 1..Len(insns) :
          insns[i].op = "sw" /\ Core!Machine!MemIndex(regs, insns[i]) = m
     THEN LET i == CHOOSE i \in 1..Len(insns) : insns[i].op = "sw"
          IN regs[insns[i].rs2]
     ELSE mem[m]]

NextBy(regs, at, insns) ==
  IF insns # <<>> THEN Core!Machine!TargetOf(regs, insns[1], at)
  ELSE (at + InsnLenBytes) % PcMod

(* What the two machines start from and are at.                            *)
ZeroRegs == [r \in 0..15 |-> 0]
ZeroMem == [m \in Core!Dmem!Cells |-> 0]
CleanAt == IF Started THEN pc ELSE Load!LoadBase
CleanRegs == [r \in 0..15 |-> IF Started /\ r # 0 THEN rf[r] ELSE 0]
CleanMem == IF Started THEN dmem ELSE ZeroMem
FirstLine == IF 1 <= Len(SourceOf[hex]) THEN SourceOf[hex][1] ELSE <<>>

LEMMA CoreStepIs ==
  ASSUME NEW insns
  PROVE  /\ Core!Machine!RegsAfter(insns) = RegsBy(Core!IsaRegs, insns)
         /\ Core!Machine!MemAfter(insns) = MemBy(Core!IsaRegs, dmem, insns)
         /\ Core!Machine!NextAddress(insns) = NextBy(Core!IsaRegs, pc, insns)
BY DEF Core!Machine!RegsAfter, RegsBy, Core!IsaRegs, Core!Machine!MemAfter, MemBy,
       Core!Machine!NextAddress, NextBy

(* The machines are one machine but for what they start from.              *)
LEMMA SameMachine ==
  /\ \A insn : CleanMachine!Dest(insn) = Core!Machine!Dest(insn)
  /\ \A r, insn : Core!Machine!Dest(insn) # 0 =>
       CleanMachine!Value(r, insn) = Core!Machine!Value(r, insn)
  /\ \A r, insn, at : CleanMachine!TargetOf(r, insn, at) = Core!Machine!TargetOf(r, insn, at)
  /\ \A r, insn : CleanMachine!MemIndex(r, insn) = Core!Machine!MemIndex(r, insn)
  /\ \A at : CleanMachine!LineAt(at) = Core!Machine!LineAt(at)
<1>1. \A insn : CleanMachine!Dest(insn) = Core!Machine!Dest(insn)
  BY DEF CleanMachine!Dest, Core!Machine!Dest, CleanMachine!RegOps, Core!Machine!RegOps,
         CleanMachine!ImmOps, Core!Machine!ImmOps
<1>2. \A x, y : CleanMachine!Common(x, y) = Core!Machine!Common(x, y)
  BY DEF CleanMachine!Common, Core!Machine!Common, CleanMachine!BitOf, Core!Machine!BitOf
<1>3. \A x : /\ CleanMachine!Unsigned(x) = Core!Machine!Unsigned(x)
             /\ CleanMachine!AsSigned(x) = Core!Machine!AsSigned(x)
  BY DEF CleanMachine!Unsigned, Core!Machine!Unsigned, CleanMachine!AsSigned,
         Core!Machine!AsSigned
<1>4. ASSUME NEW r, NEW insn, Core!Machine!Dest(insn) # 0
      PROVE  CleanMachine!Value(r, insn) = Core!Machine!Value(r, insn)
  <2>1. insn.op \in Core!Machine!RegOps \union Core!Machine!ImmOps \union {"jr"}
    BY <1>4 DEF Core!Machine!Dest
  <2>. QED
    BY <1>2, <1>3, <2>1, SMT
       DEF CleanMachine!Value, Core!Machine!Value, CleanMachine!ImmOps,
           Core!Machine!ImmOps, Core!Machine!RegOps
<1>5. \A r, insn, at :
        CleanMachine!TargetOf(r, insn, at) = Core!Machine!TargetOf(r, insn, at)
  BY DEF CleanMachine!TargetOf, Core!Machine!TargetOf
<1>6. \A r, insn : CleanMachine!MemIndex(r, insn) = Core!Machine!MemIndex(r, insn)
  BY <1>3 DEF CleanMachine!MemIndex, Core!Machine!MemIndex
<1>7. \A at : CleanMachine!LineAt(at) = Core!Machine!LineAt(at)
  BY DEF CleanMachine!LineAt, Core!Machine!LineAt
<1>. QED
  BY <1>1, <1>4, <1>5, <1>6, <1>7

LEMMA CleanStepIs ==
  ASSUME NEW insns
  PROVE  /\ CleanMachine!RegsAfter(insns) = RegsBy(CleanRegs, insns)
         /\ CleanMachine!MemAfter(insns) = MemBy(CleanRegs, CleanMem, insns)
         /\ CleanMachine!NextAddress(insns) = NextBy(CleanRegs, CleanAt, insns)
<1>1. CleanMachine!RegsAfter(insns) = RegsBy(CleanRegs, insns)
  <2>. DEFINE giver(r) == CHOOSE i \in 1..Len(insns) : Core!Machine!Dest(insns[i]) = r
  <2>1. ASSUME NEW r \in 0..15, r # 0,
               \E i \in 1..Len(insns) : Core!Machine!Dest(insns[i]) = r
        PROVE  CleanMachine!Value(CleanRegs, insns[giver(r)])
                 = Core!Machine!Value(CleanRegs, insns[giver(r)])
    <3>1. Core!Machine!Dest(insns[giver(r)]) # 0
      BY <2>1
    <3>. QED
      BY <3>1, SameMachine
  <2>2. CleanMachine!RegsAfter(insns)
          = [r \in 0..15 |->
               IF r # 0 /\ \E i \in 1..Len(insns) : Core!Machine!Dest(insns[i]) = r
               THEN CleanMachine!Value(CleanRegs, insns[giver(r)]) ELSE CleanRegs[r]]
    BY SameMachine DEF CleanMachine!RegsAfter, CleanRegs
  <2>3. RegsBy(CleanRegs, insns)
          = [r \in 0..15 |->
               IF r # 0 /\ \E i \in 1..Len(insns) : Core!Machine!Dest(insns[i]) = r
               THEN Core!Machine!Value(CleanRegs, insns[giver(r)]) ELSE CleanRegs[r]]
    BY DEF RegsBy
  <2>. HIDE DEF giver
  <2>. QED
    BY <2>1, <2>2, <2>3
<1>2. CleanMachine!MemAfter(insns) = MemBy(CleanRegs, CleanMem, insns)
  BY SameMachine DEF CleanMachine!MemAfter, MemBy, CleanRegs, CleanMem, ZeroMem
<1>3. CleanMachine!NextAddress(insns) = NextBy(CleanRegs, CleanAt, insns)
  BY SameMachine DEF CleanMachine!NextAddress, NextBy, CleanRegs, CleanAt
<1>. QED
  BY <1>1, <1>2, <1>3

(* A line that gives nothing it takes leaves what it takes alone, so it    *)
(* does the same again.                                                    *)
LEMMA RunTwice ==
  ASSUME NEW insns \in Seq(Core!Insns), Core!Machine!Repeatable(insns),
         NEW r0, DOMAIN r0 = 0..15, NEW m0, NEW at
  PROVE  LET r1 == RegsBy(r0, insns)
             m1 == MemBy(r0, m0, insns)
         IN /\ RegsBy(r1, insns) = r1
            /\ MemBy(r1, m1, insns) = m1
            /\ NextBy(r1, at, insns) = NextBy(r0, at, insns)
<1>. DEFINE r1 == RegsBy(r0, insns)
            m1 == MemBy(r0, m0, insns)
            given(r) == \E i \in 1..Len(insns) : Core!Machine!Dest(insns[i]) = r
            giver(r) == CHOOSE i \in 1..Len(insns) : Core!Machine!Dest(insns[i]) = r
            hit(r, m) == \E i \in 1..Len(insns) :
                           insns[i].op = "sw" /\ Core!Machine!MemIndex(r, insns[i]) = m
            storing == CHOOSE i \in 1..Len(insns) : insns[i].op = "sw"
<1>1. \A i \in 1..Len(insns) : insns[i] \in Core!Insns
  OBVIOUS
<1>2. ASSUME NEW r
      PROVE  RegsBy(r, insns)
               = [d \in 0..15 |-> IF d # 0 /\ given(d)
                                  THEN Core!Machine!Value(r, insns[giver(d)]) ELSE r[d]]
  BY DEF RegsBy
<1>3. ASSUME NEW r, NEW mem
      PROVE  MemBy(r, mem, insns)
               = [m \in 0..(DmemSize - 1) |-> IF hit(r, m) THEN r[insns[storing].rs2]
                                              ELSE mem[m]]
  BY DEF MemBy
<1>4. ASSUME NEW i \in 1..Len(insns), NEW x \in Core!Machine!Reads(insns[i])
      PROVE  r1[x] = r0[x]
  <2>1. x \in 0..15
    BY <1>1, <1>4 DEF Core!Machine!Reads, Core!Insns
  <2>2. ~ (x # 0 /\ given(x))
    BY <1>4 DEF Core!Machine!Repeatable
  <2>. HIDE DEF given, giver
  <2>. QED
    BY <1>2, <2>1, <2>2
<1>. HIDE DEF r1, m1
<1>5. ASSUME NEW i \in 1..Len(insns)
      PROVE  /\ r1[insns[i].rs1] = r0[insns[i].rs1]
             /\ insns[i].op \notin Core!Machine!ImmOps =>
                  r1[insns[i].rs2] = r0[insns[i].rs2]
  <2>1. /\ insns[i].rs1 \in Core!Machine!Reads(insns[i])
        /\ insns[i].op \notin Core!Machine!ImmOps =>
             insns[i].rs2 \in Core!Machine!Reads(insns[i])
    BY DEF Core!Machine!Reads
  <2>. QED
    BY <1>4, <2>1
<1>6. ASSUME NEW i \in 1..Len(insns), Core!Machine!Dest(insns[i]) # 0
      PROVE  Core!Machine!Value(r1, insns[i]) = Core!Machine!Value(r0, insns[i])
  <2>1. insns[i].op \in Core!Machine!RegOps \union Core!Machine!ImmOps \union {"jr"}
    BY <1>6 DEF Core!Machine!Dest
  <2>. QED
    BY <1>5, <2>1, SMT DEF Core!Machine!Value, Core!Machine!ImmOps, Core!Machine!RegOps
<1>7. ASSUME NEW i \in 1..Len(insns)
      PROVE  Core!Machine!MemIndex(r1, insns[i]) = Core!Machine!MemIndex(r0, insns[i])
  BY <1>5 DEF Core!Machine!MemIndex
<1>8. ASSUME NEW i \in 1..Len(insns)
      PROVE  Core!Machine!TargetOf(r1, insns[i], at) = Core!Machine!TargetOf(r0, insns[i], at)
  BY <1>5 DEF Core!Machine!TargetOf, Core!Machine!ImmOps
<1>9. RegsBy(r1, insns) = r1
  <2>1. ASSUME NEW d, d # 0, given(d)
        PROVE  Core!Machine!Value(r1, insns[giver(d)]) = Core!Machine!Value(r0, insns[giver(d)])
    <3>1. giver(d) \in 1..Len(insns) /\ Core!Machine!Dest(insns[giver(d)]) = d
      BY <2>1
    <3>. HIDE DEF giver
    <3>. QED
      BY <1>6, <2>1, <3>1
  <2>. HIDE DEF given, giver
  <2>2. r1 = [d \in 0..15 |-> IF d # 0 /\ given(d)
                              THEN Core!Machine!Value(r0, insns[giver(d)]) ELSE r0[d]]
    BY <1>2 DEF r1
  <2>3. RegsBy(r1, insns)
          = [d \in 0..15 |-> IF d # 0 /\ given(d)
                             THEN Core!Machine!Value(r1, insns[giver(d)]) ELSE r1[d]]
    BY <1>2
  <2>4. \A d \in 0..15 : ~ (d # 0 /\ given(d)) => r1[d] = r0[d]
    BY <2>2
  <2>. QED
    BY <2>1, <2>2, <2>3, <2>4
<1>10. MemBy(r1, m1, insns) = m1
  <2>1. \A m : hit(r1, m) <=> hit(r0, m)
    BY <1>7
  <2>2. ASSUME NEW m, hit(r0, m)
        PROVE  r1[insns[storing].rs2] = r0[insns[storing].rs2]
    <3>1. storing \in 1..Len(insns) /\ insns[storing].op = "sw"
      BY <2>2
    <3>. HIDE DEF storing
    <3>. QED
      BY <1>5, <3>1 DEF Core!Machine!ImmOps
  <2>. HIDE DEF hit, storing
  <2>3. m1 = [m \in 0..(DmemSize - 1) |-> IF hit(r0, m) THEN r0[insns[storing].rs2] ELSE m0[m]]
    BY <1>3 DEF m1
  <2>4. MemBy(r1, m1, insns)
          = [m \in 0..(DmemSize - 1) |-> IF hit(r1, m) THEN r1[insns[storing].rs2] ELSE m1[m]]
    BY <1>3
  <2>. QED
    BY <2>1, <2>2, <2>3, <2>4
<1>11. NextBy(r1, at, insns) = NextBy(r0, at, insns)
  <2>1. insns # <<>> => 1 \in 1..Len(insns)
    OBVIOUS
  <2>. QED
    BY <1>8, <2>1 DEF NextBy
<1>. QED
  BY <1>9, <1>10, <1>11 DEF r1, m1

LEMMA FirstLineIs ==
  ASSUME Assembled, StartsClean, hex \in Images,
         NEW p, p = Load!LoadBase \/ p \in PowerOnPCs
  PROVE  /\ Core!Machine!LineAt(p) = FirstLine
         /\ FirstLine \in Seq(Core!Insns) /\ Core!Machine!Repeatable(FirstLine)
<1>1. Core!Fits(SourceOf[hex]) /\ Len(SourceOf[hex]) \in Nat
  BY FileLines
<1>2. ((p - Load!LoadBase) \div InsnLenBytes) % Core!Imem!IndexMod = 0
  <2>1. CASE p = Load!LoadBase
    <3>1. InsnLenBytes \in Nat \ {0} /\ Core!Imem!IndexMod \in Nat \ {0}
      <4>1. /\ ImemSize \in Nat \ {0} /\ InsnLenBytes \in Nat \ {0}
            /\ Core!Imem!IndexMod \in Nat /\ ImemSize <= Core!Imem!IndexMod
        BY LoadConstants DEF Assembled, Core!ProgramAssumption, Load!ConfigAssumption
      <4>. QED
        BY <4>1
    <3>2. p - Load!LoadBase = 0
      BY <2>1 DEF Load!LoadBase
    <3>3. 0 \div InsnLenBytes = 0 /\ 0 % Core!Imem!IndexMod = 0
      BY <3>1
    <3>. QED
      BY <3>2, <3>3
  <2>2. CASE p \in PowerOnPCs
    BY <2>2 DEF StartsClean
  <2>. QED
    BY <2>1, <2>2
<1>3. Core!Machine!LineAt(p) = FirstLine
  BY <1>2 DEF Core!Machine!LineAt, FirstLine
<1>4. CASE 1 <= Len(SourceOf[hex])
  <2>1. FirstLine = SourceOf[hex][1] /\ 1 \in 1..Len(SourceOf[hex])
    BY <1>1, <1>4 DEF FirstLine
  <2>2. FirstLine \in Seq(Core!Insns)
    BY <1>1, <2>1 DEF Core!Fits
  <2>3. Core!Machine!Repeatable(FirstLine)
    <3>1. Len(SourceOf[hex]) > 0 /\ hex \in DOMAIN SourceOf
      BY <1>1, <1>4 DEF Assembled
    <3>. QED
      BY <2>1, <3>1 DEF StartsClean
  <2>. QED
    BY <1>3, <2>2, <2>3
<1>5. CASE ~ (1 <= Len(SourceOf[hex]))
  <2>1. FirstLine = <<>>
    BY <1>5 DEF FirstLine
  <2>. QED
    BY <1>3, <2>1 DEF Core!Machine!Repeatable
<1>. QED
  BY <1>4, <1>5

(* Nothing was shown before the first cycle, but for the first line that   *)
(* the edge of reset() runs.                                               *)
ZeroState == pc \in PowerOnPCs /\ Core!IsaRegs = ZeroRegs /\ dmem = ZeroMem
FirstRun ==
  /\ pc = Load!LoadBase
  /\ Core!IsaRegs = IF fetch_en THEN RegsBy(ZeroRegs, FirstLine) ELSE ZeroRegs
  /\ dmem = IF fetch_en THEN MemBy(ZeroRegs, ZeroMem, FirstLine) ELSE ZeroMem

CleanInv ==
  /\ stage # "reset" => ~ reset
  /\ stage \in {"preload", "missing", "reset"} => ZeroState
  /\ stage = "run" /\ cycle = 0 => FirstRun
  /\ stage = "exit" => cycle > 0

LEMMA CleanInit == StartsClean => (Init => CleanInv)
<1>. SUFFICES ASSUME StartsClean, Init PROVE CleanInv
  OBVIOUS
<1>1. stage \in {"preload", "missing", "reset"} /\ ~ reset /\ pc \in PowerOnPCs
  BY TopAssumption DEF Init, FirstStage
<1>2. rf = [r \in Core!Regs |-> 0] /\ dmem = ZeroMem
  BY DEF Init, StartsClean, ZeroMem
<1>3. Core!IsaRegs = ZeroRegs
  BY <1>2 DEF Core!IsaRegs, ZeroRegs, Core!Regs
<1>. QED
  BY <1>1, <1>2, <1>3 DEF CleanInv, ZeroState

(* What an edge does, running or idle.                                     *)
LEMMA RunEdge ==
  ASSUME Assembled, Core!AllWellFormed, IndInv, SourceInv, Core!CoreEdge, fetch_en
  PROVE  LET insns == Core!Machine!LineAt(pc)
         IN /\ Core!IsaRegs' = RegsBy(Core!IsaRegs, insns)
            /\ dmem' = MemBy(Core!IsaRegs, dmem, insns)
            /\ pc' = IF reset THEN Load!LoadBase
                     ELSE NextBy(Core!IsaRegs, pc, insns)
<1>1. Core!TypeOK /\ hex \in Images
  BY DEF IndInv, TypeOK, Load!TypeOK
<1>2. Core!Holds
  BY <1>1 DEF SourceInv, Atoms, Core!Holds, Assembled
<1>3. /\ Core!IsaRegs' = Core!Machine!RegsAfter(Core!LineOf)
      /\ dmem' = Core!Machine!MemAfter(Core!LineOf)
      /\ pc' = IF reset THEN Load!LoadBase ELSE Core!Machine!NextAddress(Core!LineOf)
  BY <1>2, LoadConstants, Core!RunningEdge DEF Assembled
<1>. QED
  BY <1>3, CoreStepIs DEF Core!LineOf

LEMMA RestEdge ==
  ASSUME IndInv, Core!CoreEdge, ~ fetch_en
  PROVE  /\ Core!IsaRegs' = Core!IsaRegs /\ dmem' = dmem
         /\ pc' = IF reset THEN Load!LoadBase ELSE pc
<1>1. Core!TypeOK
  BY DEF IndInv, TypeOK
<1>2. rf' = rf /\ dmem' = dmem /\ pc' = IF reset THEN Load!LoadBase ELSE pc
  BY <1>1, LoadConstants, Core!IdleEdge
<1>. QED
  BY <1>2 DEF Core!IsaRegs

(* The edge of reset() brings the machine to the first line.               *)
LEMMA ResetShows ==
  ASSUME Assembled, Core!AllWellFormed, StartsClean, IndInv, SourceInv, CleanInv, ResetEdge
  PROVE  FirstRun'
<1>1. /\ stage = "reset" /\ reset /\ Core!CoreEdge
      /\ hex' = hex /\ fetch_en' = fetch_en /\ hex \in Images
  BY DEF ResetEdge, Edge, IndInv, TypeOK, Load!TypeOK
<1>2. ZeroState
  BY <1>1 DEF CleanInv
<1>3. Core!Machine!LineAt(pc) = FirstLine
  BY <1>1, <1>2, FirstLineIs DEF ZeroState
<1>4. RegsBy(ZeroRegs, FirstLine)' = RegsBy(ZeroRegs, FirstLine)
  BY <1>1 DEF RegsBy, ZeroRegs, FirstLine, Core!Machine!Dest, Core!Machine!Value
<1>5. MemBy(ZeroRegs, ZeroMem, FirstLine)' = MemBy(ZeroRegs, ZeroMem, FirstLine)
  BY <1>1 DEF MemBy, ZeroRegs, ZeroMem, FirstLine, Core!Machine!MemIndex
<1>6. CASE fetch_en
  BY <1>1, <1>2, <1>3, <1>4, <1>5, <1>6, RunEdge DEF ZeroState, FirstRun
<1>7. CASE ~ fetch_en
  BY <1>1, <1>2, <1>7, RestEdge DEF ZeroState, FirstRun, ZeroRegs, ZeroMem
<1>. QED
  BY <1>6, <1>7

LEMMA CleanKept ==
  ASSUME Assembled, Core!AllWellFormed, StartsClean
  PROVE  IndInv /\ SourceInv /\ CleanInv /\ [Next]_vars => CleanInv'
<1>. SUFFICES ASSUME IndInv, SourceInv, CleanInv, [Next]_vars PROVE CleanInv'
  OBVIOUS
<1>0. cycle \in Nat /\ MaxCycles \in Nat \ {0}
  BY TopAssumption DEF IndInv, TypeOK
<1>1. ASSUME stage \in {"preload", "reset"}, stage' \in {"preload", "reset"},
             UNCHANGED coreVars, stage' # "reset" => ~ reset'
      PROVE  CleanInv'
  BY <1>1 DEF CleanInv, ZeroState, coreVars, Core!IsaRegs, ZeroRegs, ZeroMem
<1>2. CASE PreloadStart
  BY <1>1, <1>2, LoadConstants DEF PreloadStart, Load!SetupAssumption, mainVars, CleanInv
<1>3. CASE PreloadEdge
  <2>1. /\ stage = "preload" /\ stage' = "preload" /\ Core!CoreEdge /\ reset' = reset
        /\ ~ reset /\ phase = "load"
    BY <1>3 DEF PreloadEdge, Load!SendByte, Load!FlushCycle, mainVars, CleanInv
  <2>2. ~ fetch_en
    BY <2>1 DEF IndInv, Loaded, Load!IndInv, Load!Progress
  <2>3. Core!IsaRegs' = Core!IsaRegs /\ dmem' = dmem /\ pc' = pc
    BY <2>1, <2>2, RestEdge
  <2>. QED
    BY <2>1, <2>3 DEF CleanInv, ZeroState, ZeroRegs, ZeroMem
<1>4. CASE PreloadDone
  BY <1>1, <1>4 DEF PreloadDone
<1>5. CASE RaiseReset
  BY <1>1, <1>5 DEF RaiseReset
<1>6. CASE ResetEdge
  <2>1. FirstRun'
    BY <1>6, ResetShows
  <2>. QED
    BY <1>6, <2>1 DEF ResetEdge, CleanInv
<1>7. CASE RunCycle
  <2>1. /\ stage = "run" /\ stage' \in {"run", "exit"} /\ cycle' = cycle + 1
        /\ reset' = reset
    BY <1>7 DEF RunCycle
  <2>2. cycle' > 0
    BY <1>0, <2>1
  <2>. QED
    BY <2>1, <2>2 DEF CleanInv
<1>8. CASE LoopEnd
  BY <1>0, <1>8 DEF LoopEnd, CleanInv
<1>9. CASE PreloadFails
  BY <1>9 DEF PreloadFails, CleanInv
<1>10. CASE UNCHANGED vars
  <2>1. UNCHANGED loadVars /\ UNCHANGED coreVars /\ UNCHANGED mainVars
    BY <1>10 DEF vars
  <2>2. hex' = hex /\ fetch_en' = fetch_en
    BY <2>1 DEF loadVars
  <2>3. RegsBy(ZeroRegs, FirstLine)' = RegsBy(ZeroRegs, FirstLine)
    BY <2>2 DEF RegsBy, ZeroRegs, FirstLine, Core!Machine!Dest, Core!Machine!Value
  <2>4. MemBy(ZeroRegs, ZeroMem, FirstLine)' = MemBy(ZeroRegs, ZeroMem, FirstLine)
    BY <2>2 DEF MemBy, ZeroRegs, ZeroMem, FirstLine, Core!Machine!MemIndex
  <2>5. FirstRun' = FirstRun /\ ZeroState' = ZeroState
    BY <2>1, <2>2, <2>3, <2>4
       DEF coreVars, FirstRun, ZeroState, Core!IsaRegs, ZeroRegs, ZeroMem
  <2>. QED
    BY <2>1, <2>5 DEF CleanInv, mainVars
<1>. QED
  BY <1>2, <1>3, <1>4, <1>5, <1>6, <1>7, <1>8, <1>9, <1>10 DEF Next

(* A cycle of the run loop is a step of the clean machine: the first runs  *)
(* the first line again, which shows what running it once from power-on    *)
(* shows.                                                                  *)
LEMMA CycleShows ==
  ASSUME Assembled, Core!AllWellFormed, StartsClean, IndInv, SourceInv, CleanInv,
         RunCycle, fetch_en
  PROVE  CleanMachine!Step
<1>. DEFINE insns == Core!Machine!LineAt(pc)
<1>1. /\ stage = "run" /\ ~ reset /\ Core!CoreEdge /\ hex' = hex /\ hex \in Images
      /\ stage' \in {"run", "exit"} /\ cycle' = cycle + 1 /\ cycle \in Nat
  BY DEF RunCycle, Edge, CleanInv, IndInv, TypeOK, Load!TypeOK
<1>2. Started'
  BY <1>1 DEF Started
<1>3. /\ Core!IsaRegs' = RegsBy(Core!IsaRegs, insns)
      /\ dmem' = MemBy(Core!IsaRegs, dmem, insns)
      /\ pc' = NextBy(Core!IsaRegs, pc, insns)
  BY <1>1, RunEdge
<1>4. CleanRegs' = Core!IsaRegs' /\ CleanMem' = dmem' /\ CleanAt' = pc'
  BY <1>2 DEF CleanRegs, CleanMem, CleanAt, Core!IsaRegs
<1>5. /\ CleanMachine!LineAt(CleanAt) = insns
      /\ Core!IsaRegs' = RegsBy(CleanRegs, insns)
      /\ dmem' = MemBy(CleanRegs, CleanMem, insns)
      /\ pc' = NextBy(CleanRegs, CleanAt, insns)
  <2>1. CASE cycle = 0
    <3>1. ~ Started /\ FirstRun
      BY <1>1, <2>1 DEF Started, CleanInv
    <3>2. CleanRegs = ZeroRegs /\ CleanMem = ZeroMem /\ CleanAt = Load!LoadBase
      BY <3>1 DEF CleanRegs, CleanMem, CleanAt, ZeroRegs
    <3>3. /\ pc = Load!LoadBase /\ Core!IsaRegs = RegsBy(ZeroRegs, FirstLine)
          /\ dmem = MemBy(ZeroRegs, ZeroMem, FirstLine)
      BY <3>1 DEF FirstRun
    <3>4. /\ insns = FirstLine /\ FirstLine \in Seq(Core!Insns)
          /\ Core!Machine!Repeatable(FirstLine)
      BY <1>1, <3>3, FirstLineIs
    <3>5. DOMAIN ZeroRegs = 0..15
      BY DEF ZeroRegs
    <3>6. /\ RegsBy(Core!IsaRegs, FirstLine) = RegsBy(ZeroRegs, FirstLine)
          /\ MemBy(Core!IsaRegs, dmem, FirstLine) = MemBy(ZeroRegs, ZeroMem, FirstLine)
          /\ NextBy(Core!IsaRegs, pc, FirstLine) = NextBy(ZeroRegs, pc, FirstLine)
      BY <3>3, <3>4, <3>5, RunTwice
    <3>7. CleanMachine!LineAt(CleanAt) = insns
      BY <3>2, <3>3, SameMachine
    <3>. HIDE DEF insns
    <3>. QED
      BY <1>3, <3>2, <3>3, <3>4, <3>6, <3>7
  <2>2. CASE cycle # 0
    <3>1. Started
      BY <1>1, <2>2 DEF Started
    <3>2. CleanRegs = Core!IsaRegs /\ CleanMem = dmem /\ CleanAt = pc
      BY <3>1 DEF CleanRegs, CleanMem, CleanAt, Core!IsaRegs
    <3>3. CleanMachine!LineAt(CleanAt) = insns
      BY <3>2, SameMachine
    <3>. HIDE DEF insns
    <3>. QED
      BY <1>3, <3>2, <3>3
  <2>. QED
    BY <2>1, <2>2
<1>. HIDE DEF insns
<1>6. /\ CleanRegs' = CleanMachine!RegsAfter(insns)
      /\ CleanMem' = CleanMachine!MemAfter(insns)
      /\ CleanAt' = CleanMachine!NextAddress(insns)
  BY <1>4, <1>5, CleanStepIs
<1>7. SourceOf[hex]' = SourceOf[hex]
  BY <1>1
<1>. QED
  BY <1>5, <1>6, <1>7
     DEF CleanMachine!Step, CleanMachine!RunLine, CleanRegs, CleanMem, CleanAt, ZeroMem

LEMMA CleanRunStep ==
  ASSUME Assembled, Core!AllWellFormed, StartsClean
  PROVE  IndInv /\ SourceInv /\ CleanInv /\ [Next]_vars
           => [CleanMachine!Step]_(CleanMachine!vars)
<1>. SUFFICES ASSUME IndInv, SourceInv, CleanInv, [Next]_vars
     PROVE  [CleanMachine!Step]_(CleanMachine!vars)
  OBVIOUS
<1>0. MaxCycles \in Nat \ {0} /\ cycle \in Nat
  BY TopAssumption DEF IndInv, TypeOK
<1>1. ASSUME UNCHANGED <<hex, CleanAt, CleanRegs, CleanMem>>
      PROVE  UNCHANGED CleanMachine!vars
  <2>1. SourceOf[hex]' = SourceOf[hex]
    BY <1>1
  <2>. QED
    BY <1>1, <2>1 DEF CleanMachine!vars, CleanAt, CleanRegs, CleanMem, ZeroMem
<1>2. ASSUME ~ Started, ~ Started', hex' = hex
      PROVE  UNCHANGED CleanMachine!vars
  BY <1>1, <1>2 DEF CleanAt, CleanRegs, CleanMem, ZeroMem
<1>3. ASSUME Started' = Started, UNCHANGED coreVars, hex' = hex
      PROVE  UNCHANGED CleanMachine!vars
  BY <1>1, <1>3 DEF CleanAt, CleanRegs, CleanMem, ZeroMem, coreVars
<1>4. CASE PreloadStart
  BY <1>2, <1>4 DEF PreloadStart, Load!StartPreload, mainVars, Started
<1>5. CASE PreloadEdge
  BY <1>2, <1>5 DEF PreloadEdge, Load!SendByte, Load!FlushCycle, mainVars, Started
<1>6. CASE PreloadDone
  BY <1>2, <1>6 DEF PreloadDone, Load!ReleaseFetch, Started
<1>7. CASE RaiseReset
  BY <1>2, <1>7 DEF RaiseReset, loadVars, Started
<1>8. CASE ResetEdge
  <2>1. cycle' = cycle /\ cycle = 0 /\ hex' = hex /\ stage = "reset"
    BY <1>8 DEF ResetEdge, Edge, IndInv, Running
  <2>. QED
    BY <1>2, <2>1 DEF Started
<1>9. CASE RunCycle
  <2>1. CASE fetch_en
    BY <1>9, <2>1, CycleShows
  <2>2. CASE ~ fetch_en
    <3>1. /\ stage = "run" /\ ~ reset /\ Core!CoreEdge /\ hex' = hex
          /\ stage' \in {"run", "exit"} /\ cycle' = cycle + 1
      BY <1>9 DEF RunCycle, Edge, CleanInv
    <3>2. Core!IsaRegs' = Core!IsaRegs /\ dmem' = dmem /\ pc' = pc
      BY <2>2, <3>1, RestEdge
    <3>3. Started'
      BY <1>0, <3>1 DEF Started
    <3>4. CleanRegs' = Core!IsaRegs' /\ CleanMem' = dmem' /\ CleanAt' = pc'
      BY <3>3 DEF CleanRegs, CleanMem, CleanAt, Core!IsaRegs
    <3>5. CleanRegs = Core!IsaRegs /\ CleanMem = dmem /\ CleanAt = pc
      <4>1. CASE cycle = 0
        BY <2>2, <3>1, <4>1
           DEF CleanInv, FirstRun, Started, CleanRegs, CleanMem, CleanAt, ZeroRegs
      <4>2. CASE cycle # 0
        <5>1. Started
          BY <1>0, <3>1, <4>2 DEF Started
        <5>. QED
          BY <5>1 DEF CleanRegs, CleanMem, CleanAt, Core!IsaRegs
      <4>. QED
        BY <4>1, <4>2
    <3>. QED
      BY <1>1, <3>1, <3>2, <3>4, <3>5
  <2>. QED
    BY <2>1, <2>2
<1>10. CASE LoopEnd
  <2>1. Started' = Started /\ UNCHANGED coreVars /\ hex' = hex
    BY <1>0, <1>10 DEF LoopEnd, Started, loadVars
  <2>. QED
    BY <1>3, <2>1
<1>11. CASE PreloadFails
  BY <1>2, <1>11 DEF PreloadFails, Load!CannotRead, Started
<1>12. CASE UNCHANGED vars
  BY <1>3, <1>12 DEF vars, loadVars, mainVars, Started
<1>. QED
  BY <1>4, <1>5, <1>6, <1>7, <1>8, <1>9, <1>10, <1>11, <1>12 DEF Next

(* A program whose first line can be run twice runs as if from power-on    *)
(* (CleanStart), although reset() clocks a core that may fetch already      *)
(* (tb.cc:108, 182-193) and has run the line at the power-on pc to its end: *)
(* the first cycle of the loop runs the same line over what it left.       *)
THEOREM CleanRuns ==
  ASSUME Assembled, Core!AllWellFormed, StartsClean
  PROVE  Spec => CleanStart
<1>1. Init => CleanMachine!Init
  BY DEF Init, CleanMachine!Init, Started
<1>2. IndInv /\ SourceInv /\ [Next]_vars => SourceInv'
  BY SourceStep
<1>3. Init => CleanInv
  BY CleanInit
<1>4. IndInv /\ SourceInv /\ CleanInv /\ [Next]_vars => CleanInv'
  BY CleanKept
<1>5. IndInv /\ SourceInv /\ CleanInv /\ [Next]_vars
        => [CleanMachine!Step]_(CleanMachine!vars)
  BY CleanRunStep
<1>. QED
  BY InitInd, StepInd, SourceInit, <1>1, <1>2, <1>3, <1>4, <1>5, PTL
     DEF Spec, CleanStart, CleanMachine!StepSpec
=============================================================================
