--------------------------- MODULE DebugLoadProofs --------------------------
(***************************************************************************)
(* Proofs about the program load, for every length of the instruction, of  *)
(* the memory and of the program.  The strengthening of LoadedImage ties   *)
(* the deserializer's counter and buffer to the testbench's position in    *)
(* the file, and the latched address to the line in the buffer.            *)
(***************************************************************************)
EXTENDS DebugLoad, NatLemmas, TLAPS

(* Where the registers are while preload_imem sends the bytes: the buffer  *)
(* holds the bytes of the current line so far and those of the previous    *)
(* line after them.                                                        *)
InStep ==
  phase = "load" =>
    /\ counter = byte
    /\ imem_addr = LoadBase + line * InsnLenBytes
    /\ byte > 0 => /\ line < Len(hex)
                   /\ next_mem_addr = Mem!ScaledOffset + line
    /\ byte = 0 /\ line > 0 => next_mem_addr = Mem!ScaledOffset + line - 1
    /\ \A p \in Positions : p < byte => buf[p] = hex[line + 1][p]
    /\ line > 0 => \A p \in Positions : p >= byte => buf[p] = hex[line][p]

Progress ==
  /\ phase = "start" => line = 0 /\ byte = 0 /\ counter = 0
  /\ phase \in {"release", "done"} => line = Len(hex) /\ byte = 0
  /\ fetch_en <=> phase = "done"

(* Each stored line is in its cell unless a later stored line shares it.   *)
StoredLines ==
  \A k \in 1..Stored :
    /\ Cell(k) \in Mem!Cells
    /\ \A j \in (k + 1)..Stored : Cell(j) # Cell(k)
    => imem[Cell(k)] = hex[k]

IndInv == TypeOK /\ Progress /\ InStep /\ StoredLines

-----------------------------------------------------------------------------
(* The constants a step computes with.                                     *)
LEMMA Constants ==
  /\ Span \in Nat \ {0, 1} /\ Span = InsnLenBytes
  /\ Mem!IndexMod \in Nat \ {0}
  /\ 0 \in Positions /\ InsnLenBytes - 1 \in Positions
  /\ Mem!Cells = 0..(ImemSize - 1)
BY ConfigAssumption, WidthAssumption, SetupAssumption DEF Positions, Mem!Cells

(* A byte of a line of the file.                                           *)
LEMMA ByteOfLine ==
  ASSUME hex \in Images, line \in 0..Len(hex), line < Len(hex), byte \in Positions
  PROVE  hex[line + 1] \in Line /\ hex[line + 1][byte] \in Byte
<1>1. hex \in Seq(Line)
  BY ConfigAssumption
<1>2. hex[line + 1] \in Line
  BY <1>1
<1>. QED
  BY <1>2 DEF Line

(* What an edge of the debug module does to the types.                     *)
LEMMA EdgeType ==
  ASSUME TypeOK, NEW in \in Byte, NEW addr \in Nat, NEW rst \in BOOLEAN,
         DebugEdge(in, addr, rst)
  PROVE  /\ counter' \in 0..(Span - 1)
         /\ buf' \in Line
         /\ next_mem_addr' \in Nat
         /\ imem' \in [Mem!Cells -> Line]
<1>1. counter' \in 0..(Span - 1)
  BY Constants DEF TypeOK, DebugEdge, DeserializerEdge
<1>2. buf' \in Line
  BY DEF TypeOK, DebugEdge, DeserializerEdge, Line
<1>3. next_mem_addr' \in Nat
  BY Constants, DivMod DEF TypeOK, DebugEdge
<1>4. imem' \in [Mem!Cells -> Line]
  BY DEF TypeOK, DebugEdge, out, Mem!WriteNonmasked, Mem!Put
<1>. QED
  BY <1>1, <1>2, <1>3, <1>4

LEMMA InitType == Init => TypeOK
<1>. SUFFICES ASSUME Init PROVE TypeOK
  OBVIOUS
<1>1. hex \in Seq(Line)
  BY ConfigAssumption DEF Init
<1>2. 0 \in 0..Len(hex)
  BY <1>1
<1>3. PowerOnWord \in Line
  BY ConfigAssumption DEF PowerOnWord, Line
<1>. QED
  BY <1>2, <1>3, Constants, ConfigAssumption DEF Init, TypeOK

LEMMA TypeStep == TypeOK /\ [Next]_vars => TypeOK'
<1>. SUFFICES ASSUME TypeOK, [Next]_vars PROVE TypeOK'
  OBVIOUS
<1>1. CASE StartPreload
  <2>1. LoadBase \in Nat
    BY DEF LoadBase
  <2>. QED
    BY <1>1, <2>1, SetupAssumption DEF StartPreload, TypeOK, hwVars
<1>2. CASE SendByte
  <2>1. hex[line + 1][byte] \in Byte /\ Len(hex) \in Nat
    BY <1>2, ByteOfLine, ConfigAssumption DEF SendByte, TypeOK
  <2>2. /\ counter' \in 0..(Span - 1) /\ buf' \in Line
        /\ next_mem_addr' \in Nat /\ imem' \in [Mem!Cells -> Line]
    BY <1>2, <2>1, EdgeType DEF SendByte, TypeOK
  <2>3. line' \in 0..Len(hex') /\ byte' \in Positions /\ imem_addr' \in Nat
    BY <1>2, <2>1, ConfigAssumption DEF SendByte, TypeOK, Positions
  <2>. QED
    BY <1>2, <2>1, <2>2, <2>3 DEF SendByte, TypeOK
<1>3. CASE FlushCycle
  <2>1. /\ counter' \in 0..(Span - 1) /\ buf' \in Line
        /\ next_mem_addr' \in Nat /\ imem' \in [Mem!Cells -> Line]
    BY <1>3, EdgeType DEF FlushCycle, TypeOK
  <2>. QED
    BY <1>3, <2>1 DEF FlushCycle, TypeOK
<1>4. CASE ReleaseFetch
  BY <1>4 DEF ReleaseFetch, TypeOK, hwVars
<1>5. CASE CannotRead
  BY <1>5 DEF CannotRead, TypeOK, hwVars
<1>6. CASE UNCHANGED vars
  BY <1>6 DEF vars, TypeOK
<1>. QED
  BY <1>1, <1>2, <1>3, <1>4, <1>5, <1>6 DEF Next

(* Every variable keeps its type, for every size and program: the counter  *)
(* of Deserializer.scala:19 its width, buf and the memory whole words.     *)
THEOREM TypeCorrect == Spec => []TypeOK
<1>. QED
  BY InitType, TypeStep, PTL DEF Spec

-----------------------------------------------------------------------------
LEMMA OffsetIsNat ==
  Mem!ScaledOffset \in Nat /\ Mem!ScaledOffset = LoadBase \div Span
<1>1. LoadBase \in Nat
  BY DEF LoadBase
<1>2. Mem!ScaledOffset = LoadBase \div Span
  BY DEF Mem!ScaledOffset, Span
<1>. QED
  BY <1>1, <1>2, Constants, DivMod

(* A line in the buffer goes to the cell it is fetched from: what the      *)
(* memory subtracts on a write (Scratchpad.scala:35) is a multiple of the  *)
(* range of its index.                                                     *)
LEMMA WriteCell ==
  ASSUME NEW k \in Nat \ {0}
  PROVE  Mem!OffsetIndex(Mem!ScaledOffset + k - 1) = Cell(k)
<1>. DEFINE i == k - 1
<1>1. Mem!ScaledOffset \in Nat /\ i \in Nat
  BY OffsetIsNat
<1>2. (Mem!ScaledOffset + i) % Mem!IndexMod = i % Mem!IndexMod
  <2>1. Mem!ScaledOffset % Mem!IndexMod = 0 /\ Mem!IndexMod \in Nat \ {0}
    BY Constants, SetupAssumption
  <2>. HIDE DEF i
  <2>. QED
    BY <1>1, <2>1, ModShift
<1>3. (Mem!ScaledOffset + k - 1) - Mem!ScaledOffset = k - 1
  BY <1>1
<1>4. Mem!ScaledOffset + k - 1 = Mem!ScaledOffset + (k - 1)
  BY <1>1
<1>. QED
  BY <1>2, <1>3, <1>4 DEF Mem!OffsetIndex, Mem!PlainIndex, Cell

(* An edge at a word's first byte latches its address.                     *)
LEMMA LatchedAddress ==
  ASSUME TypeOK, InStep, phase = "load"
  PROVE  imem_addr \div Span = Mem!ScaledOffset + line
<1>1. imem_addr = LoadBase + line * InsnLenBytes /\ line \in Nat
  BY DEF InStep, TypeOK
<1>2. LoadBase \in Nat
  BY DEF LoadBase
<1>3. (LoadBase + line * Span) \div Span = (LoadBase \div Span) + line
  BY <1>1, <1>2, Constants, DivShift
<1>. QED
  BY <1>1, <1>3, OffsetIsNat, Constants

(* Storing line m, after the lines before it, keeps StoredLines.           *)
LEMMA StoreOneMore ==
  ASSUME NEW m \in Nat \ {0}, NEW mem \in [Mem!Cells -> Line],
         \A k \in 1..(m - 1) :
           /\ Cell(k) \in Mem!Cells
           /\ \A j \in (k + 1)..(m - 1) : Cell(j) # Cell(k)
           => mem[Cell(k)] = hex[k],
         NEW k \in 1..m, Cell(k) \in Mem!Cells,
         \A j \in (k + 1)..m : Cell(j) # Cell(k)
  PROVE  Mem!Put(mem, Cell(m), hex[m])[Cell(k)] = hex[k]
<1>1. CASE k = m
  BY <1>1 DEF Mem!Put
<1>2. CASE k # m
  <2>1. k \in 1..(m - 1) /\ m \in (k + 1)..m
    BY <1>2
  <2>2. \A j \in (k + 1)..(m - 1) : Cell(j) # Cell(k)
    OBVIOUS
  <2>3. mem[Cell(k)] = hex[k]
    BY <2>1, <2>2
  <2>. QED
    BY <2>1, <2>3 DEF Mem!Put
<1>. QED
  BY <1>1, <1>2

(* The edge after a line's last byte stores the line: the buffer holds all *)
(* of it, and the latched address is its own.                              *)
LEMMA BufferToMemory ==
  ASSUME IndInv, phase = "load", byte = 0, line > 0,
         NEW in, NEW addr, NEW rst, DebugEdge(in, addr, rst)
  PROVE  imem' = Mem!Put(imem, Cell(line), hex[line])
<1>1. line \in 1..Len(hex) /\ line \in Nat \ {0} /\ hex \in Seq(Line)
  BY ConfigAssumption DEF IndInv, TypeOK
<1>2. buf = hex[line]
  <2>1. buf \in [Positions -> Byte] /\ hex[line] \in [Positions -> Byte]
    BY <1>1 DEF IndInv, TypeOK, Line
  <2>2. \A p \in Positions : buf[p] = hex[line][p]
    BY <1>1 DEF IndInv, InStep, Positions
  <2>. QED
    BY <2>1, <2>2
<1>3. counter = 0 /\ next_mem_addr = Mem!ScaledOffset + line - 1 /\ ~ fetch_en
  BY DEF IndInv, InStep, Progress
<1>4. imem' = Mem!Put(imem, Mem!OffsetIndex(next_mem_addr), buf)
  BY <1>3 DEF DebugEdge, valid, out, Mem!WriteNonmasked
<1>. QED
  BY <1>1, <1>2, <1>3, <1>4, WriteCell

LEMMA StoreBuffer ==
  ASSUME IndInv, phase = "load", byte = 0, line > 0,
         NEW in, NEW addr, NEW rst, DebugEdge(in, addr, rst),
         hex' = hex, Stored' = line
  PROVE  StoredLines'
<1>1. line \in 1..Len(hex) /\ line \in Nat \ {0} /\ hex \in Seq(Line)
  BY ConfigAssumption DEF IndInv, TypeOK
<1>2. imem' = Mem!Put(imem, Cell(line), hex[line])
  BY BufferToMemory
<1>3. \A k \in 1..(line - 1) :
        /\ Cell(k) \in Mem!Cells
        /\ \A j \in (k + 1)..(line - 1) : Cell(j) # Cell(k)
        => imem[Cell(k)] = hex[k]
  <2>1. Stored = line - 1
    BY DEF Stored
  <2>. QED
    BY <2>1 DEF IndInv, StoredLines
<1>4. ASSUME NEW k \in 1..line, Cell(k) \in Mem!Cells,
             \A j \in (k + 1)..line : Cell(j) # Cell(k)
      PROVE  imem'[Cell(k)] = hex[k]
  <2>1. imem \in [Mem!Cells -> Line]
    BY DEF IndInv, TypeOK
  <2>. QED
    BY <1>1, <1>2, <1>3, <1>4, <2>1, StoreOneMore
<1>. QED
  BY <1>4 DEF StoredLines

LEMMA InitInd == Init => IndInv
<1>. SUFFICES ASSUME Init PROVE IndInv
  OBVIOUS
<1>1. TypeOK
  BY InitType
<1>2. Progress /\ InStep
  BY DEF Init, Progress, InStep
<1>3. StoredLines
  BY DEF Init, StoredLines, Stored
<1>. QED
  BY <1>1, <1>2, <1>3 DEF IndInv

LEMMA StepInd == IndInv /\ [Next]_vars => IndInv'
<1>. SUFFICES ASSUME IndInv, [Next]_vars PROVE IndInv'
  OBVIOUS
<1>. USE DEF IndInv
<1>0. TypeOK'
  BY TypeStep
<1>1. CASE StartPreload
  <2>1. Progress'
    BY <1>1 DEF StartPreload, Progress
  <2>2. InStep'
    <3>1. /\ line' = 0 /\ byte' = 0 /\ counter' = 0 /\ imem_addr' = LoadBase
      BY <1>1, SetupAssumption DEF StartPreload, Progress, hwVars
    <3>2. LoadBase + 0 * InsnLenBytes = LoadBase
      BY ConfigAssumption DEF LoadBase
    <3>. QED
      BY <3>1, <3>2 DEF InStep, Positions
  <2>3. StoredLines'
    BY <1>1 DEF StartPreload, Progress, StoredLines, Stored
  <2>. QED
    BY <1>0, <2>1, <2>2, <2>3
<1>2. CASE SendByte
  <2>. USE DEF SendByte
  <2>1. /\ line \in Nat /\ byte \in 0..(InsnLenBytes - 1) /\ Len(hex) \in Nat
        /\ InsnLenBytes \in Nat \ {0, 1} /\ Span = InsnLenBytes
        /\ hex \in Seq(Line) /\ hex' = hex /\ phase' = "load" /\ line < Len(hex)
        /\ byte = counter
    BY <1>2, Constants, ConfigAssumption DEF TypeOK, Positions, InStep
  <2>2. Progress'
    BY <1>2 DEF Progress
  <2>3. /\ counter' = byte'
        /\ imem_addr' = LoadBase + line' * InsnLenBytes
    <3>1. (byte + 1) % InsnLenBytes = IF byte = InsnLenBytes - 1 THEN 0 ELSE byte + 1
      BY <2>1
    <3>2. counter' = (counter + 1) % Span
      BY <1>2 DEF DebugEdge, DeserializerEdge
    <3>3. imem_addr = LoadBase + line * InsnLenBytes /\ LoadBase \in Nat
      BY <1>2 DEF InStep, LoadBase
    <3>4. (line + 1) * InsnLenBytes = line * InsnLenBytes + InsnLenBytes
      BY <2>1
    <3>5. line * InsnLenBytes \in Nat
      BY <2>1
    <3>6. InsnLenArg = InsnLenBytes
      BY SetupAssumption
    <3>. QED
      BY <1>2, <2>1, <3>1, <3>2, <3>3, <3>4, <3>5, <3>6
  <2>4. /\ byte' > 0 => line' < Len(hex') /\ next_mem_addr' = Mem!ScaledOffset + line'
        /\ byte' = 0 /\ line' > 0 => next_mem_addr' = Mem!ScaledOffset + line' - 1
    <3>1. byte = 0 => next_mem_addr' = Mem!ScaledOffset + line
      BY <1>2, <2>1, LatchedAddress DEF DebugEdge, valid
    <3>2. byte > 0 => next_mem_addr' = Mem!ScaledOffset + line
      BY <1>2, <2>1 DEF DebugEdge, valid, InStep
    <3>3. next_mem_addr' = Mem!ScaledOffset + line /\ Mem!ScaledOffset \in Nat
      BY <2>1, <3>1, <3>2, OffsetIsNat
    <3>. QED
      BY <1>2, <2>1, <3>3
  <2>5. \A p \in Positions :
          buf'[p] = IF p = byte THEN hex[line + 1][byte] ELSE buf[p]
    BY <1>2, <2>1 DEF DebugEdge, DeserializerEdge
  <2>6. \A p \in Positions : p < byte' => buf'[p] = hex'[line' + 1][p]
    BY <1>2, <2>1, <2>5 DEF InStep, Positions
  <2>7. line' > 0 => \A p \in Positions : p >= byte' => buf'[p] = hex'[line'][p]
    <3>1. CASE byte = InsnLenBytes - 1
      BY <1>2, <2>1, <2>5, <3>1 DEF InStep, Positions
    <3>2. CASE byte # InsnLenBytes - 1
      BY <1>2, <2>1, <2>5, <3>2 DEF InStep, Positions
    <3>. QED
      BY <3>1, <3>2
  <2>8. InStep'
    BY <2>3, <2>4, <2>6, <2>7 DEF InStep
  <2>9. StoredLines'
    <3>1. CASE byte = 0 /\ line > 0
      <4>1. Stored' = line
        BY <1>2, <2>1, <3>1 DEF Stored
      <4>. QED
        BY <1>2, <2>1, <3>1, <4>1, StoreBuffer
    <3>2. CASE byte = 0 /\ line = 0
      <4>1. Stored' = 0
        BY <1>2, <2>1, <3>2 DEF Stored
      <4>. QED
        BY <4>1 DEF StoredLines
    <3>3. CASE byte > 0
      <4>1. Stored' = line /\ Stored = line
        BY <1>2, <2>1, <3>3 DEF Stored
      <4>2. imem' = imem
        BY <1>2, <2>1, <3>3 DEF DebugEdge, valid
      <4>. QED
        BY <2>1, <4>1, <4>2 DEF StoredLines
    <3>. QED
      BY <2>1, <3>1, <3>2, <3>3
  <2>. QED
    BY <1>0, <2>2, <2>8, <2>9
<1>3. CASE FlushCycle
  <2>. USE DEF FlushCycle
  <2>1. byte = 0 /\ line \in Nat /\ line = Len(hex)
    BY <1>3 DEF TypeOK, InStep, Positions
  <2>2. Progress' /\ InStep'
    BY <1>3, <2>1 DEF Progress, InStep
  <2>3. Stored' = line
    BY <1>3, <2>1 DEF Stored
  <2>4. StoredLines'
    <3>1. CASE line > 0
      BY <1>3, <2>1, <2>3, <3>1, StoreBuffer
    <3>2. CASE line = 0
      BY <2>3, <3>2 DEF StoredLines
    <3>. QED
      BY <2>1, <3>1, <3>2
  <2>. QED
    BY <1>0, <2>2, <2>4
<1>4. CASE ReleaseFetch
  <2>1. Progress' /\ InStep'
    BY <1>4 DEF ReleaseFetch, Progress, InStep
  <2>2. Stored' = Stored /\ imem' = imem /\ hex' = hex
    BY <1>4 DEF ReleaseFetch, Stored, hwVars
  <2>3. StoredLines'
    BY <2>2 DEF StoredLines
  <2>. QED
    BY <1>0, <2>1, <2>3
<1>5. CASE CannotRead
  <2>1. Progress' /\ InStep'
    BY <1>5 DEF CannotRead, Progress, InStep
  <2>2. Stored' = 0
    BY <1>5 DEF CannotRead, Stored
  <2>. QED
    BY <1>0, <2>1, <2>2 DEF StoredLines
<1>6. CASE UNCHANGED vars
  <2>1. Progress' /\ InStep'
    BY <1>6 DEF vars, Progress, InStep
  <2>2. Stored' = Stored /\ imem' = imem /\ hex' = hex
    BY <1>6 DEF vars, Stored
  <2>3. StoredLines'
    BY <2>2 DEF StoredLines
  <2>. QED
    BY <1>0, <2>1, <2>3
<1>. QED
  BY <1>1, <1>2, <1>3, <1>4, <1>5, <1>6 DEF Next

(* The invariant says enough: when the core may fetch, all lines of the    *)
(* file have been stored.                                                  *)
LEMMA IndImpliesLoaded == IndInv => LoadedImage
<1>. SUFFICES ASSUME IndInv, fetch_en PROVE LoadedImage
  BY DEF LoadedImage
<1>1. Stored = Len(hex)
  BY DEF IndInv, Progress, Stored
<1>. QED
  BY <1>1 DEF IndInv, StoredLines, LoadedImage

(* Whatever the instruction length, the memory size and the program, the   *)
(* core never fetches anything but the file's lines (LoadedImage): no byte *)
(* is lost or shifted on the way through Deserializer.scala and Debug.scala *)
(* and no line is stored at another's address.                             *)
THEOREM LoadCorrect == Spec => []LoadedImage
<1>. QED
  BY InitInd, StepInd, IndImpliesLoaded, PTL DEF Spec

(* Every word is written to the address of its own line, although by then  *)
(* the port already shows the next line's address (AddressLatched).        *)
THEOREM LatchCorrect == Spec => AddressLatched
<1>. DEFINE A == phase = "load" /\ line' > 0 /\ imem' # imem =>
                   /\ next_mem_addr = Mem!ScaledOffset + line - 1
                   /\ imem_addr = LoadBase + line * InsnLenArg
<1>1. ASSUME IndInv, [Next]_vars, phase = "load", line' > 0, imem' # imem
      PROVE  /\ next_mem_addr = Mem!ScaledOffset + line - 1
             /\ imem_addr = LoadBase + line * InsnLenArg
  <2>1. SendByte \/ FlushCycle
    BY <1>1 DEF Next, CannotRead, StartPreload, ReleaseFetch, hwVars, vars
  <2>2. counter = 0
    BY <1>1, <2>1 DEF SendByte, FlushCycle, DebugEdge, valid
  <2>3. byte = 0
    BY <1>1, <2>2 DEF IndInv, InStep
  <2>4. line' = line
    <3>1. byte # InsnLenBytes - 1
      BY <2>3, ConfigAssumption
    <3>. QED
      BY <2>1, <3>1 DEF SendByte, FlushCycle
  <2>. QED
    BY <1>1, <2>3, <2>4, SetupAssumption DEF IndInv, InStep
<1>2. IndInv /\ [Next]_vars => [A]_vars
  BY <1>1
<1>. QED
  BY InitInd, StepInd, <1>2, PTL DEF Spec, AddressLatched

-----------------------------------------------------------------------------
(* Before the first byte of the file the deserializer already says it has  *)
(* a word: its counter is 0.  What is written then, wherever the latched   *)
(* address points, is what every cell holds anyway.                        *)
Blank ==
  phase = "start" \/ (phase = "load" /\ line = 0 /\ byte = 0) =>
    /\ buf = PowerOnWord
    /\ imem = [c \in Mem!Cells |-> PowerOnWord]

LEMMA BlankStep ==
  ASSUME IndInv, Blank, [Next]_vars
  PROVE  Blank'
<1>1. CASE StartPreload
  BY <1>1, SetupAssumption DEF StartPreload, Blank, hwVars
<1>2. CASE SendByte
  <2>1. ~ (line' = 0 /\ byte' = 0) /\ phase' = "load"
    <3>1. line \in Nat /\ byte \in Nat
      BY ConfigAssumption DEF IndInv, TypeOK, Positions
    <3>. QED
      BY <1>2, <3>1 DEF SendByte
  <2>. QED
    BY <2>1 DEF Blank
<1>3. CASE FlushCycle
  BY <1>3 DEF FlushCycle, Blank
<1>4. CASE ReleaseFetch
  BY <1>4 DEF ReleaseFetch, Blank
<1>5. CASE CannotRead
  BY <1>5 DEF CannotRead, Blank
<1>6. CASE UNCHANGED vars
  BY <1>6 DEF vars, Blank
<1>. QED
  BY <1>1, <1>2, <1>3, <1>4, <1>5, <1>6 DEF Next

(* That first write changes nothing.                                       *)
LEMMA BlankWrite ==
  ASSUME IndInv, Blank, phase = "load", line = 0, byte = 0,
         NEW in, NEW addr, NEW rst, DebugEdge(in, addr, rst)
  PROVE  imem' = imem
<1>1. buf = PowerOnWord /\ imem = [c \in Mem!Cells |-> PowerOnWord]
  BY DEF Blank
<1>2. imem' = imem \/ imem' = Mem!Put(imem, Mem!OffsetIndex(next_mem_addr), PowerOnWord)
  BY <1>1 DEF DebugEdge, out, Mem!WriteNonmasked
<1>3. Mem!Put(imem, Mem!OffsetIndex(next_mem_addr), PowerOnWord) = imem
  BY <1>1 DEF Mem!Put
<1>. QED
  BY <1>2, <1>3

(* The edge that stores a line is the abstract step that does.             *)
LEMMA StoreStep ==
  ASSUME IndInv, phase = "load", byte = 0, line > 0,
         NEW in, NEW addr, NEW rst, DebugEdge(in, addr, rst),
         hex' = hex, fetch_en' = fetch_en, Stored' = line, phase' \in {"load", "release"}
  PROVE  Abstract!StoreLine
<1>1. Stored = line - 1 /\ line \in 1..Len(hex) /\ Len(hex) \in Nat
  BY ConfigAssumption DEF Stored, IndInv, TypeOK
<1>2. imem' = Mem!Put(imem, Cell(line), hex[line]) /\ DOMAIN imem = Mem!Cells
  BY BufferToMemory DEF IndInv, TypeOK
<1>. QED
  BY <1>1, <1>2 DEF Abstract!StoreLine, Mem!Put

LEMMA AbstractStep ==
  ASSUME IndInv, Blank, [Next]_vars
  PROVE  [Abstract!Next]_(Abstract!vars)
<1>0. /\ line \in 0..Len(hex) /\ byte \in 0..(InsnLenBytes - 1) /\ Len(hex) \in Nat
      /\ InsnLenBytes \in Nat \ {0, 1}
  BY ConfigAssumption DEF IndInv, TypeOK, Positions
<1>1. ASSUME UNCHANGED <<hex, imem, fetch_en>>, Stored' = Stored,
             (phase = "failed") = (phase' = "failed")
      PROVE  UNCHANGED Abstract!vars
  BY <1>1 DEF Abstract!vars
<1>2. CASE StartPreload
  <2>1. Stored' = 0 /\ Stored = 0
    BY <1>2 DEF StartPreload, Stored, IndInv, Progress
  <2>2. fetch_en' = fetch_en
    BY <1>2 DEF StartPreload, IndInv, Progress, TypeOK
  <2>. QED
    BY <1>1, <1>2, <2>1, <2>2, SetupAssumption DEF StartPreload, hwVars
<1>3. CASE SendByte
  <2>1. /\ phase = "load" /\ phase' = "load" /\ UNCHANGED <<hex, fetch_en>>
        /\ DebugEdge(hex[line + 1][byte], imem_addr, FALSE)
        /\ IF byte = InsnLenBytes - 1 THEN byte' = 0 /\ line' = line + 1
                                      ELSE byte' = byte + 1 /\ line' = line
    BY <1>3 DEF SendByte
  <2>2. Stored' = line
    BY <1>0, <2>1 DEF Stored
  <2>3. CASE byte = 0 /\ line > 0
    BY <2>1, <2>2, <2>3, StoreStep DEF Abstract!Next
  <2>4. CASE byte = 0 /\ line = 0
    <3>1. imem' = imem
      BY <2>1, <2>4, BlankWrite
    <3>2. Stored = line
      BY <2>1, <2>4 DEF Stored
    <3>. QED
      BY <1>1, <2>1, <2>2, <3>1, <3>2
  <2>5. CASE byte > 0
    <3>1. imem' = imem
      BY <2>1, <2>5 DEF IndInv, InStep, DebugEdge, valid
    <3>2. Stored = line
      BY <2>1, <2>5 DEF Stored
    <3>. QED
      BY <1>1, <2>1, <2>2, <3>1, <3>2
  <2>. QED
    BY <1>0, <2>3, <2>4, <2>5
<1>4. CASE FlushCycle
  <2>1. /\ phase = "load" /\ phase' = "release" /\ UNCHANGED <<hex, fetch_en>>
        /\ DebugEdge(imem_val, imem_addr, FALSE) /\ line = Len(hex)
    BY <1>4 DEF FlushCycle
  <2>2. byte = 0
    BY <1>0, <2>1 DEF IndInv, InStep
  <2>3. Stored' = line
    BY <2>1 DEF Stored
  <2>4. CASE line > 0
    BY <2>1, <2>2, <2>3, <2>4, StoreStep DEF Abstract!Next
  <2>5. CASE line = 0
    <3>1. imem' = imem
      BY <2>1, <2>2, <2>5, BlankWrite
    <3>2. Stored = line
      BY <2>1, <2>2, <2>5 DEF Stored
    <3>. QED
      BY <1>1, <2>1, <2>3, <3>1, <3>2
  <2>. QED
    BY <1>0, <2>4, <2>5
<1>5. CASE ReleaseFetch
  <2>1. Stored = Len(hex) /\ Stored' = Len(hex) /\ ~ fetch_en
    BY <1>5 DEF ReleaseFetch, Stored, IndInv, Progress
  <2>. QED
    BY <1>5, <2>1 DEF ReleaseFetch, hwVars, Abstract!Next, Abstract!Release
<1>6. CASE CannotRead
  <2>1. Stored = 0 /\ Stored' = 0 /\ ~ fetch_en
    BY <1>6 DEF CannotRead, Stored, IndInv, Progress
  <2>. QED
    BY <1>6, <2>1 DEF CannotRead, hwVars, Abstract!Next, Abstract!Fail
<1>7. CASE UNCHANGED vars
  <2>1. Stored' = Stored
    BY <1>7 DEF vars, Stored
  <2>. QED
    BY <1>1, <1>7, <2>1 DEF vars
<1>. QED
  BY <1>2, <1>3, <1>4, <1>5, <1>6, <1>7 DEF Next

(* The cells no line has been stored in hold what they did at power-on.    *)
Untouched ==
  \A c \in Mem!Cells : (\A k \in 1..Stored : Cell(k) # c) => imem[c] = PowerOnWord

LEMMA UntouchedStep ==
  ASSUME IndInv, Blank, Untouched, [Next]_vars
  PROVE  Untouched'
<1>1. /\ imem \in [Mem!Cells -> Line]
      /\ line \in Nat /\ Len(hex) \in Nat
  BY ConfigAssumption DEF IndInv, TypeOK
<1>2. Stored \in Nat
  <2>1. line > 0 => line - 1 \in Nat
    BY <1>1
  <2>. QED
    BY <1>1, <2>1 DEF Stored
<1>3. Abstract!StoreLine \/ (Stored' = Stored /\ imem' = imem)
  BY AbstractStep DEF Abstract!Next, Abstract!Fail, Abstract!Release, Abstract!vars
<1>4. CASE Abstract!StoreLine
  <2>. DEFINE m == Stored'
  <2>1. m = Stored + 1
    BY <1>4 DEF Abstract!StoreLine
  <2>2. imem' = [c \in Mem!Cells |-> IF c = Cell(m) THEN hex[m] ELSE imem[c]]
    BY <1>1, <1>4 DEF Abstract!StoreLine
  <2>. HIDE DEF m
  <2>3. ASSUME NEW c \in Mem!Cells, \A k \in 1..m : Cell(k) # c
        PROVE  imem'[c] = PowerOnWord
    <3>1. m \in 1..m /\ \A k \in 1..Stored : k \in 1..m
      BY <1>2, <2>1
    <3>2. imem'[c] = imem[c] /\ \A k \in 1..Stored : Cell(k) # c
      BY <2>2, <2>3, <3>1
    <3>. QED
      BY <3>2 DEF Untouched
  <2>. QED
    BY <2>3 DEF Untouched, m
<1>5. CASE Stored' = Stored /\ imem' = imem
  BY <1>5 DEF Untouched
<1>. QED
  BY <1>3, <1>4, <1>5

(* The byte-serial load does only what LoadsInOrder says it may: from      *)
(* power-on each step stores the next line, whole and in its cell alone,   *)
(* releases the core after the last one, gives up before the first, or     *)
(* changes nothing of the memory.                                          *)
(* (That it gets to the release is for the model checker.)                 *)
THEOREM LoadStepsInOrder == Spec => Abstract!Init /\ [][Abstract!Next]_(Abstract!vars)
<1>1. Init => Abstract!Init
  BY DEF Init, Abstract!Init, Stored
<1>2. Init => Blank
  BY DEF Init, Blank
<1>. QED
  BY InitInd, StepInd, BlankStep, AbstractStep, <1>1, <1>2, PTL DEF Spec
=============================================================================
