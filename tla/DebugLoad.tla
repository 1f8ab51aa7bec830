----------------------------- MODULE DebugLoad ------------------------------
(***************************************************************************)
(* How a program reaches the instruction memory.  The testbench            *)
(* (csrc/tb.cc, preload_imem) puts one byte on the debug port per clock;   *)
(* the Deserializer (soc/Deserializer.scala) collects InsnLenBytes of them *)
(* and flags a full word when its counter is back at 0; the DebugModule    *)
(* (soc/Debug.scala) latches the word address when it sees that flag, and  *)
(* writes the previous word to the address it latched one word earlier.    *)
(* The hardware registers, the testbench's locals and the instruction      *)
(* memory are the state; every action of the testbench that calls          *)
(* cycle_clock is one clock edge of all the hardware.                      *)
(***************************************************************************)
EXTENDS Integers, Sequences

CONSTANTS
  InsnLenBytes,    \* bytes of a VLIW instruction (config.isa.insnLenBytes)
  InsnLenArg,      \* the testbench's -l argument
  Byte,            \* the values of a byte
  ImemSize,        \* words of instruction memory (1000 in PykeTop)
  Images,          \* the programs that may be loaded: sequences of lines
  PowerOnByte,     \* content of buf before the first edge
  PowerOnAddr,     \* content of next_mem_addr before the first edge
  FirstEvalTicks   \* is the first eval() of the simulation a clock edge?

VARIABLES
  hex,            \* the lines of the .hex file, fixed for the whole run
  phase,          \* where preload_imem is: "start", "load", "release", "done"
                  \* or "failed"
  line,           \* lines sent so far
  byte,           \* bytes of the current line sent so far
  imem_addr,      \* top->io_debug_imem_addr
  imem_val,       \* top->io_debug_imem_val
  fetch_en,       \* top->io_debug_fetch_en, also the core's fetch_en
  counter,        \* Deserializer.counter
  buf,            \* Deserializer.buf
  next_mem_addr,  \* DebugModule.next_mem_addr
  imem            \* the words of the instruction memory

tbVars == <<hex, phase, line, byte, imem_addr, imem_val, fetch_en>>
hwVars == <<counter, buf, next_mem_addr, imem>>
vars == <<hex, phase, line, byte, imem_addr, imem_val, fetch_en,
          counter, buf, next_mem_addr, imem>>

LoadBase == 32768   \* 0x8000, in PykeTop and in preload_imem

Mem == INSTANCE Scratchpad
         WITH Size <- ImemSize, DataBytes <- InsnLenBytes,
              AddrOffset <- LoadBase

Positions == 0..(InsnLenBytes - 1)
Line == [Positions -> Byte]

(* The counter is log2Ceil(bufElements) bits wide, and byte addresses are  *)
(* shifted right by as many bits: both wrap at, or divide by, this power.  *)
Span == Mem!Pow2Ceil(InsnLenBytes)

ASSUME ConfigAssumption ==
  /\ InsnLenBytes \in Nat \ {0, 1}
  /\ InsnLenArg \in Nat
  /\ ImemSize \in Nat \ {0}
  /\ PowerOnByte \in Byte
  /\ PowerOnAddr \in Nat
  /\ FirstEvalTicks \in BOOLEAN
  /\ Images \subseteq Seq(Line)

(* What 2^log2Ceil gives.                                                  *)
ASSUME WidthAssumption ==
  /\ Span \in Nat /\ Span >= InsnLenBytes
  /\ Mem!IndexMod \in Nat /\ Mem!IndexMod >= ImemSize

(* The configurations of the repository: a VLIW instruction is a power of  *)
(* two of bytes, and the testbench is told its length, which its assertion *)
(* wants to be a multiple of 8.  The simulator's first eval() makes no     *)
(* edge.  The load address is a multiple of the memory's span, so          *)
(* subtracting it does not move a cell.                                    *)
ASSUME SetupAssumption ==
  /\ Span = InsnLenBytes
  /\ InsnLenArg = InsnLenBytes /\ InsnLenArg % 8 = 0
  /\ ~ FirstEvalTicks
  /\ Mem!ScaledOffset % Mem!IndexMod = 0

-----------------------------------------------------------------------------
(* Deserializer.  valid and out are what its ports show during a cycle.    *)

valid == counter = 0
out == buf

DeserializerEdgeNoWrap(in, reset) ==   \* mutant: a counter that never wraps
  /\ counter' = IF reset THEN 0 ELSE counter + 1
  /\ buf' = [p \in Positions |-> IF p = counter THEN in ELSE buf[p]]

(* An edge stores the byte and counts; reset clears the counter only.      *)
DeserializerEdge(in, reset) ==
  /\ counter' = IF reset THEN 0 ELSE (counter + 1) % Span
  /\ buf' = [p \in Positions |-> IF p = counter THEN in ELSE buf[p]]

DebugEdgeUnscaled(in, addr, reset) ==   \* mutant: a byte address is latched
  /\ DeserializerEdge(in, reset)
  /\ next_mem_addr' = IF valid THEN addr ELSE next_mem_addr
  /\ imem' = IF valid /\ ~ fetch_en
             THEN Mem!WriteNonmasked(imem, next_mem_addr, out)
             ELSE imem

DebugEdgeUnlatched(in, addr, reset) ==   \* mutant: the port's address is used
  /\ DeserializerEdge(in, reset)
  /\ next_mem_addr' = IF valid THEN addr \div Span ELSE next_mem_addr
  /\ imem' = IF valid /\ ~ fetch_en
             THEN Mem!WriteNonmasked(imem, addr \div Span, out)
             ELSE imem

DebugEdgeUngated(in, addr, reset) ==   \* mutant: written while the core runs
  /\ DeserializerEdge(in, reset)
  /\ next_mem_addr' = IF valid THEN addr \div Span ELSE next_mem_addr
  /\ imem' = IF valid THEN Mem!WriteNonmasked(imem, next_mem_addr, out)
             ELSE imem

(* DebugModule and the multiplexer of PykeTop: the debug port reaches the  *)
(* instruction memory only while fetch_en is low.                          *)
DebugEdge(in, addr, reset) ==
  /\ DeserializerEdge(in, reset)
  /\ next_mem_addr' = IF valid THEN addr \div Span ELSE next_mem_addr
  /\ imem' = IF valid /\ ~ fetch_en
             THEN Mem!WriteNonmasked(imem, next_mem_addr, out)
             ELSE imem

-----------------------------------------------------------------------------
(* The testbench.  Before the first edge the registers hold what the       *)
(* simulator starts with: counter is 0 there, and the words are empty.     *)

PowerOnWord == [p \in Positions |-> PowerOnByte]

Init ==
  /\ hex \in Images
  /\ phase = "start"
  /\ line = 0
  /\ byte = 0
  /\ imem_addr = 0
  /\ imem_val = PowerOnByte
  /\ fetch_en = FALSE
  /\ counter = 0
  /\ buf = PowerOnWord
  /\ next_mem_addr = PowerOnAddr
  /\ imem = [c \in Mem!Cells |-> PowerOnWord]

(* fopen fails: exit(1), whatever the file would have held.                *)
CannotRead ==
  /\ phase = "start"
  /\ phase' = "failed"
  /\ UNCHANGED <<hex, line, byte, imem_addr, imem_val, fetch_en>>
  /\ UNCHANGED hwVars

(* fetch_en = 0, imem_addr = 0x8000, the cycle_clock and the assertion     *)
(* before the loop.                                                        *)
(* Verilator has no earlier clock value to compare with on its first       *)
(* eval(), so this call makes no edge.                                     *)
StartPreload ==
  /\ phase = "start"
  /\ InsnLenArg % 8 = 0
  /\ phase' = "load"
  /\ fetch_en' = FALSE
  /\ imem_addr' = LoadBase
  /\ IF FirstEvalTicks THEN DebugEdge(imem_val, LoadBase, FALSE)
     ELSE UNCHANGED hwVars
  /\ UNCHANGED <<hex, line, byte, imem_val>>

(* One byte of one line; after the last byte of a line the address moves.  *)
SendByte ==
  /\ phase = "load"
  /\ line < Len(hex)
  /\ imem_val' = hex[line + 1][byte]
  /\ DebugEdge(hex[line + 1][byte], imem_addr, FALSE)
  /\ IF byte = InsnLenBytes - 1
     THEN /\ byte' = 0
          /\ line' = line + 1
          /\ imem_addr' = imem_addr + InsnLenArg
     ELSE /\ byte' = byte + 1
          /\ UNCHANGED <<line, imem_addr>>
  /\ UNCHANGED <<hex, phase, fetch_en>>

FlushCycleForgotten ==   \* mutant: no clock after the last byte
  /\ phase = "load"
  /\ line = Len(hex)
  /\ phase' = "release"
  /\ UNCHANGED <<hex, line, byte, imem_addr, imem_val, fetch_en>>
  /\ UNCHANGED hwVars

(* The cycle_clock after the loop, which stores the last line.             *)
FlushCycle ==
  /\ phase = "load"
  /\ line = Len(hex)
  /\ DebugEdge(imem_val, imem_addr, FALSE)
  /\ phase' = "release"
  /\ UNCHANGED <<hex, line, byte, imem_addr, imem_val, fetch_en>>

(* fetch_en = 1, the last thing preload_imem does.                         *)
ReleaseFetch ==
  /\ phase = "release"
  /\ fetch_en' = TRUE
  /\ phase' = "done"
  /\ UNCHANGED <<hex, line, byte, imem_addr, imem_val>>
  /\ UNCHANGED hwVars

Next == CannotRead \/ StartPreload \/ SendByte \/ FlushCycle \/ ReleaseFetch

Spec == Init /\ [][Next]_vars /\ WF_vars(Next)

-----------------------------------------------------------------------------
(* Every variable stays in its type (the registers of soc/Debug.scala and  *)
(* soc/Deserializer.scala, the locals of preload_imem).                    *)
TypeOK ==
  /\ hex \in Images
  /\ phase \in {"start", "load", "release", "done", "failed"}
  /\ line \in 0..Len(hex)
  /\ byte \in Positions
  /\ imem_addr \in Nat
  /\ imem_val \in Byte
  /\ fetch_en \in BOOLEAN
  /\ counter \in 0..(Span - 1)
  /\ buf \in Line
  /\ next_mem_addr \in Nat
  /\ imem \in [Mem!Cells -> Line]

(* The cell the core fetches from when it runs line k of the file.         *)
Cell(k) == Mem!PlainIndex(Mem!ScaledOffset + k - 1)

(* When the core may fetch, the fetch of every line of the file returns    *)
(* that line, byte for byte: no byte is lost, repeated or shifted by the   *)
(* deserializer (Deserializer.scala:18-23), no line goes to the address of *)
(* its neighbour (Debug.scala:25-30), and writes, which subtract the base  *)
(* address, agree with reads, which do not (Scratchpad.scala:47, 54).  Two *)
(* exceptions are in the code: a file longer than the memory, where the    *)
(* later line of a cell stays, and a cell beyond the last word.            *)
LoadedImage ==
  fetch_en =>
    \A k \in 1..Len(hex) :
      /\ Cell(k) \in Mem!Cells
      /\ \A j \in (k + 1)..Len(hex) : Cell(j) # Cell(k)
      => imem[Cell(k)] = hex[k]

(* The address a line is written to is the one on the port when its first  *)
(* byte was: the testbench may move imem_addr while the word waits in the  *)
(* deserializer, and the next word's bytes are already arriving when it    *)
(* is written (Debug.scala:26-28).                                         *)
AddressLatched ==
  [][ phase = "load" /\ line' > 0 /\ imem' # imem =>
        /\ next_mem_addr = Mem!ScaledOffset + line - 1
        /\ imem_addr = LoadBase + line * InsnLenArg ]_vars

(* The lines in the instruction memory: a line is stored one cycle after   *)
(* its last byte was sent, on the edge that takes the next line's first.   *)
Stored ==
  CASE phase \in {"start", "failed"} -> 0
    [] phase = "load" -> IF byte = 0 /\ line > 0 THEN line - 1 ELSE line
    [] OTHER -> Len(hex)

(* The byte-serial load implements the load of whole lines: each line is   *)
(* stored once, complete, in order, in its cell and no other, before the   *)
(* core is released, and the core is released in the end, unless there is  *)
(* no file to load.                                                        *)
Abstract == INSTANCE ImemLoad
              WITH CellOf <- Cell, image <- hex, memory <- imem,
                   stored <- Stored, ready <- fetch_en,
                   failed <- phase = "failed"
LoadsInOrder == Abstract!Spec
=============================================================================
