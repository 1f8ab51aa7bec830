------------------------------- MODULE PykeTop ------------------------------
(***************************************************************************)
(* A simulation from start to exit code: PykeTop.scala connects the debug  *)
(* module, the instruction memory and the core, and main() of csrc/tb.cc   *)
(* drives them.  It preloads the program, resets, clocks the core until    *)
(* the last word of data memory says success or failure, and exits.  Each  *)
(* clock edge is one of DebugLoad's and one of PykeCore's at once.  The    *)
(* files that are loaded are made by the assembler, or by anyone.          *)
(***************************************************************************)
EXTENDS Integers, Sequences, PykeAsm

CONSTANTS
  \* those of DebugLoad
  InsnLenBytes, InsnLenArg, Byte, ImemSize, Images, PowerOnByte, PowerOnAddr,
  FirstEvalTicks,
  \* those of PykeCore
  LaneNames, PcMod, DmemSize, PowerOnPCs, RegisterFiles, DataMemories,
  GarbageAtoms, GarbageWords,
  Texts,       \* the programs that are assembled, as source lines
  \* those of main()
  MaxCycles,   \* 10000
  WithImage    \* the -i argument: a set of "none", "file" and "missing"

VARIABLES
  hex, phase, line, byte, imem_addr, imem_val, fetch_en,
  counter, buf, next_mem_addr, imem,   \* those of DebugLoad
  reset, pc, rf, dmem,                 \* those of PykeCore
  stage,      \* where main() is: "preload", or "missing" for a file that is,
              \* "reset", "run", "exit", or "aborted"
  cycle,      \* i of the run loop
  exit_code

loadVars == <<hex, phase, line, byte, imem_addr, imem_val, fetch_en,
              counter, buf, next_mem_addr, imem>>
coreVars == <<pc, rf, dmem>>
mainVars == <<reset, stage, cycle, exit_code>>
vars == <<loadVars, coreVars, mainVars>>

(* The parts, from the modules that hold their theorems.                   *)
Load == INSTANCE DebugLoadProofs

extractAtomBig(i, word) ==   \* mutant: the most significant byte first
  [lo |-> word[4*i - 1] + 256 * word[4*i - 2] + 65536 * word[4*i - 3],
   top |-> word[4*i - 4]]

(* The lanes' atoms in a word of instruction memory, least significant      *)
(* byte first (PykeCore.extractAtom).                                      *)
extractAtom(i, word) ==
  [lo |-> word[4*i - 4] + 256 * word[4*i - 3] + 65536 * word[4*i - 2],
   top |-> word[4*i - 1]]

(* The .hex file of a source: main() of asm.py writes a line for each VLIW  *)
(* line.                                                                   *)
Hex(text) == [k \in 1..Len(Assemble(text)) |-> HexLine(Assemble(text)[k])]

(* The instructions a file was assembled from.                             *)
SourceOf == [h \in {Hex(t) : t \in Texts} |-> Resolved(CHOOSE t \in Texts : Hex(t) = h)]

Core == INSTANCE PykeProgramProofs
          WITH imem <- [c \in Load!Mem!Cells |->
                          [i \in 1..Len(LaneNames) |-> extractAtom(i, imem[c])]],
               PcIncr <- InsnLenBytes, ResetPC <- Load!LoadBase, Programs <- {},
               Sources <- {SourceOf[h] : h \in DOMAIN SourceOf},
               source <- SourceOf[hex]

(* The parts' assumptions; and a line of the file is one atom of four bytes *)
(* for each lane.                                                          *)
ASSUME TopAssumption ==
  /\ Load!ConfigAssumption /\ Load!WidthAssumption /\ Load!SetupAssumption
  /\ Core!CoreAssumption
  /\ Byte \subseteq 0..255 /\ InsnLenBytes = 4 * Len(LaneNames)
  /\ MaxCycles \in Nat \ {0}
  /\ WithImage \subseteq {"none", "file", "missing"}

(* All files were assembled, from programs that fit the memory, for the    *)
(* configuration at hand; and the memory's words are 0 at power-on.        *)
Assembled ==
  /\ Core!ProgramAssumption
  /\ Images \subseteq DOMAIN SourceOf
  /\ PowerOnByte = 0

(* Power-on shows nothing: registers and memory are 0, pc is the first      *)
(* line's address or one that the memory mirrors there, and this line may  *)
(* be run twice.                                                           *)
StartsClean ==
  /\ RegisterFiles \subseteq {[r \in Core!Regs |-> 0]}
  /\ DataMemories \subseteq {[m \in Core!Dmem!Cells |-> 0]}
  /\ \A p \in PowerOnPCs :
       ((p - Load!LoadBase) \div InsnLenBytes) % Core!Imem!IndexMod = 0
  /\ \A h \in DOMAIN SourceOf :
       Len(SourceOf[h]) > 0 => Core!Machine!Repeatable(SourceOf[h][1])

(* io.success: the low bits of the last word of data memory.               *)
success(mem) == mem[DmemSize - 1] % 4

-----------------------------------------------------------------------------
FirstStage == [none |-> "reset", file |-> "preload", missing |-> "missing"]

Init ==
  /\ Load!Init
  /\ reset = FALSE
  /\ pc \in PowerOnPCs
  /\ rf \in RegisterFiles
  /\ dmem \in DataMemories
  /\ stage \in {FirstStage[given] : given \in WithImage}
  /\ cycle = 0
  /\ exit_code = 0

(* preload_imem exits when it cannot open the file.                        *)
PreloadFails ==
  /\ stage = "missing"
  /\ Load!CannotRead
  /\ stage' = "aborted" /\ exit_code' = 1
  /\ UNCHANGED coreVars
  /\ UNCHANGED <<reset, cycle>>

(* preload_imem.  The core is clocked too; fetch_en keeps it idle.         *)
PreloadStart ==
  /\ stage = "preload"
  /\ Load!StartPreload
  /\ IF FirstEvalTicks THEN Core!CoreEdge ELSE UNCHANGED coreVars
  /\ UNCHANGED mainVars

PreloadEdge ==
  /\ stage = "preload"
  /\ Load!SendByte \/ Load!FlushCycle
  /\ Core!CoreEdge
  /\ UNCHANGED mainVars

PreloadDone ==
  /\ stage = "preload"
  /\ Load!ReleaseFetch
  /\ stage' = "reset"
  /\ UNCHANGED coreVars
  /\ UNCHANGED <<reset, cycle, exit_code>>

(* An edge outside preload_imem: its inputs stay as they were left.        *)
Edge ==
  /\ Load!DebugEdge(imem_val, imem_addr, reset)
  /\ Core!CoreEdge
  /\ UNCHANGED <<hex, phase, line, byte, imem_addr, imem_val, fetch_en>>

(* reset(): reset is raised, clocked once, and lowered.                    *)
RaiseReset ==
  /\ stage = "reset"
  /\ ~ reset
  /\ reset' = TRUE
  /\ UNCHANGED <<loadVars, coreVars, stage, cycle, exit_code>>

ResetEdge ==
  /\ stage = "reset"
  /\ reset
  /\ Edge
  /\ reset' = FALSE
  /\ stage' = "run"
  /\ UNCHANGED <<cycle, exit_code>>

RunCycleUnbounded ==   \* mutant: the loop has no bound
  /\ stage = "run"
  /\ Edge
  /\ cycle' = cycle + 1
  /\ stage' = IF success(dmem') \in {1, 2} THEN "exit" ELSE "run"
  /\ exit_code' = IF success(dmem') = 1 THEN 1 ELSE exit_code
  /\ UNCHANGED reset

RunCycleSwapped ==   \* mutant: the two verdicts swapped
  /\ stage = "run"
  /\ cycle < MaxCycles
  /\ Edge
  /\ cycle' = cycle + 1
  /\ stage' = IF success(dmem') \in {1, 2} THEN "exit" ELSE "run"
  /\ exit_code' = IF success(dmem') = 2 THEN 1 ELSE exit_code
  /\ UNCHANGED reset

(* The run loop looks at io.success after each edge.                       *)
RunCycle ==
  /\ stage = "run"
  /\ cycle < MaxCycles
  /\ Edge
  /\ cycle' = cycle + 1
  /\ stage' = IF success(dmem') \in {1, 2} THEN "exit" ELSE "run"
  /\ exit_code' = IF success(dmem') = 1 THEN 1 ELSE exit_code
  /\ UNCHANGED reset

LoopEndSilent ==   \* mutant: a program that says nothing passes
  /\ stage = "run"
  /\ cycle = MaxCycles
  /\ stage' = "exit"
  /\ exit_code' = IF success(dmem) = 1 THEN 1 ELSE exit_code
  /\ UNCHANGED <<loadVars, coreVars, reset, cycle>>

LoopEndLate ==   \* mutant: the loop's bound is off by one
  /\ stage = "run"
  /\ cycle = MaxCycles + 1
  /\ stage' = "exit"
  /\ exit_code' = IF success(dmem) \in {0, 1} THEN 1 ELSE exit_code
  /\ UNCHANGED <<loadVars, coreVars, reset, cycle>>

LoopEnd ==
  /\ stage = "run"
  /\ cycle = MaxCycles
  /\ stage' = "exit"
  /\ exit_code' = IF success(dmem) \in {0, 1} THEN 1 ELSE exit_code
  /\ UNCHANGED <<loadVars, coreVars, reset, cycle>>

Next ==
  \/ PreloadFails \/ PreloadStart \/ PreloadEdge \/ PreloadDone
  \/ RaiseReset \/ ResetEdge
  \/ RunCycle \/ LoopEnd

(* main() is one thread that waits for nothing: it takes every step.       *)
Spec == Init /\ [][Next]_vars /\ WF_vars(Next)

-----------------------------------------------------------------------------
(* Every variable of the simulation stays in its type.                     *)
TypeOK ==
  /\ Load!TypeOK
  /\ Core!TypeOK
  /\ stage \in {"preload", "missing", "reset", "run", "exit", "aborted"}
  /\ cycle \in 0..MaxCycles
  /\ exit_code \in {0, 1}

(* From the moment the core may fetch to the end, the instruction memory   *)
(* holds the program: the deserializer keeps counting and shifting bytes   *)
(* in (Deserializer.scala:20-22) while the core runs, and reset restarts    *)
(* its counter, but no word of it is written any more (Debug.scala:31).    *)
ImageKept == Load!LoadedImage

(* The exit code tells a passed program from a failed and a silent one,    *)
(* whichever of the loop's three ends was taken (tb.cc:228-241).           *)
ExitCodeIsVerdict ==
  stage = "exit" => (exit_code = 0 <=> success(dmem) \in {2, 3})

(* The whole path, from the assembler over the byte-serial load and the    *)
(* reset to the running core, is the programmer's machine running the      *)
(* source: until the load is done the machine stands still, and the one    *)
(* edge of reset() is its ResetRunning.                                    *)
RunsSource == Core!RunsIsa

(* The machine started cleanly: at the first line, with the registers and  *)
(* the memory of power-on.                                                 *)
Started == stage \in {"run", "exit"} /\ cycle > 0
CleanMachine == INSTANCE VliwIsa
         WITH LineBytes <- InsnLenBytes, LineMirror <- Core!Imem!IndexMod,
              AddrMod <- PcMod, MemSize <- DmemSize, MemMirror <- Core!Dmem!IndexMod,
              LoadBase <- Load!LoadBase, source <- SourceOf[hex],
              at <- IF Started THEN pc ELSE Load!LoadBase,
              regs <- [r \in 0..15 |-> IF Started /\ r # 0 THEN rf[r] ELSE 0],
              mem <- IF Started THEN dmem ELSE [m \in Core!Dmem!Cells |-> 0]

(* A program whose first line can be run twice starts as if from power-on. *)
(* reset() clocks the core once with fetch enabled (tb.cc:108, 182-193), so *)
(* the line at the power-on pc runs to its writes before pc is 0x8000; the *)
(* power-on pc is 0, which the instruction memory mirrors to the first line. *)
CleanStart == CleanMachine!StepSpec

(* The simulation ends, whatever the program does (tb.cc:226).             *)
Terminates == <>(stage \in {"exit", "aborted"})

(* "11 -> success (software wrote success)" (PykeTop.scala:14): a program  *)
(* that has written 3 passes.                                              *)
SuccessStands ==
  (stage = "run" /\ cycle > 0 /\ success(dmem) = 3) ~> (stage = "exit" /\ exit_code = 0)

(* Every program given passes.                                             *)
Passes == <>(stage = "exit" /\ exit_code = 0)
=============================================================================
