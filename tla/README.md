# Verification of Pyke

Pyke is a small VLIW processor written in Chisel, with a Verilator testbench, an
assembler, and a generator that derives the assembler's encoder and the hardware's
instruction patterns from `.decode` files. This directory holds TLA+ models of it,
the TLC configurations that check them, and TLAPS proofs. Paths below are relative
to the repository.

The whole point of the repository is one chain: a `.S` file is assembled to lines
of hex, the testbench shifts those lines byte by byte through a debug port into
instruction memory, resets the core, clocks it, and turns two bits of data memory
into an exit code. The models follow that chain, and the central property
(`RunsSource`) is about all of it.

## 1. The system

### Components

| Component | Source | State it keeps | Operations |
|---|---|---|---|
| Testbench | `src/main/resources/csrc/tb.cc` | its position in the file, the inputs of the design, the loop counter, the exit code | `preload_imem`, `reset`, `cycle_clock`, the run loop of `main` |
| Debug module | `src/main/scala/soc/Debug.scala` | `next_mem_addr` | one clock edge: latch an address, write the previous word |
| Deserializer | `src/main/scala/soc/Deserializer.scala` | `counter`, `buf` | one clock edge: store a byte, count |
| Memories | `src/main/scala/soc/Scratchpad.scala` | 1000 words each | read, write, success bits |
| Core | `src/main/scala/pyke/PykeCore.scala`, `Lane.scala`, `RegisterFile.scala`, `lsu.scala` | `pc`, registers | one clock edge of all lanes |
| Decoder, ALU, branch unit | `Decoder.scala`, `ALU.scala`, `BranchUnit.scala`, `Constants.scala`, `resources/isa/pyke32.decode` | none | combinational |
| Top level | `PykeTop.scala` | none | wiring, `io.success` |
| Assembler | `tools/asm/asm.py` and the backend `tools/decoder/decodetree.py` emits | the words of the line, `current_addr`, labels, list of VLIW lines | parse a line word by word, resolve branches, encode, write |
| decodetree generator | `tools/decoder/decodetree.py` | fields, argument sets, formats, patterns and groups, masks of groups, trees | `parse_file`, `prop_masks`, `build_tree`, three backends |
| Generated C decoder | the text `output_c_decoder` writes | the union of argument structs, the calls made | decode one instruction |
| Configuration, build, test flow | `config/ConfigParser.scala`, `Main.scala`, `Makefile`, `sw/tests.mk` | none | file I/O |

### How they interact

There is one clock. `cycle_clock()` in the testbench is one rising edge of
every register at once: the deserializer's, the debug module's, the core's and both
memories'. Between edges only the testbench acts, by setting inputs. So the
system's concurrency is that of synchronous hardware: all blocks step together on
the old state, and the inputs may change between any two steps.

- testbench -> deserializer: one byte per edge; nothing says "this byte counts", so
  the two are in step only because each makes exactly one step per edge.
- deserializer -> debug module: `valid` when the counter is back at 0, with the
  whole word on `out`, i.e. one edge after its last byte.
- debug module -> instruction memory: writes, only while `fetch_en` is low.
- core -> instruction memory: fetch, only while `fetch_en` is high; NOPs otherwise.
- lanes -> register file: two read ports and one write port each. Lanes -> data
  memory: a single port, driven by the lane connected last.
- data memory -> testbench: the low two bits of its last word, `io.success`.

The tools are programs that run one after the other: the generator reads a
`.decode` file and writes `BitPat`s for the hardware or a Python module that
`asm.py` imports; both runs read the same file, and nothing else keeps the two
sides together. Inside the generator the hard part is what one line does to
later ones: argument sets and formats that are inferred are shared, a group's
masks are what its members agree on, and code for a pattern is written with what
the trees and groups around it have tested and extracted already.

### What is hard

Everything that must line up across component borders, where unit tests of one
side pass: the byte count against the counter, the address on the port against the
word being assembled, four units of address (bytes, words, source lines at 4 bytes,
branch distances at 2 bytes), offsets that are subtracted on one side of each memory
only, atomicity of the lanes' reads and writes, shared ports, one reset edge with
the core already fetching, a verdict polled by a loop with three exits; and in the
tools two programs that encode and decode by different ways through one file. The
list with its lines is under `hazards` in `PROJECT.json`. There are no crashes,
no messages that can be lost and no timeouts other than the run loop's bound.

### What makes each component correct

- Load: when the core may fetch, each line of the file is whole in the cell it is
  fetched from (`LoadedImage`); lines arrive in order and once (`LoadsInOrder`); a
  word goes to the address that was on the port when its first byte was
  (`AddressLatched`); nothing changes afterwards (`ImageKept`).
- Core: it runs what the assembler emits as the programmer's machine runs the
  source (`RunsIsa`); independent instructions of a line may be put in any order
  (`LanesSerialise`); without fetch it rests (`IdleCoreHolds`); values keep their
  width on any input (`TypeOK`).
- Simulation: the source, not only the hex, is what runs (`RunsSource`); the reset
  edge leaves no trace on a program whose first line can be repeated
  (`CleanStart`); the exit code is the verdict the loop ends with (`ExitCodeIsVerdict`),
  and the end comes in any case (`Terminates`); the repository's tests pass (`Passes`). A
  program that has said success passes (`SuccessStands`, which does not hold).
- Generator, the tree: what is written for a pattern is the pattern (`LeavesExact`);
  the common bits of a group are exactly those its patterns share (`GroupsAgree`); no
  instruction matches two and none is missing (`Unambiguous`); it ends (`Terminates`).
- Generator, fields: a pattern's arguments come from the bits, and through the
  function, its own line names, whatever format it ends up with (`ValuesKept`). This
  does not hold of a plain field behind a function, which is taken for a compound one of
  the same bits; it does of all others (`ValuesKeptButPlain`).
- C decoder: it calls the translators of the matching patterns, in the order of
  the file, until one accepts (`CallsInOrder`), each with its own format's fields
  (`CallsExtracted`), and returns (`Returns`).
- Hardware table: its rows are the patterns of the file, and no instruction matches two
  (`TableExact`); what is made of `pyke32.decode` is what the lanes decode and read
  registers by (`TableIsGenerated`).
- Assembler: words that were encoded are read back by the fields of the pattern
  (`ReadsBack`), of which `pyke32.decode` fulfils the conditions
  (`Pyke32Invertible`); it accepts what the whole-system runs take it to accept, with the
  same lines (`AssemblesAs`); a branch that passes the range check fits
  (`BranchKept`, which does not hold).

## 2. The modules

| Module | Models | Kind |
|---|---|---|
| `Scratchpad` | `Scratchpad.scala` as operators on a memory: index arithmetic, dropped writes, garbage reads | operators |
| `ImemLoad` | what loading promises: whole lines, in order, each in its cell, then release | abstract spec |
| `DebugLoad` | testbench's `preload_imem`, deserializer, debug module, instruction memory | state machine |
| `PykeIsa` | bit fields, decode table, ALU, branch unit | operators |
| `PykeCore` | one clock edge of the core with its lanes, registers and data memory, under any inputs | state machine |
| `PykeAsm` | the assembler's two passes, encoding and hex bytes, for `pyke32.decode` | operators |
| `VliwIsa` | the programmer's machine: source lines, no bits, ports or lanes | abstract spec |
| `PykeProgram` | `PykeCore` with an assembled program in its memory, and how it is an instance of `VliwIsa` | composition, refinement |
| `PykeTop` | `PykeTop.scala` and `main()`: `DebugLoad` and `PykeCore` clocked together on what `PykeAsm` made, and how they are instances of `VliwIsa` | composition, refinement |
| `Fields` | fields of instructions: masks, equality, `str_extract`, `str_encode` | operators |
| `DecodeFile` | `parse_file`, `parse_field`, `parse_arguments`, `parse_generic` with inference and every error | state machine |
| `DecodeTree` | `DecodeFile`, then `prop_masks` and `build_tree` of every group | composition |
| `DecodeC` | the C decoder generated from the trees, run on an instruction | composition |
| `AsmParser` | `asm.py` word by word with the generated `parse_instruction`, the branch pass, encoding, output | state machine |
| `Backends` | `--hw` and `--asm`, and `AsmParser` on what they write | composition |
| `MC*` | instances for TLC, and properties that need the program's source | model checking |
| `DebugLoadProofs`, `PykeCoreProofs`, `PykeProgramProofs`, `PykeTopProofs`, `DecodeTreeProofs`, `DecodeCProofs`, `BackendProofs` | the theorems about the modules above (`BackendProofs`: `Backends` with `AsmParser` and the operators of `Fields`) | proofs |
| `NatLemmas` | arithmetic, induction, recursive functions | lemmas |

### State and actions against the code

`DebugLoad`. The variables `counter`, `buf`, `next_mem_addr`, `imem` are the
hardware's registers; `imem_addr`, `imem_val`, `fetch_en` the inputs the testbench
holds; `phase`, `line`, `byte` its program counter and loop variables. `SendByte` is
the body of the inner loop: it sets the byte and calls `cycle_clock`, so it is one
`DebugEdge`, and it moves the address after the last byte of a line.
`StartPreload`, `FlushCycle` and `ReleaseFetch` are the statements around the
loops, with the assertion that lets only lengths divisible by 8 through;
`CannotRead` is the `exit(1)` when there is no file. Power-on is what Verilator does: registers start at zero or at given
constants, and the first `eval()` sees no clock edge because there is no earlier
value to compare with (`FirstEvalTicks = FALSE`; see assumptions below).

`PykeCore`. An edge is a single action, `CoreEdge`, because in hardware it is one:
`PcEdge`, `RfEdge` and `DmemEdge` are all functions of the state before it, through
the combinational operators of a lane (`rs1`, `inp1`, `alu`, `pc_next`, `wb`). Two
outcomes are nondeterministic: what a read beyond a memory of 1000 words returns
(`GarbageAtoms`, `GarbageWords`) and which of two writes to one register in one
edge lands. A lane without a branch unit leaves `pc_next` DontCare, which the build
sets to 0. `Drive` lets the inputs `fetch_en` and `reset` change at will between
edges, which is more than the testbench does.

`PykeTop`. Each action conjoins one of `DebugLoad` with `Core!CoreEdge`, so both run
on the same edge; `extractAtom` cuts a loaded word into the lanes' atoms. The parts
are instances of the modules with their proofs, so the theorems about them apply
here. The files are sequences of lines of bytes, any; `Hex` is the file the
assembler writes for a text, and `SourceOf` the instructions behind it. `stage`
is where `main()` is: it begins with `preload_imem` if there is an `-i` argument, and
ends there (`PreloadFails`) if the file is missing. `RunCycle` includes the loop's bookkeeping after the edge
(look at `io.success`, leave, set the exit code), and `LoopEnd` the checks behind
the loop.

`VliwIsa`. Written at the level of `Instr.txt`, with the units the code really
gives distances, and with `WellFormed` listing what the machine keeps its promise
for: `sw` in the last lane, branches in the first, immediates of five bits, one
write per register and line. Outside these conditions the hardware does something
else: `lw` is no load (`core_load`), an immediate above 31, for which the assembler has 17
bits, is cut to the five of the `rs2` field (`Lane.scala:106`), and a store in another lane is
lost (`top_four_lanes`). What holds even there is proved
(`CoreTypeCorrect`, `IdleCorrect`). Operations on bits are given by arithmetic: what
two words have in common is a sum of powers of two, and `xor` and `or` follow from
`x + y`, which counts the common bits twice. A label's
distance leaves its mark in the register a `jr` writes; `Dest` says so.

`PykeAsm`. An instruction is a record with the fields of its format. Atoms are a
record of the low 24 bits and the top byte, because TLC's integers do not hold 32
unsigned bits.

`Fields`, `DecodeFile`. A mask of the code is the set of the bit positions that are
1 in it, so masks of any width are compared and joined as sets. A line is its
indentation and its tokens, and a token is what the regular expressions take it
for, with the numbers in it. `stage` is where `parse_file` is: `ReadLine`,
`SkipLine` and `EndOfFile` are its loop over the lines, `OpenGroup`, `CloseGroup`,
`ParseField`, `ParseArguments` and `StartGeneric` the branches behind it, `TakeToken`
one turn of `parse_generic`'s loop over tokens, `ParseFormat` and `ParsePattern` the
code after that loop. Every `error()` is in one of the actions whose names begin
with `Bad` or `Misplaced`, and so is the exception that comparing a compound field
with a plain one ends in (`FailsToCompare`). Names of inferred sets and formats are counters in the
code; here they are the empty name, which no line can refer to.

`DecodeTree`. `pats` holds patterns and groups by their number, with the group they
are in. `EnterGroup`, `Widen` and `Settle` are `prop_masks`: `Widen` one
comparison that failed, with the `break` that starts over, `Settle` the end of the
loop. A call of `__build_tree` is an element of `todo`; its patterns, `outerbits`
and `outermask` are its arguments and `path` the case labels above it. Calls read
only the patterns and their own arguments, so the model makes them in any order,
which covers the code's; for the same reason groups that do not contain each other
are settled in any order. The output functions walk the finished trees and add up
masks and labels; a leaf records what they have when they get to a pattern.

`DecodeC`. A frame is one statement of the generated function that is being
executed, with the arguments `output_code` had when it wrote it (`outermask`,
`extracted`): a switch of a tree, the rest of the tests of a group, or a call.
Before it is written the generator refuses two patterns of one name with different
argument sets (`RefuseDecoder`). `u` is the format whose `extract_` function last filled the union. What a
translator answers, and what it does to the union, is anything.

`AsmParser`. `be` is the generated module: the branches of `parse_instruction` in
their order, the fields `encode` puts an operand into, opcodes, and the limit and
shift of branch distances. An exception of a library (`Bits` refusing a value,
`KeyError`) ends the program like an error, in `BadEncoding` and the other `Bad`
actions. `Backends` makes `be` and the hardware's table `hw` from one file, and is
stopped where the Python or Scala written could not be read: for files with groups, and
where two patterns are separated only at the second level of the tree, which are then written
as one unfinished entry (`decodetree.py:651-653`, `678-679`; `pyke32.decode` needs one level).

Definitions marked `mutant` are plausible bugs of the definition that follows; no
specification uses them. Each property is violated when its mutant replaces the
original, which shows the run would notice.

## 3. The runs

| Run | Question | States |
|---|---|---|
| `debug_load` | Are images of up to two 8-byte lines, and images of 4 to 6 lines in a memory of 3 words with 4 indices (full, beyond the last word, wrapped around), loaded whole and in order, with the load refining `ImemLoad` including its release? | 22257 |
| `core_isa` | Do the four lanes of the default configuration run well-formed lines as `VliwIsa` does, from a jump or from power-on, with fetch and reset toggled freely, and rest otherwise? (The two lanes of the tests are in the `top` runs.) | 73992 |
| `top_tests` | `simple.S` and `xor.S` at the real sizes: assembled, loaded, reset, run to exit 0 | 208 |
| `top_short` | Programs of three lines, and of the four that fill the memory, that report success, failure, both, 3 or nothing, without `-i`, with a file and with one that is missing | 6091 |
| `decode_tree` | 6610 files of 3-bit instructions: does the generator end in an error or in exact trees, and does its C decoder, on every instruction and with every answer of the translators, call what it should with the fields it should? | 230414 |
| `tools` | Does `pyke32.decode` give the patterns and register ranges of `PykeIsa`, and a backend with which `asm.py` does on 597 programs and 18 odd sources what `PykeAsm` says? For this and the other files that give a table or a backend: is the table the file, and do encoded operands read back? | 18079 |

Six further runs show disagreements, each described under `findings`:

| Run | What is violated |
|---|---|
| `core_load` | `lw` returns the address, not the word (`Decoder.scala:42` selects `WB_ALU`) |
| `top_branch` | a taken branch does not reach its label: the label is a line late, the distance is divided by the line's bytes, the lane takes other bits of it. The `xor.S` test with a wrong result exits with 0 |
| `top_four_lanes` | `sw/asm/4Lane/simple.S` stores in lane 1, only lane 3 can: it times out |
| `top_success` | a program that writes 3, which `PykeTop.scala:14` calls success, and 1 later exits with 1: the run loop looks for 2 and 1 only (`tb.cc:228-232`) |
| `decode_function` | a pattern with `x=%y`, `%y` plain and behind a function, gets the format of one with a compound field of the same bits through the same function, so the function is given the bits in another order (`decodetree.py:326-327`, `234-235`) |
| `asm_branch` | a branch back by eight lines passes the check of the distance and is encoded as a large distance forward (`decodetree.py:396` against `228-232`) |

### Bounds, and why they are enough

- `MaxTicks` (3) bounds the edges of the core runs. `RunsIsa` and
  `LanesSerialise` speak of single steps from the program's states, so depth
  matters only to reach states: two lines in sequence, a jump and its target, a
  reset in between. Each step is a function of registers and memory, and the initial
  ones are chosen at the interesting values: a small number, a negative one, one with
  the sign bit and low bits, a data address.
- `MaxCycles` is 6 in `top_short`: three lines, one edge per line, and as many again
  in which the core runs the NOPs behind them. In `top_tests` it is the code's
  10000; the tests end after about ten edges.
- Memory sizes 3 and 4 keep the code's relation: an index range that is a power of
  two at least as large as the memory, with a gap (3 of 4) where the gap
  matters. `top_tests` uses 1000 of 1024.
- `PcMod` is 2^20 for the code's 2^32, out of TLC's range: no program here gets to
  either, and all comparisons are of differences. The proofs hold for any `PcMod`
  of at least 2^16.
- `Byte = {0, 1}` and lines of eight bytes in the load runs: bytes are only moved, so
  two values tell positions apart. The lines are those in which one byte, or those from one
  on, differ from the rest: a byte that is lost, repeated or moved makes another line of
  them. The top-level runs load real bytes.
- Three bits and up to three patterns in `decode_tree`: three is the least number
  that gives a pair to separate next to one that is already separated, or
  patterns that are pairwise disjoint with no bit fixed in all; three bits give
  trees of three levels, groups in groups whose common bits shrink at each level, and
  room for a field in two parts next to a fixed bit. The files are all pairs of
  patterns, triples of those that fix the first bit, groups of both kinds in each
  other and next to patterns, declarations of a field (in one or two parts, signed, with
  a function) used through formats, argument sets, imports, spans and constants,
  pairs of patterns that may share an inferred format, some with a function of the same bits in
  one part and in two, two patterns of one name, and one file for each error. The
  proofs hold for any number of bits and any file. Among the lists are some that
  are refused as overlapping although no instruction matches two of the patterns, as
  `00-`, `-11` and `1-0`: the tree only splits at bits that all patterns fix
  (`decodetree.py:741`).
- `tools` has the real file at 32 bits. `TableIsGenerated` compares on the
  instructions of `Samples`: every opcode with the top twelve bits at, next to and
  far from the value `@rrr` fixes. The programs have every mnemonic, labels before, on
  and behind lines, `.org`, redefined and missing labels, lines of up to three instructions,
  and each operand at and beyond its limits. The other files are those a
  backend cannot use, and those where it goes wrong: groups, unknown operands, compound
  registers, argument sets without fields or without a format of their name.

### Fairness

`WF_vars(Next)` in `DebugLoad`, `PykeTop`, `DecodeTree`, `DecodeC` and `Backends`: the
testbench, the generator, the decoder it writes and the assembler are each one
thread that waits for nothing and whose loops have no blocking call, so when a step
is possible it takes one. The run `decode_tree` uses it for `Terminates` and
`Returns`; what the translators return is left open. `PykeCore` has none and
needs none: nobody promises that the clock runs. Deadlock checking is off where the
testbench comes to an end (`done` and `failed` in
`DebugLoad`, `exit` and `aborted` in `PykeTop`) or the tools do, and on for the core.

## 4. The proofs

| Theorem | Says |
|---|---|
| `DebugLoadProofs!TypeCorrect` | `Spec => []TypeOK` |
| `DebugLoadProofs!LoadCorrect` | `Spec => []LoadedImage` |
| `DebugLoadProofs!LatchCorrect` | `Spec => AddressLatched` |
| `DebugLoadProofs!LoadStepsInOrder` | `Spec` implements `ImemLoad` but for its fairness: the safety of `LoadsInOrder` |
| `PykeCoreProofs!CoreTypeCorrect` | `Spec => []TypeOK` |
| `PykeCoreProofs!IdleCorrect` | `Spec => IdleCoreHolds` |
| `PykeProgramProofs!ProgramRuns` | `AllWellFormed` proves `ProgramSpec => RunsIsa` |
| `PykeProgramProofs!OrdersAgree` | `AllWellFormed` proves `ProgramSpec => LanesSerialise` |
| `PykeTopProofs!SourceRuns` | `Assembled`, `AllWellFormed` prove `Spec => RunsSource` |
| `PykeTopProofs!CleanRuns` | `Assembled`, `AllWellFormed`, `StartsClean` prove `Spec => CleanStart` |
| `PykeTopProofs!TopTypeCorrect` | `Spec => []TypeOK` |
| `PykeTopProofs!ImageCorrect` | `Spec => []ImageKept` |
| `PykeTopProofs!ExitCodeCorrect` | `Spec => []ExitCodeIsVerdict` |
| `DecodeTreeProofs!TypeCorrect` | `Spec => []TypeOK` |
| `DecodeTreeProofs!LeavesCorrect` | `Spec => []LeavesExact` |
| `DecodeTreeProofs!UnambiguousCorrect` | `Spec => []Unambiguous` |
| `DecodeTreeProofs!GroupsCorrect` | `Spec => []GroupsAgree` |
| `DecodeTreeProofs!ValuesCorrect` | `Spec => ValuesKeptButPlain` |
| `DecodeCProofs!DecoderCorrect` | `DecodeSpec => []CallsInOrder` |
| `DecodeCProofs!ExtractionCorrect` | `DecodeSpec => []CallsExtracted` |
| `BackendProofs!TableCorrect` | `ToolsSpec => []TableExact` |
| `BackendProofs!ReadsBackCorrect` | `ToolsSpec => [](Invertible => ReadsBack)` |
| `BackendProofs!RoundTrip` | `str_extract` takes out of an instruction what `str_encode` put in, for fields of any parts |

They hold for every value of the constants that satisfies the modules' named
assumptions: any instruction length, memory size, set of bytes, program, number
and types of lanes, content of memory, instruction width, pattern file and source.
Four of the first ones have hypotheses besides, which say what programs they are about,
and `ReadsBackCorrect` has one on the file; they are below, under "Assumptions".

**Load.** `LoadedImage` is not inductive: it says nothing before `fetch_en` rises.
The inductive invariant is `IndInv == TypeOK /\ Progress /\ InStep /\ StoredLines`.
`InStep` is the heart: while loading, the counter equals the testbench's byte index,
the buffer holds the bytes of this line so far and those of the previous one behind
them, and the latched address is this line's, or at a line's end still the
previous one's. `StoredLines` says each line but the one still in the buffer is in
its cell unless a later one shares it. A `SendByte` in the middle of a line disturbs
only `InStep`; the first byte of a line stores the previous one, which is where
`AddressLatched` comes from. The arithmetic (a write's index with the base
subtracted is the fetch's without) is in the lemmas `LatchedAddress`, `WriteCell`
and the division facts of `NatLemmas`.

**Load implements `ImemLoad`.** `LoadStepsInOrder` is the refinement without its
fairness. What `ImemLoad` calls written is what `Stored` counts in the testbench's
position, so `SendByte` is a step of it just when it is the first byte of a line
behind the first, and `FlushCycle` when it stores the last one; all other actions
stutter (`AbstractStep`). Which word such an edge writes, and where, is `InStep`. The
only new invariant is `Blank`, for the time before loading begins.

**Core.** Type correctness follows the data path: `AluWord` (every ALU result is
16 bits wide, with bit operations by `FromBitsWord`), `AluOperands`, `NextPC`,
`WriteBack`, then the three edges. `IdleCorrect` needs that a NOP, all zeros,
does not match a pattern: opcode 0 is `ADD`, but the rrr format also fixes the top
bits (`NopRow`).

**The core implements the programmer's machine.** `ProgramRuns` is the refinement of
`VliwIsa` by the core on what the assembler makes of well-formed lines. The invariant is
`Holds == TypeOK /\ source \in Sources /\ imem = Image(source)`; the work is in the step,
one lemma for each thing an edge changes.

- From the encoding to the decoder: `Encoded` gives the fields of an encoded instruction
  (`Shape`), which division takes out of the sum that `Pack` made (`SplitsAt`), and
  `RowParts` the row of the decode table the opcode selects.
- The ALU: the words' bits are numbers to `VliwIsa` and functions to `PykeIsa`, so `xor`,
  `and` and `or` are the two sums compared bit by bit, and the shifts are
  products and quotients by powers of two. With `ReadIs` this gives the value of an
  instruction from its atom.
- Fetch: the memory's index of `pc` is the line's number although the base address is not
  subtracted, since it is a multiple of the memory's span (`IndexIs`, `PlaceIs`); beyond the
  program are NOPs.
- Ports: a lane writes a register just when its instruction has it for its destination
  (`PortsAre`), well-formed lines have one such lane for each register, so the
  nondeterministic winner of `RfEdge` is the one (`RegsAre`); a store is in the last
  lane, whose request is the one that is connected (`MemIs`); the first lane alone gives the
  next address (`AddressIs`).

**Order within a line.** `OrdersAgree` needs what has been reached when the first k
instructions of an order have run (`Partway`): the registers that those give have the values
computed from the registers before the line, the others are unchanged. One more
instruction keeps this (`OneMore`), because it reads none that has been given and
no other gives what it gives. The sequential run is a recursive function and
`Partway` solves its equation; an order is a bijection, so at the end all have run.

**From source to simulation.** `SourceRuns` joins the load, the core and the assembler.
`LoadedImage` is about the file's lines only; that the cells behind them hold the words of
power-on, which are NOPs, is `Load!Untouched`. `LineBack` takes the bytes of a line
back to the atoms they were written for, so the memory as the core sees it is
`Image(SourceOf[hex])` (`WholeImage`) from the edge that stores the last line, and stays so
(`SourceInv`). From there each edge with `fetch_en` is `Core!RunningEdge`, each one without
it changes nothing but `pc` under reset, and all else stutters.

**Clean start.** `CleanRuns` compares two machines: the one of `SourceRuns`, and one that is
held at the first line with empty registers and memory until the run loop's first cycle.
Between them is the edge of `reset()` that runs the line at the power-on `pc`. `RunTwice`: a line
that gives nothing it takes, run over what it left, leaves the same registers and memory and
goes to the same address. `CleanInv` carries it: nothing has been shown before
the reset (`ZeroState`), the first line has run once behind it (`FirstRun`), and from
the first cycle on both machines are in one state.

**Whole simulation.** `PykeTopProofs` instantiates the proofs of the load and of the
core and cites their lemmas (`Load!StepInd` and the like); nothing is proved
twice. `IndInv` is `TypeOK`, `Loaded` (the load's `IndInv`, which an edge with
`fetch_en` high preserves because the debug module no longer writes, however often
`valid` rises), `Running` (what `stage`, the loop counter and `phase` have to do
with each other), `Unanswered` (while the loop goes on, `io.success` is neither 2 nor 1)
and `ExitCodeIsVerdict`. The last needs the one before: the end by the bound of cycles takes any value of `io.success` it is
left with, and is right only since the loop would have left earlier on a verdict.

**Pattern tree.** `Unambiguous` speaks only of the end, so the invariant says what is
true on the way, from the first line of the file. `IndInv` is `TypeOK`; `Shapes`, the
fields of the records that are read; `Quiet`, which parts of the state are still, or
again, empty at each stage; `WorkOK` and `GroupsOK` about `prop_masks`; and `TreeInv`.

- `GroupsOK`: a group that has been settled has masks its members fix, with its bits
  (`Agree`), and settled groups contain no unsettled ones. `WorkOK` says the
  same of the group at work without the bits, which are only right when no member differs
  any more (`CompareInd`, `SettleInd`). It is why a tree of a group may start with
  the group's bits decided.
- `CallsAgree`: the patterns of a call fix every bit decided so far, with the values on
  the path and, for a group, outside of it. `LeavesExact` follows when a pattern settles
  (`LeavesInd`).
- `Separated`: two members of a group either have a bit both fix with different values
  (`Apart`) or are still in one call; a split can only part two over a bit of
  `innermask`, which both fix. `Covered`: no member is in neither a call nor a leaf.
  At the end there are no calls, so all pairs are `Apart` and each has its leaf.
- Parsing keeps all this because patterns are only appended (`AppendNode`, `ParentBefore`)
  and because each of a pattern's masks is inside the instruction
  (`AfterMasked`, `GenericInd`).

**Groups.** `GroupsAgree` says a group's mask is *exactly* the bits all patterns below
it share, at any depth. That it has no bit too many follows level by level from
`GroupsOK`; that `Widen` drops none too many needs a witness for each bit lost
(`Lost`, `Widest`: two members that disagree, or one that does not fix it). From one
level to all of them: `Nested` says groups have smaller numbers than their members,
and a bit for which some group is wrong would be wrong for one with the
greatest number, whose member groups are all right (`ExactUp`). The patterns
below a group are a recursive function; `NatLemmas!Recursion` gives its equation
with sets and functions as parameters where the library's theorem has operators.

**Fields.** `ValuesKeptButPlain` compares two ways to a value: the field a pattern's own line
declares, and the field of that name in the format the pattern ends up with, which
another line may have made. `FieldInv` has what keeps them equal: in a line and in each
format a name stands for one field, parts of fields have lengths that are no negative
numbers, and a field with no parts and a function has the value 0. `SameValue` is the rest:
the generator takes fields for the same when they have the same masks, signs and
functions. If they have as many parts, as all have but a plain field taken for a compound one
(`PlainToCompound`, the exception the theorem states), then each part has the same length, the same place in the value and, if
it has any bits, the same position (`SameBits`, `SameOffsets`). Parts without bits can be
at different positions and are taken for the same, which is harmless as they add nothing.
Offsets are a recursive function; `Offsets` gives its equation by `NatLemmas!Recursion`.
`PatternKeeps` goes through the ways to a format: one that is named adds names to the
line's (and no name twice), one that is inferred is the line's own or has the same fields.

**C decoder.** The output functions read finished trees, so the proof has two halves.

- What is true of the trees. Each Tree, call and leaf has a place, its group and the
  labels above it. `Grown`: a place is taken once (`Unique`), it has a Tree above it
  that leads there (`Uppers`), and a Tree has for each of its members a call, a
  Tree or a leaf below it (`Lowers`, `Roots`); `Sorted`: what is numbered later comes
  later in the file. When no calls are left this is `Built`: the walk finds
  what it looks for.
- What is true of a run (`Decoding`). `Cover` of a statement is the set of patterns it
  may still call; `FramesOK`: the tests before it hold of the instruction for all of them,
  and covers of statements on the stack follow each other in the file's order;
  `CallsMade`: calls so far are matching patterns, in order, all before any on the
  stack; `NoneForgotten`: a matching pattern has been called or is covered. In a step,
  a statement gives way to what it consists of, and the covers of the parts make up its
  own, except for patterns the tested bits exclude. A group's test leaves bits
  alone that an outer test has decided; that this is enough is `GroupsOK`, that a
  group's bits lie within its mask. `InOrderCalls` gets `CallsInOrder` from it.
- `CallsExtracted` needs in addition which format is in the union: a tree extracts
  ahead of its patterns only where all of them have one format, and what is written
  below it then does not extract again.

**Backends.** The invariant is `ToolsInv`, over a whole run of the generator and then of the
assembler: `FileInv` (all of the above about the file, and `OperandInv`), `Made`, `TableExact`,
`AsmInv`, and under the hypothesis `AllRead`.

- A file with a table or a backend has no groups: the outermost group around anything is a
  member of the root and so has an entry, and `Readable` lets only patterns be entries
  (`NoGroups`, from `Unambiguous` and the order of group numbers). So every two patterns are `Apart`, and every pattern has its entry. With `LeavesExact` the
  labels on the way to it are the bits its own line fixes, which is `TableExact`.
- `OperandInv` is what `parse_generic` checks last, carried through all later lines: the
  fields of a pattern's format have none of the bits that the pattern fixes, and every
  argument of the format's argument set has a field or a value (`Checked`, `PatternInd`).
- `Made`: table and backend are made once, of a finished file, and are not changed by
  anything after. `BackendOK` is what the proof uses of the backend, `SetDescribes` gets it from
  the definitions.
- `AsmInv`: the instructions between the words of a source, and those that are collected, have only
  mnemonics and operands the backend knows (`AllKnown`). What disturbs it is `Operand`, which
  adds an operand from those still expected, and `ResolveBranches`, which replaces labels by
  distances.
- `OneReadsBack` is the step that encodes. The word is the opcode, the bits the
  pattern fixes (`OpcodeIs`), with the operands outside of these (`EncodedIn`): so the pattern
  matches, and by `Apart` no other does. An operand's field shares no bits with the
  others, so the word has in it what `str_encode` put there, and `RoundTrip` is the rest.
- `RoundTrip`: binary digits put together are the number (`SumsAre`, `UnsignedNumber`,
  `SignedNumber`), a number that fits has none above its length (`NoHighBit`), and parts with
  their offsets cover the value without gap (`Gapless`). A value above the length of
  the last part is refused by the assembler, so parts above it are zeros on both sides.
  Sums and powers of two are recursive functions again, by `NatLemmas!Recursion`.

**Assumptions.**
- `ConfigAssumption`, `CoreAssumption`: the types of the constants.
- `FilesAssumption`: the types of lines and tokens; `SourcesAssumption` and the
  `ConfigAssumption` of `Backends` likewise for the assembler's words and the `.yml` file.
- `Invertible`, the hypothesis of `ReadsBackCorrect`, is what the generator takes a file to
  be without asking: a name belongs to one pattern; the format that encodes an argument set
  is the one that decodes its patterns, and they add no fields to it; fields share no bits; and
  a signed field of several parts is a branch distance, of which `ReadsBack` says
  nothing. Each part excludes files for which the property is false. It is a condition on the state
  after parsing, not on the constants, because formats may be inferred. `Pyke32Invertible`, in
  the run `tools`, says `pyke32.decode` fulfils it.
- `TopAssumption`: those of the load and the core hold for the values `PykeTop` gives
  them, bytes are below 256, a line is four bytes for each lane (the
  lanes slice atoms of 32 bits out of it), and the run loop has a bound. `MCPykeTop` runs
  evaluate it at the values of both configurations.
- `ProgramAssumption`: what all configurations of the repository have in common: the first lane
  alone branches, the last one has a load-store unit, a line's length is a power of two, the
  base address is a multiple of the memory's span, and programs fit the memory. A fetch
  hits a word of the memory or gives NOPs; in a memory of 1000 words read by 10 bits of index
  this is more than the RTL says of the 24 reads behind it, and only a program that
  leaves its own lines gets there.
- The hypotheses of the four theorems. `AllWellFormed` is the condition `VliwIsa` puts on
  programs. `Assembled`: all files are the assembler's, and words of memory are 0 at power-on.
  `StartsClean`: registers and data memory are 0 at power-on, `pc` is 0 or another address that the
  memory mirrors to the first line, and no instruction of the first line reads what one of the
  line gives (`Repeatable`). `MCPykeCore` and `MCPykeTop` assume them of their programs, so
  TLC evaluates them: the first holds in `core_isa`, `top_tests` and `top_short`, the
  others in all simulations. Without the condition on the first line the edge of `reset()` does
  show: a first line `addi 1 1 1` counts to 2.
- `WidthAssumption`: what `2^log2Ceil(n)` gives, stated because exponentiation and
  CHOOSE are not in the provers' reach. TLC evaluates it for every run's values.
- `SetupAssumption`: the instruction length is a power of two (8 and 16 occur),
  `-l` tells the testbench that length, which passes its assertion, the first `eval()` makes no
  edge, and the base address is a multiple of the memory's index span. With
  any of them dropped the load is wrong; the counter that starts at 0 is in
  `Init` and is Verilator's power-on value, not the RTL's reset, which comes later.

**Only model-checked.** Liveness (`Terminates`, `Returns`, `Passes`, the release in
`LoadsInOrder`), which is out of TLAPS's reach. `Pyke32Invertible`,
`TableIsGenerated` and `AssemblesAs` are about the one real file,
`pyke32.decode`, and mean nothing for other constants. TLC checks `ReadsBack` without the
hypothesis of its theorem, of the files of the run.

## 5. What is not modelled

- Of the generator: instructions of variable length (`--varinsnwidth`, `SizeTree`;
  no `.decode` file or rule here uses it); what is text only: `!extern` and types of arguments as
  C declarations, comments, the options of `main()`, names of output files; the
  split of a line into tokens by the regular expressions, for which `Token` has the outcomes.
- Of the assembler: error texts, `-v`, and what tokens are made of.
- `mem_size` and CSR codes, which reach nothing; the write mask, all ones in every
  use; `preload_dmem`, whose write is commented out; VCD tracing.
- Configuration, `Makefile` and `tests.mk`: constants and process control.
- The 16-bit instruction set `pyke.decode`: `Decoder.scala` names instructions of
  the 32-bit one and lanes slice 32-bit atoms.

## 6. Plan

Done first, because everything else stands on it: load, core, top level. Then the
tools: the generator from the lines of a file to its three backends, the assembler,
and both together. Then the proofs: load and its refinement, the core and its
refinement, the simulation from source text to exit code, trees, groups, fields, C
decoder, hardware table and the assembler's encoding. What is left:

1. What the assembler's backend keeps between words: ranges of the operands
   collected, labels resolved once. With it, that what `asm.py` accepts for the lanes at hand
   satisfies the parts of `WellFormed` that it checks.
2. `SizeTree`, when an instruction set of variable length is added.
