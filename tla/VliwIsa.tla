------------------------------- MODULE VliwIsa ------------------------------
(***************************************************************************)
(* What the processor promises a programmer: Instr.txt for the 32-bit      *)
(* encoding.  A program is a sequence of lines, a line is a sequence of    *)
(* instructions as the assembler is given them (PykeAsm), and one step     *)
(* runs a line: all its instructions read the registers as they were       *)
(* before it.  No bits, fields, ports or lanes are left.  A program keeps  *)
(* the promise's conditions when all its lines are WellFormed.             *)
(***************************************************************************)
EXTENDS Integers, Sequences

CONSTANTS
  LineBytes,   \* bytes of a line
  AddrMod,     \* addresses are below it
  LineMirror,  \* the program repeats after so many lines
  MemSize,     \* words of memory
  MemMirror,   \* the memory repeats after so many words
  LoadBase     \* the address of the first line

VARIABLES
  source,  \* the lines of the program
  at,      \* the address of the line to run
  regs,    \* registers 0 to 15; register 0 is 0
  mem      \* the words of memory

vars == <<source, at, regs, mem>>

BranchOps == {"beq", "bne", "jr"}
RegOps == {"add", "sub", "sll", "srl", "sra", "xor", "and", "or"}
ImmOps == {"addi", "slli"}

Unsigned(x) == x % 65536
AsSigned(x) == x - 65536 * (x \div 32768)

(* The operations on bits by arithmetic: what two words have in common is  *)
(* the sum of the powers of two that are in both, and the others follow,   *)
(* since x + y counts what they have in common twice.                      *)
BitOf(x, k) == (x \div 2^k) % 2
Common(x, y) ==
  LET upto[k \in 0..16] ==
        IF k = 0 THEN 0
        ELSE upto[k - 1] + (IF BitOf(x, k - 1) = 1 /\ BitOf(y, k - 1) = 1
                            THEN 2^(k - 1) ELSE 0)
  IN upto[16]

(* The value an instruction gives its destination.                         *)
Value(r, insn) ==
  LET x == r[insn.rs1]
      y == IF insn.op \in ImmOps THEN insn.imm ELSE r[insn.rs2]
      dist == 2^(IF y > 16 THEN 16 ELSE y)
  IN CASE insn.op \in {"add", "addi"} -> Unsigned(x + y)
       [] insn.op = "sub" -> Unsigned(x - y)
       [] insn.op \in {"sll", "slli"} -> Unsigned((x % (65536 \div dist)) * dist)
       [] insn.op = "srl" -> x \div dist
       [] insn.op = "sra" -> Unsigned(AsSigned(x) \div dist)
       [] insn.op = "xor" -> x + y - 2 * Common(x, y)
       [] insn.op = "and" -> Common(x, y)
       [] insn.op = "or" -> x + y - Common(x, y)
       [] insn.op = "jr" -> x

(* The register it is given to, 0 for none.  A jump leaves its target in   *)
(* the register its label's distance happens to name.                      *)
Dest(insn) ==
  CASE insn.op \in RegOps \union ImmOps -> insn.rd
    [] insn.op = "jr" -> insn.imm % 16
    [] OTHER -> 0

Reads(insn) == IF insn.op \in ImmOps THEN {insn.rs1} ELSE {insn.rs1, insn.rs2}

(* A taken branch skips two bytes for each unit of its distance.           *)
TargetOf(r, insn, pc) ==
  CASE insn.op = "beq" /\ r[insn.rs1] = r[insn.rs2] -> (pc + 2 * insn.imm) % AddrMod
    [] insn.op = "bne" /\ r[insn.rs1] # r[insn.rs2] -> (pc + 2 * insn.imm) % AddrMod
    [] insn.op = "jr" -> r[insn.rs1]
    [] OTHER -> (pc + LineBytes) % AddrMod

MemIndex(r, insn) == (Unsigned(r[insn.rs1] + insn.imm) \div 4) % MemMirror

-----------------------------------------------------------------------------
(* Lines a program may use: instructions the hardware runs as written, in  *)
(* a lane that can run them, with at most one write to a register.         *)

WellFormedInsn(insn, lane, lanes) ==
  /\ insn.op # "lw"
  /\ insn.op = "sw" => lane = lanes
  /\ insn.op \in BranchOps => lane = 1
  /\ insn.op = "jr" => insn.rs1 < 4 /\ insn.rs2 % 2 = 0
  /\ insn.op \in {"beq", "bne"} => insn.imm \in 0..7
  /\ insn.op \in ImmOps \union {"sw"} => insn.imm \in 0..31

WellFormed(insns, lanes) ==
  /\ \A i \in 1..Len(insns) : WellFormedInsn(insns[i], i, lanes)
  /\ \A i, j \in 1..Len(insns) :
       i # j /\ Dest(insns[i]) # 0 => Dest(insns[i]) # Dest(insns[j])

-----------------------------------------------------------------------------
(* A step.                                                                 *)

LineAt(pc) ==
  LET k == (((pc - LoadBase) \div LineBytes) % LineMirror) + 1
  IN IF k <= Len(source) THEN source[k] ELSE <<>>

RegsAfter(insns) ==
  [r \in 0..15 |->
     IF r # 0 /\ \E i \in 1..Len(insns) : Dest(insns[i]) = r
     THEN Value(regs, insns[CHOOSE i \in 1..Len(insns) : Dest(insns[i]) = r])
     ELSE regs[r]]

MemAfter(insns) ==
  [m \in 0..(MemSize - 1) |->
     IF \E i \in 1..Len(insns) : insns[i].op = "sw" /\ MemIndex(regs, insns[i]) = m
     THEN LET i == CHOOSE i \in 1..Len(insns) : insns[i].op = "sw"
          IN regs[insns[i].rs2]
     ELSE mem[m]]

NextAddress(insns) ==
  IF insns # <<>> THEN TargetOf(regs, insns[1], at) ELSE (at + LineBytes) % AddrMod

RunLine ==
  /\ regs' = RegsAfter(LineAt(at))
  /\ mem' = MemAfter(LineAt(at))

(* An edge under reset starts the program over.  If the core may fetch it  *)
(* runs the line it was at, all the same.                                  *)
Step == RunLine /\ at' = NextAddress(LineAt(at)) /\ UNCHANGED source
ResetRunning == RunLine /\ at' = LoadBase /\ UNCHANGED source
ResetIdle == at' = LoadBase /\ UNCHANGED <<source, regs, mem>>

Next == Step \/ ResetRunning \/ ResetIdle

Init == regs[0] = 0

Spec == Init /\ [][Next]_vars

(* A run that is never reset.                                              *)
StepSpec == Init /\ [][Step]_vars

-----------------------------------------------------------------------------
(* Running the instructions of a line one after the other.                 *)

RunOne(insns, st, i) ==
  [regs |-> IF Dest(insns[i]) = 0 THEN st.regs
            ELSE [st.regs EXCEPT ![Dest(insns[i])] = Value(st.regs, insns[i])],
   mem |-> IF insns[i].op = "sw" /\ MemIndex(st.regs, insns[i]) < MemSize
           THEN [st.mem EXCEPT ![MemIndex(st.regs, insns[i])]
                                 = st.regs[insns[i].rs2]]
           ELSE st.mem]

RunInOrder(insns, order) ==
  LET run[n \in 0..Len(insns)] ==
        IF n = 0 THEN [regs |-> regs, mem |-> mem]
        ELSE RunOne(insns, run[n - 1], order[n])
  IN run[Len(insns)]

(* No instruction of the line takes what another one gives.                *)
Independent(insns) ==
  \A i, j \in 1..Len(insns) :
    i # j /\ Dest(insns[i]) # 0 => Dest(insns[i]) \notin Reads(insns[j])

(* Nor what it gives itself: run twice in a row, the line does what it     *)
(* does run once.                                                          *)
Repeatable(insns) ==
  \A i, j \in 1..Len(insns) :
    Dest(insns[i]) # 0 => Dest(insns[i]) \notin Reads(insns[j])
=============================================================================
