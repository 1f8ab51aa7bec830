------------------------------- MODULE PykeAsm ------------------------------
(***************************************************************************)
(* The assembler: tools/asm/asm.py with the backend that decodetree.py     *)
(* generates from pyke32.decode.  A source line is a record of its .org    *)
(* address (0 for none), its label ("" for none) and its instructions; an  *)
(* instruction is [op, rd, rs1, rs2, imm, label], where fields its format  *)
(* lacks are 0 or "".  The result is the atoms of each VLIW line.          *)
(***************************************************************************)
EXTENDS PykeIsa, Sequences, SequencesExt, FiniteSets

CONSTANT AtomsPerInsn   \* isa.atomPerInsn

RrrOps == {"add", "sub", "sll", "srl", "sra", "xor", "and", "or"}
RriOps == {"addi", "lw", "slli"}
RrsOps == {"sw"}
RrlOps == {"beq", "bne", "jr"}

OpcodeOf ==
  [add |-> 0, addi |-> 1, sub |-> 2, lw |-> 3, sw |-> 4, sll |-> 5, srl |-> 6,
   sra |-> 7, xor |-> 8, and |-> 9, or |-> 10, beq |-> 11, jr |-> 12,
   slli |-> 13, bne |-> 14]

vliw_len == AtomsPerInsn * 4   \* bytes of a VLIW line

-----------------------------------------------------------------------------
(* encode() of an instruction.  Bits 31 to 20 are hi.                      *)

Pack(op, rd_f, rs1_f, rs2_f, hi) ==
  [lo |-> OpcodeOf[op] + 32 * rd_f + 1024 * rs1_f + 32768 * rs2_f
          + 1048576 * (hi % 16),
   top |-> hi \div 16]

(* An immediate of two fields is cut in both from a value that has to fit  *)
(* the length of each, so of the shorter, the low one.                     *)
HighField(imm) == (imm % 4096) \div 32
LowField(imm) == imm % 32

encode(insn) ==
  CASE insn.op \in RrrOps -> Pack(insn.op, insn.rd, insn.rs1, insn.rs2, 2048)
    [] insn.op \in RriOps -> Pack(insn.op, insn.rd, insn.rs1, insn.imm % 32,
                                  insn.imm \div 32)
    [] insn.op \in RrsOps \union RrlOps ->
         Pack(insn.op, LowField(insn.imm), insn.rs1, insn.rs2, HighField(insn.imm))

(* Bits() raises an error for a value that does not fit its length.        *)
ImmFits(insn) ==
  CASE insn.op \in RrrOps -> TRUE
    [] insn.op \in RriOps -> insn.imm \in 0..131071
    [] insn.op \in RrsOps -> insn.imm \in 0..31
    [] insn.op \in RrlOps -> insn.imm \in -16..15

(* The VLIW line: atom 0 in the lowest bits, zero in the lanes left empty. *)
EncodeBundle(insns) ==
  [i \in 1..AtomsPerInsn |-> IF i <= Len(insns) THEN encode(insns[i]) ELSE NOP]

(* The bytes of a VLIW line as to_bytes(..., 'little') puts them in the     *)
(* .hex file.                                                              *)
BytesOf(atom) ==
  <<atom.lo % 256, (atom.lo \div 256) % 256, atom.lo \div 65536, atom.top>>
HexLineBig(bundle) ==   \* mutant: to_bytes(..., 'big') of each atom
  [p \in 0..(vliw_len - 1) |-> BytesOf(bundle[(p \div 4) + 1])[4 - (p % 4)]]
HexLine(bundle) ==
  [p \in 0..(vliw_len - 1) |-> BytesOf(bundle[(p \div 4) + 1])[(p % 4) + 1]]

-----------------------------------------------------------------------------
(* The two passes.  parse() walks the lines with current_addr; a label     *)
(* alone on its line is given the address of the next VLIW line but one.   *)

(* parse_reg takes what is below 15; Bits(uint=..) refuses what is below 0. *)
parse_reg_ok(reg) == reg < 15 /\ reg >= 0

ParseLine(st, ln) ==
  LET addr == IF ln.org # 0 THEN ln.org ELSE st.current_addr
      label_pc == IF ln.insns # <<>> THEN addr ELSE addr + 4
  IN [current_addr |-> IF ln.insns # <<>> THEN addr + 4 ELSE addr,
      labels |-> IF ln.label = "" THEN st.labels
                 ELSE (ln.label :> label_pc) @@ st.labels,
      vliw |-> IF ln.insns = <<>> THEN st.vliw
               ELSE Append(st.vliw, [addr |-> addr, insns |-> ln.insns])]

parse(lines) ==
  FoldLeft(ParseLine, [current_addr |-> 0, labels |-> <<>>, vliw |-> <<>>], lines)

(* resolve_br_label: the distance in source addresses, shifted right by    *)
(* log2 of the VLIW line's bytes.                                          *)
resolve_br_label(insn, labels, addr) ==
  IF insn.op \in RrlOps
  THEN [insn EXCEPT !.imm = (labels[insn.label] - addr) \div vliw_len]
  ELSE insn

Resolved(lines) ==
  LET st == parse(lines) IN
  [k \in 1..Len(st.vliw) |->
     [i \in 1..Len(st.vliw[k].insns) |->
        resolve_br_label(st.vliw[k].insns[i], st.labels, st.vliw[k].addr)]]

(* Lines the assembler takes without an error.                             *)
Accepts(lines) ==
  LET st == parse(lines) IN
  /\ \A k \in 1..Len(st.vliw) : \A i \in 1..Len(st.vliw[k].insns) :
       LET insn == st.vliw[k].insns[i] IN
       /\ \A reg \in {insn.rd, insn.rs1, insn.rs2} : parse_reg_ok(reg)
       /\ insn.op \in RrlOps => insn.label \in DOMAIN st.labels
  /\ \A k \in 1..Len(st.vliw) :
       /\ Len(Resolved(lines)[k]) <= AtomsPerInsn
       /\ \A i \in 1..Len(Resolved(lines)[k]) : ImmFits(Resolved(lines)[k][i])

Assemble(lines) == [k \in 1..Len(Resolved(lines)) |-> EncodeBundle(Resolved(lines)[k])]
=============================================================================
