-------------------------- MODULE PykeProgramProofs -------------------------
(***************************************************************************)
(* The hardware is the programmer's machine: the proof that the core on an *)
(* assembled program implements VliwIsa, for every program of well-formed  *)
(* lines, every number of lanes, size of memory and content of registers.  *)
(***************************************************************************)
EXTENDS PykeCoreProofs, PykeProgram


-----------------------------------------------------------------------------
(* An encoded instruction has the fields it was made of.  Ranges are       *)
(* stated as bounds: the solver would go through an interval one by one.   *)
Splits(x, n, q, r) == x = n * q + r
Upto(x, n) == x \in Nat /\ x < n

LEMMA SplitsAt ==
  ASSUME NEW x \in Nat, NEW n \in Nat \ {0}, NEW q \in Nat, NEW r \in Nat, r < n,
         Splits(x, n, q, r)
  PROVE  x \div n = q /\ x % n = r
<1>1. r \in 0..(n - 1) /\ x = n * q + r
  BY DEF Splits
<1>. QED
  BY <1>1, DivModIs

(* The low 24 bits of an instruction.                                      *)
Low(op, d, r, s, h) == op + 32 * d + 1024 * r + 32768 * s + 1048576 * h

(* The widths of its fields.                                               *)
FieldsFit(op, d, r, s, h) ==
  Upto(op, 16) /\ Upto(d, 32) /\ Upto(r, 32) /\ Upto(s, 32) /\ Upto(h, 16)

LEMMA LowRange ==
  ASSUME NEW op, NEW d, NEW r, NEW s, NEW h, FieldsFit(op, d, r, s, h)
  PROVE  Low(op, d, r, s, h) \in Nat /\ Low(op, d, r, s, h) < 16777216
BY SMT DEF Low, FieldsFit, Upto

(* A field of n values above those of c is cut out by a shift and a mask.  *)
LEMMA Cut ==
  ASSUME NEW x \in Nat, NEW c \in Nat \ {0}, NEW n \in Nat \ {0}, NEW low \in Nat, low < c,
         NEW f \in Nat, f < n, NEW high \in Nat, x = c * (n * high + f) + low
  PROVE  (x \div c) % n = f
<1>. DEFINE q == n * high + f
<1>1. q \in Nat /\ Splits(q, n, high, f) /\ Splits(x, c, q, low)
  BY DEF Splits
<1>. HIDE DEF q
<1>2. x \div c = q /\ q % n = f
  BY <1>1, SplitsAt
<1>. QED
  BY <1>2

LEMMA LowFields ==
  ASSUME NEW op, NEW d, NEW r, NEW s, NEW h, FieldsFit(op, d, r, s, h),
         NEW lo \in Nat, lo = Low(op, d, r, s, h)
  PROVE  /\ lo % 32 = op /\ (lo \div 32) % 32 = d /\ (lo \div 1024) % 32 = r
         /\ (lo \div 32768) % 32 = s /\ (lo \div 1048576) % 16 = h
<1>1. /\ op \in Nat /\ op < 16 /\ d \in Nat /\ d < 32 /\ r \in Nat /\ r < 32
      /\ s \in Nat /\ s < 32 /\ h \in Nat /\ h < 16
  BY DEF FieldsFit, Upto
<1>2. lo % 32 = op
  <2>. DEFINE q == d + 32 * r + 1024 * s + 32768 * h
  <2>1. q \in Nat /\ Splits(lo, 32, q, op)
    BY <1>1, SMT DEF Low, Splits
  <2>. HIDE DEF q
  <2>2. op < 32
    BY <1>1, SMT
  <2>. QED
    BY <1>1, <2>1, <2>2, SplitsAt, SMT
<1>3. (lo \div 32) % 32 = d
  <2>. DEFINE high == r + 32 * s + 1024 * h
  <2>1. high \in Nat /\ lo = 32 * (32 * high + d) + op /\ op < 32
    BY <1>1, SMT DEF Low
  <2>. HIDE DEF high
  <2>. QED
    BY <1>1, <2>1, Cut, SMT
<1>4. (lo \div 1024) % 32 = r
  <2>. DEFINE high == s + 32 * h  low == op + 32 * d
  <2>1. /\ high \in Nat /\ low \in Nat /\ low < 1024
        /\ lo = 1024 * (32 * high + r) + low
    BY <1>1, SMT DEF Low
  <2>. HIDE DEF high, low
  <2>. QED
    BY <1>1, <2>1, Cut, SMT
<1>5. (lo \div 32768) % 32 = s
  <2>. DEFINE low == op + 32 * d + 1024 * r
  <2>1. low \in Nat /\ low < 32768 /\ lo = 32768 * (32 * h + s) + low
    BY <1>1, SMT DEF Low
  <2>. HIDE DEF low
  <2>. QED
    BY <1>1, <2>1, Cut, SMT
<1>6. (lo \div 1048576) % 16 = h
  <2>. DEFINE low == op + 32 * d + 1024 * r + 32768 * s
  <2>1. low \in Nat /\ low < 1048576 /\ lo = 1048576 * (16 * 0 + h) + low
    BY <1>1, SMT DEF Low
  <2>. HIDE DEF low
  <2>. QED
    BY <1>1, <2>1, Cut, SMT
<1>. QED
  BY <1>2, <1>3, <1>4, <1>5, <1>6, SMT

(* The bits a branch and a jump take from the fields.                      *)
LEMMA LowMiddle ==
  ASSUME NEW op, NEW d, NEW r, NEW s, NEW h, FieldsFit(op, d, r, s, h),
         NEW lo \in Nat, lo = Low(op, d, r, s, h)
  PROVE  /\ d < 8 => (lo \div 16) % 16 = 2 * d
         /\ r < 4 /\ s % 2 = 0 => (lo \div 4096) % 16 = 0
<1>1. /\ op \in Nat /\ op < 16 /\ d \in Nat /\ d < 32 /\ r \in Nat /\ r < 32
      /\ s \in Nat /\ s < 32 /\ h \in Nat /\ h < 16
  BY DEF FieldsFit, Upto
<1>2. ASSUME d < 8 PROVE (lo \div 16) % 16 = 2 * d
  <2>. DEFINE high == 4 * r + 128 * s + 4096 * h  f == 2 * d
  <2>1. high \in Nat /\ f \in Nat /\ f < 16 /\ lo = 16 * (16 * high + f) + op
    BY <1>1, <1>2, SMT DEF Low
  <2>. HIDE DEF high, f
  <2>2. (lo \div 16) % 16 = f
    BY <1>1, <2>1, Cut, SMT
  <2>. QED
    BY <2>2, SMT DEF f
<1>3. ASSUME r < 4, s % 2 = 0 PROVE (lo \div 4096) % 16 = 0
  <2>. DEFINE low == op + 32 * d + 1024 * r  t == s \div 2  high == t + 16 * h
  <2>1. t \in Nat /\ s = 2 * t
    BY <1>1, <1>3, SMT
  <2>. HIDE DEF t
  <2>2. /\ low \in Nat /\ low < 4096 /\ high \in Nat
        /\ lo = 4096 * (16 * high + 0) + low
    BY <1>1, <1>3, <2>1, SMT DEF Low
  <2>. HIDE DEF low, high
  <2>. QED
    BY <2>2, Cut, SMT
<1>. QED
  BY <1>2, <1>3

(* Instruction bits 31 to 20 are hi.                                       *)
Packed(op, d, r, s, hi) == [lo |-> Low(op, d, r, s, hi % 16), top |-> hi \div 16]

LEMMA PackedFields ==
  ASSUME NEW op, NEW d, NEW r, NEW s, NEW hi, Upto(op, 16), Upto(d, 32), Upto(r, 32),
         Upto(s, 32), Upto(hi, 4096), NEW a, a = Packed(op, d, r, s, hi)
  PROVE  /\ a \in Atom
         /\ Opcode(a) = op /\ Rd(a) = d /\ Rs1(a) = r /\ Rs2(a) = s
         /\ Slice(a, 23, 20) = hi % 16 /\ a.top = hi \div 16
         /\ d < 8 => Slice(a, 7, 4) = 2 * d
         /\ r < 4 /\ s % 2 = 0 => Slice(a, 15, 12) = 0
<1>. DEFINE lo == a.lo  h == hi % 16  top == hi \div 16
<1>1. Upto(h, 16) /\ Upto(top, 256)
  BY SMT DEF Upto
<1>2. lo = Low(op, d, r, s, h) /\ a.top = top
  BY DEF Packed
<1>3. a = [lo |-> lo, top |-> top]
  BY <1>2 DEF Packed
<1>. HIDE DEF lo, h, top
<1>4. FieldsFit(op, d, r, s, h)
  BY <1>1 DEF FieldsFit
<1>5. lo \in Nat /\ lo < 16777216
  BY <1>2, <1>4, LowRange, SMT
<1>6. /\ lo % 32 = op /\ (lo \div 32) % 32 = d /\ (lo \div 1024) % 32 = r
      /\ (lo \div 32768) % 32 = s /\ (lo \div 1048576) % 16 = h
  <2>1. lo \in Nat
    BY <1>5
  <2>. QED
    BY <1>2, <1>4, <2>1, LowFields, SMT
<1>7. /\ d < 8 => (lo \div 16) % 16 = 2 * d
      /\ r < 4 /\ s % 2 = 0 => (lo \div 4096) % 16 = 0
  <2>1. lo \in Nat
    BY <1>5
  <2>. QED
    BY <1>2, <1>4, <2>1, LowMiddle, SMT
<1>8. Opcode(a) = op
  <2>1. 2^0 = 1 /\ 2^(4 - 0 + 1) = 32 /\ lo \div 1 = lo
    BY <1>5, SMT
  <2>. QED
    BY <1>6, <2>1, SMT DEF Opcode, Slice, lo
<1>9. Rd(a) = d /\ Rs1(a) = r /\ Rs2(a) = s
  <2>1. /\ 2^5 = 32 /\ 2^(9 - 5 + 1) = 32 /\ 2^10 = 1024 /\ 2^(14 - 10 + 1) = 32
        /\ 2^15 = 32768 /\ 2^(19 - 15 + 1) = 32
    BY SMT
  <2>. QED
    BY <1>6, <2>1, SMT DEF Rd, Rs1, Rs2, Slice, lo
<1>10. Slice(a, 23, 20) = h
  <2>1. 2^20 = 1048576 /\ 2^(23 - 20 + 1) = 16
    BY SMT
  <2>. QED
    BY <1>6, <2>1, SMT DEF Slice, lo
<1>11. d < 8 => Slice(a, 7, 4) = 2 * d
  <2>1. 2^4 = 16 /\ 2^(7 - 4 + 1) = 16
    BY SMT
  <2>. QED
    BY <1>7, <2>1, SMT DEF Slice, lo
<1>12. r < 4 /\ s % 2 = 0 => Slice(a, 15, 12) = 0
  <2>1. 2^12 = 4096 /\ 2^(15 - 12 + 1) = 16
    BY SMT
  <2>. QED
    BY <1>7, <2>1, SMT DEF Slice, lo
<1>13. a \in Atom
  <2>1. lo \in 0..(LoSize - 1)
    <3>1. LoSize \in Nat /\ lo < LoSize
      BY <1>5, SMT DEF LoSize
    <3>. QED
      BY <1>5, <3>1, SMT
  <2>2. top \in 0..255
    BY <1>1, SMT DEF Upto
  <2>. QED
    BY <1>3, <2>1, <2>2 DEF Atom
<1>. QED
  BY <1>2, <1>8, <1>9, <1>10, <1>11, <1>12, <1>13 DEF h, top

-----------------------------------------------------------------------------
(* The row of the decode table an instruction gets.                        *)
AluCode ==
  [add |-> "ALU_ADD", addi |-> "ALU_ADD", sub |-> "ALU_SUB", sll |-> "ALU_SLL",
   slli |-> "ALU_SLL", srl |-> "ALU_SRL", sra |-> "ALU_SRA", xor |-> "ALU_XOR",
   and |-> "ALU_AND", or |-> "ALU_OR"]
RowOf(op) ==
  CASE op \in RrrOps -> RegReg(AluCode[op])
    [] op \in {"addi", "slli"} -> RegImm(AluCode[op])
    [] op = "sw" -> DecodeTable.SW
    [] op = "beq" -> DecodeTable.BEQ
    [] op = "bne" -> DecodeTable.BNE
    [] op = "jr" -> DecodeTable.JR

LEMMA Opcodes ==
  ASSUME NEW op \in (RrrOps \union RriOps \union RrsOps \union RrlOps) \ {"lw"}
  PROVE  /\ OpcodeOf[op] \in 0..14
         /\ DecodeTable[Patterns[OpcodeOf[op] + 1]] = RowOf(op)
         /\ Patterns[OpcodeOf[op] + 1] \in RrrPatterns <=> op \in RrrOps
<1>1. /\ OpcodeOf["add"] = 0 /\ OpcodeOf["addi"] = 1 /\ OpcodeOf["sub"] = 2
      /\ OpcodeOf["sw"] = 4 /\ OpcodeOf["sll"] = 5 /\ OpcodeOf["srl"] = 6
      /\ OpcodeOf["sra"] = 7 /\ OpcodeOf["xor"] = 8 /\ OpcodeOf["and"] = 9
      /\ OpcodeOf["or"] = 10 /\ OpcodeOf["beq"] = 11 /\ OpcodeOf["jr"] = 12
      /\ OpcodeOf["slli"] = 13 /\ OpcodeOf["bne"] = 14
  BY DEF OpcodeOf
<1>2. /\ Patterns[0 + 1] = "ADD" /\ Patterns[1 + 1] = "ADDI" /\ Patterns[2 + 1] = "SUB"
      /\ Patterns[4 + 1] = "SW" /\ Patterns[5 + 1] = "SLL" /\ Patterns[6 + 1] = "SRL"
      /\ Patterns[7 + 1] = "SRA" /\ Patterns[8 + 1] = "XOR" /\ Patterns[9 + 1] = "AND"
      /\ Patterns[10 + 1] = "OR" /\ Patterns[11 + 1] = "BEQ" /\ Patterns[12 + 1] = "JR"
      /\ Patterns[13 + 1] = "SLLI" /\ Patterns[14 + 1] = "BNE"
  BY DEF Patterns
<1>3. /\ DecodeTable["ADD"] = RegReg(AluCode["add"])
      /\ DecodeTable["ADDI"] = RegImm(AluCode["addi"])
      /\ DecodeTable["SUB"] = RegReg(AluCode["sub"])
      /\ DecodeTable["SLL"] = RegReg(AluCode["sll"])
      /\ DecodeTable["SRL"] = RegReg(AluCode["srl"])
      /\ DecodeTable["SRA"] = RegReg(AluCode["sra"])
      /\ DecodeTable["XOR"] = RegReg(AluCode["xor"])
      /\ DecodeTable["AND"] = RegReg(AluCode["and"])
      /\ DecodeTable["OR"] = RegReg(AluCode["or"])
      /\ DecodeTable["SLLI"] = RegImm(AluCode["slli"])
  BY DEF DecodeTable, AluCode
<1>4. /\ op \in RrrOps => RowOf(op) = RegReg(AluCode[op])
      /\ op \in {"addi", "slli"} => RowOf(op) = RegImm(AluCode[op])
      /\ op = "sw" => RowOf(op) = DecodeTable["SW"]
      /\ op = "beq" => RowOf(op) = DecodeTable["BEQ"]
      /\ op = "bne" => RowOf(op) = DecodeTable["BNE"]
      /\ op = "jr" => RowOf(op) = DecodeTable["JR"]
  BY DEF RowOf, RrrOps
<1>5. CASE op \in {"add", "sub", "sll", "srl"}
  BY <1>1, <1>2, <1>3, <1>4, <1>5 DEF RrrOps, RrrPatterns
<1>6. CASE op \in {"sra", "xor", "and", "or"}
  BY <1>1, <1>2, <1>3, <1>4, <1>6 DEF RrrOps, RrrPatterns
<1>7. CASE op \in {"addi", "slli", "sw"}
  BY <1>1, <1>2, <1>3, <1>4, <1>7 DEF RrrOps, RrrPatterns
<1>8. CASE op \in {"beq", "bne", "jr"}
  BY <1>1, <1>2, <1>3, <1>4, <1>8 DEF RrrOps, RrrPatterns
<1>. QED
  BY <1>5, <1>6, <1>7, <1>8 DEF RrrOps, RriOps, RrsOps, RrlOps

LEMMA PackIs ==
  ASSUME NEW op, NEW d, NEW r, NEW s, NEW hi
  PROVE  Pack(op, d, r, s, hi) = Packed(OpcodeOf[op], d, r, s, hi)
BY DEF Pack, Packed, Low

(* What a lane makes of an instruction that was encoded.                   *)
Shape(a, insn) ==
  /\ a \in Atom
  /\ Decode(a) = RowOf(insn.op)
  /\ Rs1(a) = insn.rs1
  /\ insn.op \in RrrOps => Rd(a) = insn.rd /\ Rs2(a) = insn.rs2
  /\ insn.op \in {"addi", "slli"} => Rd(a) = insn.rd /\ Rs2(a) = insn.imm
  /\ insn.op = "sw" => Rd(a) = insn.imm /\ Rs2(a) = insn.rs2
  /\ insn.op \in {"beq", "bne"} => Rs2(a) = insn.rs2 /\ Slice(a, 7, 4) = 2 * insn.imm
  /\ insn.op = "jr" => Rd(a) = insn.imm % 32 /\ Slice(a, 15, 12) = 0

LEMMA Encoded ==
  ASSUME NEW insn \in Insns, NEW lane, NEW lanes,
         Machine!WellFormedInsn(insn, lane, lanes)
  PROVE  Shape(encode(insn), insn)
<1>. DEFINE a == encode(insn)  op == insn.op  code == OpcodeOf[op]
<1>1. /\ op \in (RrrOps \union RriOps \union RrsOps \union RrlOps) \ {"lw"}
      /\ Upto(insn.rd, 32) /\ Upto(insn.rs1, 32) /\ Upto(insn.rs2, 32)
      /\ insn.imm \in Int
  BY DEF Insns, Machine!WellFormedInsn, Upto
<1>2. /\ code \in 0..14 /\ DecodeTable[Patterns[code + 1]] = RowOf(op)
      /\ Patterns[code + 1] \in RrrPatterns <=> op \in RrrOps
  BY <1>1, Opcodes
<1>3. Upto(code, 16) /\ code < Len(Patterns)
  BY <1>2 DEF Patterns, Upto
<1>. HIDE DEF code
<1>4. ASSUME Opcode(a) = code, op \in RrrOps => RrrFixed(a)
      PROVE  Decode(a) = RowOf(op)
  BY <1>2, <1>3, <1>4 DEF Decode, Matches
<1>5. CASE op \in RrrOps
  <2>1. a = Packed(code, insn.rd, insn.rs1, insn.rs2, 2048)
    <3>1. op \notin RriOps /\ op \notin RrsOps \union RrlOps
      BY <1>5 DEF RrrOps, RriOps, RrsOps, RrlOps
    <3>2. a = Pack(op, insn.rd, insn.rs1, insn.rs2, 2048)
      BY <1>5, <3>1 DEF encode
    <3>. QED
      BY <3>2, PackIs DEF code
  <2>2. Upto(2048, 4096) /\ 2048 % 16 = 0 /\ 2048 \div 16 = 128
    BY SMT DEF Upto
  <2>. HIDE DEF a
  <2>3. /\ a \in Atom /\ Opcode(a) = code /\ Rd(a) = insn.rd
        /\ Rs1(a) = insn.rs1 /\ Rs2(a) = insn.rs2
        /\ Slice(a, 23, 20) = 0 /\ a.top = 128
    BY <1>1, <1>3, <2>1, <2>2, PackedFields, SMT
  <2>4. Decode(a) = RowOf(op)
    BY <1>4, <2>3 DEF RrrFixed
  <2>5. op \notin {"addi", "slli", "sw", "beq", "bne", "jr"}
    BY <1>5 DEF RrrOps
  <2>. QED
    BY <1>5, <2>3, <2>4, <2>5 DEF Shape, a
<1>6. CASE op \in {"addi", "slli"}
  <2>1. insn.imm \in 0..31 /\ op \notin RrrOps
    BY <1>6 DEF Machine!WellFormedInsn, Machine!ImmOps, RrrOps
  <2>2. insn.imm % 32 = insn.imm /\ insn.imm \div 32 = 0 /\ Upto(insn.imm, 32)
    BY <2>1 DEF Upto
  <2>3. a = Packed(code, insn.rd, insn.rs1, insn.imm, 0)
    <3>1. op \in RriOps /\ op \notin RrsOps \union RrlOps
      BY <1>6 DEF RriOps, RrsOps, RrlOps
    <3>2. a = Pack(op, insn.rd, insn.rs1, insn.imm, 0)
      BY <2>1, <2>2, <3>1 DEF encode
    <3>. QED
      BY <3>2, PackIs DEF code
  <2>4. Upto(0, 4096)
    BY SMT DEF Upto
  <2>. HIDE DEF a
  <2>5. /\ a \in Atom /\ Opcode(a) = code /\ Rd(a) = insn.rd
        /\ Rs1(a) = insn.rs1 /\ Rs2(a) = insn.imm
    BY <1>1, <1>3, <2>1, <2>2, <2>3, <2>4, PackedFields, SMT
  <2>6. Decode(a) = RowOf(op)
    BY <1>4, <2>1, <2>5
  <2>7. op \notin {"sw", "beq", "bne", "jr"}
    BY <1>6
  <2>. QED
    BY <1>6, <2>1, <2>5, <2>6, <2>7 DEF Shape, a
<1>7. CASE op \in {"sw", "beq", "bne"}
  <2>1. insn.imm \in 0..31 /\ op \notin RrrOps /\ op \notin RriOps
        /\ (op # "sw" => insn.imm \in 0..7)
    BY <1>7 DEF Machine!WellFormedInsn, Machine!ImmOps, RrrOps, RriOps
  <2>2. LowField(insn.imm) = insn.imm /\ HighField(insn.imm) = 0 /\ Upto(insn.imm, 32)
    BY <2>1 DEF LowField, HighField, Upto
  <2>3. a = Packed(code, insn.imm, insn.rs1, insn.rs2, 0)
    BY <1>7, <2>1, <2>2, PackIs DEF encode, RrsOps, RrlOps, code
  <2>4. Upto(0, 4096)
    BY SMT DEF Upto
  <2>. HIDE DEF a
  <2>5. /\ a \in Atom /\ Opcode(a) = code /\ Rd(a) = insn.imm
        /\ Rs1(a) = insn.rs1 /\ Rs2(a) = insn.rs2
        /\ insn.imm < 8 => Slice(a, 7, 4) = 2 * insn.imm
    BY <1>1, <1>3, <2>1, <2>2, <2>3, <2>4, PackedFields, SMT
  <2>6. Decode(a) = RowOf(op)
    BY <1>4, <2>1, <2>5
  <2>7. op \notin {"addi", "slli", "jr"} /\ (op # "sw" => insn.imm < 8)
    BY <1>7, <2>1
  <2>. QED
    BY <1>7, <2>1, <2>5, <2>6, <2>7 DEF Shape, a
<1>8. CASE op = "jr"
  <2>1. insn.rs1 < 4 /\ insn.rs2 % 2 = 0 /\ op \notin RrrOps /\ op \notin RriOps
    BY <1>8 DEF Machine!WellFormedInsn, RrrOps, RriOps
  <2>2. Upto(LowField(insn.imm), 32) /\ LowField(insn.imm) = insn.imm % 32
        /\ Upto(HighField(insn.imm), 4096)
    BY <1>1, SMT DEF LowField, HighField, Upto
  <2>3. a = Packed(code, LowField(insn.imm), insn.rs1, insn.rs2, HighField(insn.imm))
    BY <1>8, <2>1, PackIs DEF encode, RrsOps, RrlOps, code
  <2>. HIDE DEF a
  <2>4. /\ a \in Atom /\ Opcode(a) = code /\ Rd(a) = insn.imm % 32
        /\ Rs1(a) = insn.rs1 /\ Slice(a, 15, 12) = 0
    BY <1>1, <1>3, <2>1, <2>2, <2>3, PackedFields, SMT
  <2>5. Decode(a) = RowOf(op)
    BY <1>4, <2>1, <2>4
  <2>. QED
    BY <1>8, <2>1, <2>4, <2>5 DEF Shape, a
<1>. QED
  BY <1>1, <1>5, <1>6, <1>7, <1>8 DEF RriOps, RrsOps, RrlOps

-----------------------------------------------------------------------------
(* Operations on bits.                                                     *)
LEMMA Powers ==
  \A k \in 0..15 : 2^k = Pow2[k + 1] /\ Pow2[k + 1] \in Nat \ {0}
<1>1. /\ 2^0 = 1 /\ 2^1 = 2 /\ 2^2 = 4 /\ 2^3 = 8 /\ 2^4 = 16 /\ 2^5 = 32
      /\ 2^6 = 64 /\ 2^7 = 128 /\ 2^8 = 256 /\ 2^9 = 512 /\ 2^10 = 1024
      /\ 2^11 = 2048 /\ 2^12 = 4096 /\ 2^13 = 8192 /\ 2^14 = 16384 /\ 2^15 = 32768
  BY SMT
<1>2. /\ Pow2[0 + 1] = 1 /\ Pow2[1 + 1] = 2 /\ Pow2[2 + 1] = 4 /\ Pow2[3 + 1] = 8
      /\ Pow2[4 + 1] = 16 /\ Pow2[5 + 1] = 32 /\ Pow2[6 + 1] = 64
      /\ Pow2[7 + 1] = 128 /\ Pow2[8 + 1] = 256 /\ Pow2[9 + 1] = 512
      /\ Pow2[10 + 1] = 1024 /\ Pow2[11 + 1] = 2048 /\ Pow2[12 + 1] = 4096
      /\ Pow2[13 + 1] = 8192 /\ Pow2[14 + 1] = 16384 /\ Pow2[15 + 1] = 32768
  BY SMT DEF Pow2
<1>3. /\ 2^0 = Pow2[0 + 1] /\ 2^1 = Pow2[1 + 1] /\ 2^2 = Pow2[2 + 1]
      /\ 2^3 = Pow2[3 + 1] /\ 2^4 = Pow2[4 + 1] /\ 2^5 = Pow2[5 + 1]
      /\ 2^6 = Pow2[6 + 1] /\ 2^7 = Pow2[7 + 1] /\ 2^8 = Pow2[8 + 1]
      /\ 2^9 = Pow2[9 + 1] /\ 2^10 = Pow2[10 + 1] /\ 2^11 = Pow2[11 + 1]
      /\ 2^12 = Pow2[12 + 1] /\ 2^13 = Pow2[13 + 1] /\ 2^14 = Pow2[14 + 1]
      /\ 2^15 = Pow2[15 + 1]
  BY <1>1, <1>2, SMT
<1>4. /\ Pow2[0 + 1] \in Nat \ {0} /\ Pow2[1 + 1] \in Nat \ {0} /\ Pow2[2 + 1] \in Nat \ {0}
      /\ Pow2[3 + 1] \in Nat \ {0} /\ Pow2[4 + 1] \in Nat \ {0} /\ Pow2[5 + 1] \in Nat \ {0}
      /\ Pow2[6 + 1] \in Nat \ {0} /\ Pow2[7 + 1] \in Nat \ {0} /\ Pow2[8 + 1] \in Nat \ {0}
      /\ Pow2[9 + 1] \in Nat \ {0} /\ Pow2[10 + 1] \in Nat \ {0} /\ Pow2[11 + 1] \in Nat \ {0}
      /\ Pow2[12 + 1] \in Nat \ {0} /\ Pow2[13 + 1] \in Nat \ {0} /\ Pow2[14 + 1] \in Nat \ {0}
      /\ Pow2[15 + 1] \in Nat \ {0}
  BY <1>2, SMT
<1>5. ASSUME NEW k \in 0..15 PROVE 2^k = Pow2[k + 1] /\ Pow2[k + 1] \in Nat \ {0}
  <2>1. k \in {0, 1, 2, 3, 4, 5, 6, 7, 8, 9, 10, 11, 12, 13, 14, 15}
    BY SMT
  <2>2. 2^k = Pow2[k + 1]
    BY <1>3, <2>1, Zenon
  <2>3. Pow2[k + 1] \in Nat \ {0}
    BY <1>4, <2>1, Zenon
  <2>. QED
    BY <2>2, <2>3
<1>. QED
  BY <1>5

(* Dividing by twice as much is halving once more.                         *)
LEMMA Halved ==
  ASSUME NEW x \in Nat, NEW c \in Nat \ {0}
  PROVE  x \div c = 2 * (x \div (2 * c)) + ((x \div c) % 2)
<1>. DEFINE q == x \div c  r == x % c  h == q \div 2  b == q % 2
<1>1. x = c * q + r /\ r \in 0..(c - 1) /\ q \in Nat
  BY DivMod
<1>. HIDE DEF q, r
<1>2. q = 2 * h + b /\ h \in Nat /\ b \in {0, 1}
  BY <1>1
<1>. HIDE DEF h, b
<1>3. c * q = (2 * c) * h + c * b /\ c * b \in 0..c
  BY <1>2
<1>4. x = (2 * c) * h + (c * b + r) /\ c * b + r \in 0..(2 * c - 1) /\ 2 * c \in Nat \ {0}
  BY <1>1, <1>2, <1>3
<1>. DEFINE low == c * b + r  m == 2 * c
<1>5. x \div m = h
  <2>1. x = m * h + low /\ low \in 0..(m - 1) /\ m \in Nat \ {0}
    BY <1>4
  <2>. HIDE DEF low, m
  <2>. QED
    BY <1>2, <2>1, DivModIs
<1>. QED
  BY <1>2, <1>5 DEF q, b

LEMMA WordIs ==
  ASSUME NEW x \in Word
  PROVE  x \in Nat /\ x < 65536
<1>1. WordSize = 65536
  BY DEF WordSize
<1>2. x \in Nat /\ x < WordSize
  BY WordSizeNat DEF Word
<1>. QED
  BY <1>1, <1>2, SMT

(* A word is the sum of its bits.                                          *)
LEMMA WordBits ==
  ASSUME NEW x \in Word
  PROVE  x = FromBits([i \in 0..15 |-> Bit(x, i)])
<1>. DEFINE q(i) == x \div Pow2[i + 1]  b == [i \in 0..15 |-> Bit(x, i)]
<1>1. x \in Nat /\ x < 65536
  BY WordIs
<1>2. ASSUME NEW i \in 0..14
      PROVE  q(i) = 2 * q(i + 1) + b[i]
  <2>1. Pow2[i + 1] \in Nat \ {0}
    BY Powers
  <2>2. Pow2[(i + 1) + 1] = 2 * Pow2[i + 1]
    BY DEF Pow2
  <2>3. q(i) = 2 * (x \div (2 * Pow2[i + 1])) + (q(i) % 2)
    <3>. DEFINE p == Pow2[i + 1]
    <3>1. p \in Nat \ {0} /\ x \in Nat
      BY <1>1, <2>1
    <3>. HIDE DEF p
    <3>2. x \div p = 2 * (x \div (2 * p)) + ((x \div p) % 2)
      BY <3>1, Halved
    <3>. QED
      BY <3>2 DEF p
  <2>. QED
    BY <2>2, <2>3 DEF Bit
<1>3. q(0) = x /\ q(15) = b[15]
  <2>1. Pow2[0 + 1] = 1 /\ x \div 1 = x
    BY <1>1 DEF Pow2
  <2>2. q(15) \in Nat /\ q(15) < 2
    <3>1. Pow2[15 + 1] = 32768
      BY DEF Pow2
    <3>. QED
      BY <1>1, <3>1, SMT
  <2>3. b[15] = q(15) % 2
    BY DEF Bit
  <2>4. q(15) % 2 = q(15)
    <3>. HIDE DEF q
    <3>. QED
      BY <2>2
  <2>. QED
    BY <2>1, <2>3, <2>4
<1>4. \A i \in 0..15 : b[i] \in Int /\ q(i) \in Int
  <2>1. \A i \in 0..15 : b[i] \in 0..1
    BY BitRange
  <2>2. ASSUME NEW i \in 0..15 PROVE q(i) \in Int
    <3>1. Pow2[i + 1] \in Nat \ {0}
      BY Powers
    <3>. QED
      BY <1>1, <3>1
  <2>. HIDE DEF b, q
  <2>. QED
    BY <2>1, <2>2
<1>. HIDE DEF q, b
<1>5. ASSUME NEW i \in {0, 4, 8}
      PROVE  q(i) = Nibble(b, i) + 16 * q(i + 4)
  <2>1. /\ q(i) = 2 * q(i + 1) + b[i] /\ q(i + 1) = 2 * q(i + 2) + b[i + 1]
        /\ q(i + 2) = 2 * q(i + 3) + b[i + 2] /\ q(i + 3) = 2 * q(i + 4) + b[i + 3]
    <3>1. i \in 0..14 /\ i + 1 \in 0..14 /\ i + 2 \in 0..14 /\ i + 3 \in 0..14
      OBVIOUS
    <3>2. (i + 1) + 1 = i + 2 /\ (i + 2) + 1 = i + 3 /\ (i + 3) + 1 = i + 4
      OBVIOUS
    <3>. QED
      BY <1>2, <3>1, <3>2
  <2>2. /\ b[i] \in Int /\ b[i + 1] \in Int /\ b[i + 2] \in Int /\ b[i + 3] \in Int
        /\ q(i) \in Int /\ q(i + 1) \in Int /\ q(i + 2) \in Int /\ q(i + 3) \in Int
        /\ q(i + 4) \in Int
    BY <1>4
  <2>. QED
    BY <2>1, <2>2 DEF Nibble
<1>6. q(12) = Nibble(b, 12)
  <2>1. /\ q(12) = 2 * q(13) + b[12] /\ q(13) = 2 * q(14) + b[13]
        /\ q(14) = 2 * q(15) + b[14]
    BY <1>2
  <2>2. /\ b[12] \in Int /\ b[13] \in Int /\ b[14] \in Int /\ b[15] \in Int
        /\ q(12) \in Int /\ q(13) \in Int /\ q(14) \in Int
    BY <1>4
  <2>3. Nibble(b, 12) = b[12] + 2 * b[13] + 4 * b[14] + 8 * b[15]
    BY DEF Nibble
  <2>. QED
    BY <1>3, <2>1, <2>2, <2>3
<1>7. x = FromBits(b)
  <2>. DEFINE n0 == Nibble(b, 0)  n4 == Nibble(b, 4)  n8 == Nibble(b, 8)
  <2>1. q(0) = n0 + 16 * q(4) /\ q(4) = n4 + 16 * q(8) /\ q(8) = n8 + 16 * q(12)
    BY <1>5
  <2>2. q(0) \in Int /\ q(4) \in Int /\ q(8) \in Int /\ q(12) \in Int
    BY <1>4
  <2>3. n0 \in Int /\ n4 \in Int /\ n8 \in Int
    BY <1>4 DEF Nibble
  <2>4. FromBits(b) = n0 + 16 * n4 + 256 * n8 + 4096 * q(12)
    BY <1>6, SMT DEF FromBits
  <2>. HIDE DEF n0, n4, n8
  <2>. QED
    BY <1>3, <2>1, <2>2, <2>3, <2>4, SMT
<1>. QED
  BY <1>7, Zenon DEF b

(* What holds of bits holds of words.                                      *)
SumsUp(z, a, b, n, c) == \A i \in 0..15 : z[i] = a[i] + b[i] - n * c[i]

LEMMA BitSums ==
  ASSUME NEW n \in {1, 2}, NEW a \in [0..15 -> Int], NEW b \in [0..15 -> Int],
         NEW c \in [0..15 -> Int], NEW z \in [0..15 -> Int],
         SumsUp(z, a, b, n, c)
  PROVE  FromBits(z) = FromBits(a) + FromBits(b) - n * FromBits(c)
<1>1. ASSUME NEW i \in {0, 4, 8, 12}
      PROVE  /\ Nibble(z, i) = Nibble(a, i) + Nibble(b, i) - n * Nibble(c, i)
             /\ Nibble(a, i) \in Int /\ Nibble(b, i) \in Int /\ Nibble(c, i) \in Int
  <2>1. i \in 0..15 /\ i + 1 \in 0..15 /\ i + 2 \in 0..15 /\ i + 3 \in 0..15
    OBVIOUS
  <2>2. /\ z[i] = a[i] + b[i] - n * c[i]
        /\ z[i + 1] = a[i + 1] + b[i + 1] - n * c[i + 1]
        /\ z[i + 2] = a[i + 2] + b[i + 2] - n * c[i + 2]
        /\ z[i + 3] = a[i + 3] + b[i + 3] - n * c[i + 3]
    BY <2>1 DEF SumsUp
  <2>3. /\ a[i] \in Int /\ a[i + 1] \in Int /\ a[i + 2] \in Int /\ a[i + 3] \in Int
        /\ b[i] \in Int /\ b[i + 1] \in Int /\ b[i + 2] \in Int /\ b[i + 3] \in Int
        /\ c[i] \in Int /\ c[i + 1] \in Int /\ c[i + 2] \in Int /\ c[i + 3] \in Int
    BY <2>1
  <2>4. CASE n = 1
    BY <2>2, <2>3, <2>4 DEF Nibble
  <2>5. CASE n = 2
    BY <2>2, <2>3, <2>5 DEF Nibble
  <2>. QED
    BY <2>4, <2>5
<1>2. n = 1 \/ n = 2
  OBVIOUS
<1>. QED
  BY <1>1, <1>2 DEF FromBits

LEMMA BitIs ==
  ASSUME NEW x \in Word, NEW k \in 0..15
  PROVE  Machine!BitOf(x, k) = Bit(x, k)
BY Powers DEF Machine!BitOf, Bit

(* What two words have in common is the ALU's and.                         *)
LEMMA CommonIs ==
  ASSUME NEW x \in Word, NEW y \in Word
  PROVE  Machine!Common(x, y) = BitAnd(x, y)
<1>. DEFINE both == [i \in 0..15 |-> IF Bit(x, i) = 1 THEN Bit(y, i) ELSE 0]
            step == [p \in (1..16) \X Int |-> p[2] + both[p[1] - 1] * Pow2[p[1]]]
<1>1. both \in [0..15 -> 0..1]
  BY BitRange
<1>2. ASSUME NEW k \in 1..16
      PROVE  /\ both[k - 1] * Pow2[k] \in Int
             /\ both[k - 1] * Pow2[k]
                  = IF Machine!BitOf(x, k - 1) = 1 /\ Machine!BitOf(y, k - 1) = 1
                    THEN 2^(k - 1) ELSE 0
  <2>1. k - 1 \in 0..15 /\ (k - 1) + 1 = k
    OBVIOUS
  <2>2. 2^(k - 1) = Pow2[k] /\ Pow2[k] \in Nat
    BY <2>1, Powers
  <2>3. /\ both[k - 1] = IF Bit(x, k - 1) = 1 THEN Bit(y, k - 1) ELSE 0
        /\ Bit(y, k - 1) \in {0, 1}
    BY <2>1, BitRange
  <2>4. Machine!BitOf(x, k - 1) = Bit(x, k - 1) /\ Machine!BitOf(y, k - 1) = Bit(y, k - 1)
    BY <2>1, BitIs
  <2>. HIDE DEF both
  <2>. QED
    BY <2>2, <2>3, <2>4
<1>3. step \in Steps(16, Int)
  <2>1. \A p \in (1..16) \X Int : p[2] + both[p[1] - 1] * Pow2[p[1]] \in Int
    BY <1>2
  <2>. QED
    BY <2>1 DEF Steps
<1>4. PICK h \in [0..16 -> Int] : Follows(h, 16, 0, step)
  <2>. HIDE DEF step
  <2>1. 16 \in Nat /\ 0 \in Int
    OBVIOUS
  <2>. QED
    BY <1>3, <2>1, Recursion
<1>5. h[0] = 0 /\ \A k \in 1..16 : h[k] = h[k - 1] + both[k - 1] * Pow2[k]
  <2>1. h[0] = 0 /\ \A k \in 1..16 : h[k] = step[<<k, h[k - 1]>>]
    BY <1>4 DEF Follows
  <2>2. ASSUME NEW k \in 1..16 PROVE h[k] = h[k - 1] + both[k - 1] * Pow2[k]
    <3>1. <<k, h[k - 1]>> \in (1..16) \X Int
      OBVIOUS
    <3>2. step[<<k, h[k - 1]>>] = h[k - 1] + both[k - 1] * Pow2[k]
      <4>. HIDE DEF both
      <4>. QED
        BY <3>1
    <3>. HIDE DEF step
    <3>. QED
      BY <2>1, <3>2
  <2>. QED
    BY <2>1, <2>2
<1>. HIDE DEF step, both
<1>. DEFINE Body(a) == [k \in 0..16 |-> IF k = 0 THEN 0
                          ELSE a[k - 1] + (IF /\ Machine!BitOf(x, k - 1) = 1
                                              /\ Machine!BitOf(y, k - 1) = 1
                                           THEN 2^(k - 1) ELSE 0)]
            upto == CHOOSE a : a = Body(a)
<1>6. h = Body(h)
  <2>1. \A k \in 0..16 : h[k] = IF k = 0 THEN 0
                          ELSE h[k - 1] + (IF /\ Machine!BitOf(x, k - 1) = 1
                                              /\ Machine!BitOf(y, k - 1) = 1
                                           THEN 2^(k - 1) ELSE 0)
    <3>1. ASSUME NEW k \in 0..16, k # 0
          PROVE  h[k] = h[k - 1] + (IF /\ Machine!BitOf(x, k - 1) = 1
                                       /\ Machine!BitOf(y, k - 1) = 1
                                    THEN 2^(k - 1) ELSE 0)
      <4>1. k \in 1..16
        BY <3>1
      <4>. QED
        BY <1>2, <1>5, <4>1
    <3>2. h[0] = 0
      BY <1>5
    <3>. QED
      BY <3>1, <3>2
  <2>. QED
    BY <2>1
<1>7. upto = Body(upto)
  <2>. HIDE DEF Body
  <2>. QED
    BY <1>6, Zenon
<1>8. Machine!Common(x, y) = upto[16]
  <2>1. Machine!Common(x, y)
          = (CHOOSE a : a = [k \in 0..16 |-> IF k = 0 THEN 0
                          ELSE a[k - 1] + (IF /\ Machine!BitOf(x, k - 1) = 1
                                              /\ Machine!BitOf(y, k - 1) = 1
                                           THEN 2^(k - 1) ELSE 0)])[16]
    BY Zenon DEF Machine!Common
  <2>. QED
    BY <2>1, Zenon
<1>. HIDE DEF upto
<1>9. upto[0] = 0 /\ \A k \in 1..16 : upto[k] = upto[k - 1] + both[k - 1] * Pow2[k]
  <2>1. upto[0] = 0
    BY <1>7
  <2>2. ASSUME NEW k \in 1..16 PROVE upto[k] = upto[k - 1] + both[k - 1] * Pow2[k]
    <3>1. k \in 0..16 /\ k # 0
      OBVIOUS
    <3>2. upto[k] = upto[k - 1] + (IF /\ Machine!BitOf(x, k - 1) = 1
                                      /\ Machine!BitOf(y, k - 1) = 1
                                   THEN 2^(k - 1) ELSE 0)
      BY <1>7, <3>1
    <3>. QED
      BY <1>2, <3>2
  <2>. QED
    BY <2>1, <2>2
<1>. HIDE DEF Body
<1>10. \A k \in 0..15 : both[k] \in Int
  BY <1>1
<1>. DEFINE n0 == Nibble(both, 0)  n4 == Nibble(both, 4)
            n8 == Nibble(both, 8)  n12 == Nibble(both, 12)
<1>11. /\ n0 = both[0] + 2 * both[1] + 4 * both[2] + 8 * both[3]
       /\ n4 = both[4] + 2 * both[5] + 4 * both[6] + 8 * both[7]
       /\ n8 = both[8] + 2 * both[9] + 4 * both[10] + 8 * both[11]
       /\ n12 = both[12] + 2 * both[13] + 4 * both[14] + 8 * both[15]
  BY DEF Nibble
<1>12. /\ upto[1] = upto[0] + both[0] * 1 /\ upto[2] = upto[1] + both[1] * 2
       /\ upto[3] = upto[2] + both[2] * 4 /\ upto[4] = upto[3] + both[3] * 8
  BY <1>9, SMT DEF Pow2
<1>13. /\ upto[5] = upto[4] + both[4] * 16 /\ upto[6] = upto[5] + both[5] * 32
       /\ upto[7] = upto[6] + both[6] * 64 /\ upto[8] = upto[7] + both[7] * 128
  BY <1>9, SMT DEF Pow2
<1>14. /\ upto[9] = upto[8] + both[8] * 256 /\ upto[10] = upto[9] + both[9] * 512
       /\ upto[11] = upto[10] + both[10] * 1024 /\ upto[12] = upto[11] + both[11] * 2048
  BY <1>9, SMT DEF Pow2
<1>15. /\ upto[13] = upto[12] + both[12] * 4096 /\ upto[14] = upto[13] + both[13] * 8192
       /\ upto[15] = upto[14] + both[14] * 16384
       /\ upto[16] = upto[15] + both[15] * 32768
  BY <1>9, SMT DEF Pow2
<1>. HIDE DEF n0, n4, n8, n12
<1>16. upto[4] = n0
  BY <1>9, <1>10, <1>11, <1>12, SMT
<1>17. upto[8] = upto[4] + 16 * n4 /\ n0 \in Int /\ n4 \in Int
  BY <1>10, <1>11, <1>13, <1>16, SMT
<1>18. upto[12] = upto[8] + 256 * n8 /\ n8 \in Int
  BY <1>10, <1>11, <1>14, <1>16, <1>17, SMT
<1>19. upto[16] = upto[12] + 4096 * n12 /\ n12 \in Int
  BY <1>10, <1>11, <1>15, <1>16, <1>17, <1>18, SMT
<1>20. FromBits(both) = n0 + 16 * n4 + 256 * n8 + 4096 * n12
  BY SMT DEF FromBits, n0, n4, n8, n12
<1>21. upto[16] = FromBits(both)
  BY <1>16, <1>17, <1>18, <1>19, <1>20, SMT
<1>. QED
  BY <1>8, <1>21 DEF BitAnd, both

(* Machine and ALU do the same to bits.                                    *)
LEMMA BitOps ==
  ASSUME NEW x \in Word, NEW y \in Word
  PROVE  /\ Machine!Common(x, y) = BitAnd(x, y)
         /\ x + y - Machine!Common(x, y) = BitOr(x, y)
         /\ x + y - 2 * Machine!Common(x, y) = BitXor(x, y)
<1>. DEFINE a == [i \in 0..15 |-> Bit(x, i)]
            b == [i \in 0..15 |-> Bit(y, i)]
            c == [i \in 0..15 |-> IF Bit(x, i) = 1 THEN Bit(y, i) ELSE 0]
            o == [i \in 0..15 |-> IF Bit(x, i) = 1 THEN 1 ELSE Bit(y, i)]
            z == [i \in 0..15 |-> IF Bit(x, i) = Bit(y, i) THEN 0 ELSE 1]
<1>1. \A i \in 0..15 : Bit(x, i) \in {0, 1} /\ Bit(y, i) \in {0, 1}
  BY BitRange
<1>2. /\ a \in [0..15 -> Int] /\ b \in [0..15 -> Int] /\ c \in [0..15 -> Int]
      /\ o \in [0..15 -> Int] /\ z \in [0..15 -> Int]
  BY <1>1
<1>3. SumsUp(o, a, b, 1, c) /\ SumsUp(z, a, b, 2, c)
  BY <1>1 DEF SumsUp
<1>4. x = FromBits(a) /\ y = FromBits(b)
  BY WordBits
<1>5. /\ BitAnd(x, y) = FromBits(c) /\ BitOr(x, y) = FromBits(o)
      /\ BitXor(x, y) = FromBits(z)
  BY DEF BitAnd, BitOr, BitXor
<1>6. FromBits(c) \in Int
  <2>1. c \in [0..15 -> 0..1]
    BY <1>1
  <2>2. FromBits(c) \in Word
    <3>. HIDE DEF c
    <3>. QED
      BY <2>1, FromBitsWord
  <2>. QED
    BY <2>2, WordSizeNat DEF Word
<1>. HIDE DEF a, b, c, o, z
<1>7. FromBits(o) = FromBits(a) + FromBits(b) - 1 * FromBits(c)
  BY <1>2, <1>3, BitSums
<1>8. FromBits(z) = FromBits(a) + FromBits(b) - 2 * FromBits(c)
  BY <1>2, <1>3, BitSums
<1>9. Machine!Common(x, y) = FromBits(c)
  BY <1>5, CommonIs
<1>. QED
  BY <1>4, <1>5, <1>6, <1>7, <1>8, <1>9

-----------------------------------------------------------------------------
(* Shifts.  The machine's stop at 16, the ALU's tells larger ones apart.   *)
Dist(y) == 2^(IF y > 16 THEN 16 ELSE y)

LEMMA DistIs ==
  ASSUME NEW y \in Nat
  PROVE  /\ y < 16 => /\ Dist(y) = Pow2[y + 1] /\ Dist(y) \in Nat \ {0}
                      /\ (65536 \div Dist(y)) * Dist(y) = 65536
                      /\ 65536 \div Dist(y) \in Nat \ {0}
         /\ y >= 16 => Dist(y) = 65536
<1>1. ASSUME y < 16
      PROVE  /\ Dist(y) = Pow2[y + 1] /\ Dist(y) \in Nat \ {0}
             /\ (65536 \div Dist(y)) * Dist(y) = 65536
             /\ 65536 \div Dist(y) \in Nat \ {0}
  <2>1. y \in 0..15 /\ ~ (y > 16)
    BY <1>1
  <2>2. Dist(y) = Pow2[y + 1] /\ Pow2[y + 1] \in Nat \ {0}
    BY <2>1, Powers DEF Dist
  <2>3. Pow2[y + 1] \in {1, 2, 4, 8, 16, 32, 64, 128, 256, 512, 1024, 2048, 4096, 8192,
                         16384, 32768}
    BY <2>1 DEF Pow2
  <2>4. \A p \in {1, 2, 4, 8, 16, 32, 64, 128, 256, 512, 1024, 2048, 4096, 8192,
                  16384, 32768} : (65536 \div p) * p = 65536 /\ 65536 \div p \in Nat \ {0}
    BY SMT
  <2>. QED
    BY <2>2, <2>3, <2>4
<1>2. ASSUME y >= 16 PROVE Dist(y) = 65536
  <2>1. (IF y > 16 THEN 16 ELSE y) = 16
    BY <1>2
  <2>2. 2^16 = 65536
    BY SMT
  <2>3. Dist(y) = 2^16
    BY <2>1, Zenon DEF Dist
  <2>. QED
    BY <2>2, <2>3, SMT
<1>. QED
  BY <1>1, <1>2

(* Shifting left loses the high bits, before or after.                     *)
Shl(x, p) == (x * p) % 65536
Halves(m, p) == m * p = 65536

LEMMA LeftShift ==
  ASSUME NEW x \in Nat, NEW p \in Nat \ {0}, NEW m \in Nat \ {0}, Halves(m, p)
  PROVE  Shl(x, p) = Shl(x % m, p)
<1>. DEFINE q == x \div m  r == x % m
<1>1. x = m * q + r /\ r \in 0..(m - 1) /\ q \in Nat
  BY DivMod
<1>. HIDE DEF q, r
<1>2. x * p = (m * p) * q + r * p
  BY <1>1
<1>0. m * p = 65536
  BY DEF Halves
<1>3. r * p \in Nat /\ r * p <= (m - 1) * p
  BY <1>1
<1>4. (m - 1) * p = m * p - p
  OBVIOUS
<1>. DEFINE low == r * p  all == x * p
<1>5. low \in Nat /\ low < 65536 /\ Splits(all, 65536, q, low)
  <2>1. r * p <= 65536 - p
    BY <1>0, <1>3, <1>4, SMT
  <2>2. low \in Nat /\ low <= 65536 - p
    BY <1>3, <2>1 DEF low
  <2>3. low < 65536
    <3>. HIDE DEF low
    <3>. QED
      BY <2>2, SMT
  <2>4. all = 65536 * q + low
    BY <1>0, <1>2, SMT
  <2>. HIDE DEF low, all
  <2>. QED
    BY <2>2, <2>3, <2>4, SMT DEF Splits
<1>6. all \in Nat
  BY DEF all
<1>. HIDE DEF low, all
<1>7. all % 65536 = low /\ low % 65536 = low
  <2>1. all % 65536 = low
    BY <1>1, <1>5, <1>6, SplitsAt, SMT
  <2>2. low % 65536 = low
    BY <1>5, SMT
  <2>. QED
    BY <2>1, <2>2, SMT
<1>. QED
  BY <1>7, SMT DEF low, all, r, Shl

LEMMA Shifts ==
  ASSUME NEW x \in Word, NEW y \in Word
  PROVE  /\ Machine!Unsigned((x % (65536 \div Dist(y))) * Dist(y)) = AluOut("ALU_SLL", x, y)
         /\ x \div Dist(y) = AluOut("ALU_SRL", x, y)
         /\ Machine!Unsigned(Machine!AsSigned(x) \div Dist(y)) = AluOut("ALU_SRA", x, y)
<1>1. x \in Nat /\ y \in Nat /\ x < 65536
  BY WordIs
<1>2. /\ Machine!AsSigned(x) = Signed(x) /\ Signed(x) \in Int
      /\ Signed(x) >= -32768 /\ Signed(x) < 32768
  <2>1. CASE x < 32768
    <3>1. x \div 32768 = 0
      BY <1>1, <2>1, SMT
    <3>. QED
      BY <1>1, <2>1, <3>1, SMT DEF Machine!AsSigned, Signed
  <2>2. CASE ~ (x < 32768)
    <3>1. x \div 32768 = 1
      BY <1>1, <2>2, SMT
    <3>. QED
      BY <1>1, <2>2, <3>1, SMT DEF Machine!AsSigned, Signed
  <2>. QED
    BY <2>1, <2>2
<1>3. CASE y < 16
  <2>. DEFINE p == Dist(y)  m == 65536 \div p
  <2>1. p = Pow2[y + 1] /\ p \in Nat \ {0} /\ m * p = 65536 /\ m \in Nat \ {0}
    BY <1>1, <1>3, DistIs
  <2>. HIDE DEF p, m
  <2>2. Shl(x, p) = Shl(x % m, p)
    <3>1. Halves(m, p)
      BY <2>1 DEF Halves
    <3>. QED
      BY <1>1, <2>1, <3>1, LeftShift
  <2>3. AluOut("ALU_SLL", x, y) = (x * p) % 65536
    BY <1>3, <2>1 DEF AluOut, Trunc, WordSize
  <2>4. AluOut("ALU_SRL", x, y) = x \div p
    BY <1>3, <2>1 DEF AluOut
  <2>5. AluOut("ALU_SRA", x, y) = (Signed(x) \div p) % 65536
    BY <1>3, <2>1 DEF AluOut, Trunc, WordSize
  <2>. QED
    BY <1>2, <2>2, <2>3, <2>4, <2>5 DEF p, m, Machine!Unsigned, Shl
<1>4. CASE y >= 16
  <2>1. Dist(y) = 65536
    BY <1>1, <1>4, DistIs
  <2>2. /\ AluOut("ALU_SLL", x, y) = 0 /\ AluOut("ALU_SRL", x, y) = 0
        /\ AluOut("ALU_SRA", x, y) = IF Signed(x) < 0 THEN 65535 ELSE 0
    BY <1>1, <1>4 DEF AluOut, WordSize
  <2>3. 65536 \div 65536 = 1 /\ x % 1 = 0 /\ x \div 65536 = 0
    BY <1>1
  <2>4. (Signed(x) \div 65536) % 65536 = IF Signed(x) < 0 THEN 65535 ELSE 0
    <3>. DEFINE t == Signed(x)
    <3>1. t \in Int /\ t >= -32768 /\ t < 32768
      BY <1>2, SMT
    <3>. HIDE DEF t
    <3>2. CASE t < 0
      <4>. DEFINE k == t \div 65536
      <4>1. k \in Int /\ k + 1 = 0
        BY <3>1, <3>2, SMT
      <4>. HIDE DEF k
      <4>2. k % 65536 = 65535
        BY <4>1, SMT
      <4>. QED
        BY <3>2, <4>2, SMT DEF t, k
    <3>3. CASE ~ (t < 0)
      <4>1. t \div 65536 = 0 /\ 0 % 65536 = 0
        BY <3>1, <3>3, SMT
      <4>. QED
        BY <3>3, <4>1, SMT DEF t
    <3>. QED
      BY <3>2, <3>3
  <2>5. Machine!Unsigned((x % (65536 \div Dist(y))) * Dist(y)) = 0
    BY <2>1, <2>3 DEF Machine!Unsigned
  <2>6. x \div Dist(y) = AluOut("ALU_SRL", x, y)
    BY <2>1, <2>2, <2>3, SMT
  <2>7. Machine!Unsigned(Machine!AsSigned(x) \div Dist(y)) = AluOut("ALU_SRA", x, y)
    BY <1>2, <2>1, <2>2, <2>4, SMT DEF Machine!Unsigned
  <2>. QED
    BY <2>2, <2>5, <2>6, <2>7
<1>. QED
  BY <1>1, <1>3, <1>4

-----------------------------------------------------------------------------
(* What a lane computes is the instruction's value.                        *)
IsaRegs == [r \in 0..15 |-> IF r = 0 THEN 0 ELSE rf[r]]

LEMMA IsaRegsWord == TypeOK => IsaRegs \in [0..15 -> Word]
BY Widths DEF TypeOK, IsaRegs, Regs

LEMMA ReadIs ==
  ASSUME NEW a, NEW r \in 0..15, Decode(a).op1 = "OP1_RS1"
  PROVE  ReadPort(a, r) = IsaRegs[r]
<1>1. Port(r) = r
  BY DEF Port
<1>. QED
  BY <1>1 DEF ReadPort, IsaRegs

Known == (RrrOps \union RriOps \union RrsOps \union RrlOps) \ {"lw"}

LEMMA RowParts ==
  ASSUME NEW op \in Known
  PROVE  /\ RowOf(op).op1 = "OP1_RS1"
         /\ op \in RrrOps => RowOf(op) = RegReg(AluCode[op])
         /\ op \in {"addi", "slli"} => RowOf(op) = RegImm(AluCode[op])
         /\ op = "sw" => RowOf(op) = DecodeTable.SW
         /\ op = "beq" => RowOf(op) = DecodeTable.BEQ
         /\ op = "bne" => RowOf(op) = DecodeTable.BNE
         /\ op = "jr" => RowOf(op) = DecodeTable.JR
<1>1. CASE op \in RrrOps
  BY <1>1 DEF RowOf, RegReg, Row, RrrOps
<1>2. CASE op \in {"addi", "slli"}
  BY <1>2 DEF RowOf, RegImm, Row, RrrOps
<1>3. CASE op \in {"sw", "beq", "bne", "jr"}
  BY <1>3 DEF RowOf, DecodeTable, Row, Branch, RrrOps
<1>. QED
  BY <1>1, <1>2, <1>3 DEF Known, RriOps, RrsOps, RrlOps

LEMMA Operands ==
  ASSUME TypeOK, NEW insn \in Insns, insn.op \in Known, NEW a, Shape(a, insn)
  PROVE  /\ rs1(a) = IsaRegs[insn.rs1] /\ inp1(a) = rs1(a)
         /\ insn.op \notin {"addi", "slli", "jr"} => rs2(a) = IsaRegs[insn.rs2]
         /\ insn.op \in RrrOps => inp2(a) = rs2(a)
         /\ insn.op \in {"addi", "slli", "sw"} => inp2(a) = insn.imm
<1>1. Decode(a) = RowOf(insn.op) /\ Decode(a).op1 = "OP1_RS1"
  BY RowParts DEF Shape
<1>2. insn.rs1 \in 0..15 /\ insn.rs2 \in 0..15
  BY DEF Insns
<1>3. rs1(a) = IsaRegs[insn.rs1] /\ inp1(a) = rs1(a)
  BY <1>1, <1>2, ReadIs DEF Shape, rs1, inp1
<1>4. ASSUME insn.op \notin {"addi", "slli", "jr"}
      PROVE  rs2(a) = IsaRegs[insn.rs2]
  <2>1. Rs2(a) = insn.rs2
    BY <1>4 DEF Shape, Known, RriOps, RrsOps, RrlOps
  <2>. QED
    BY <1>1, <1>2, <2>1, ReadIs DEF rs2
<1>5. insn.op \in RrrOps => inp2(a) = rs2(a)
  BY <1>1, RowParts DEF RegReg, Row, inp2
<1>6. insn.op \in {"addi", "slli"} => inp2(a) = insn.imm
  BY <1>1, RowParts DEF RegImm, Row, inp2, Shape
<1>7. insn.op = "sw" => inp2(a) = insn.imm
  BY <1>1, RowParts DEF DecodeTable, Row, inp2, Shape
<1>. QED
  BY <1>3, <1>4, <1>5, <1>6, <1>7

LEMMA AluIs ==
  ASSUME NEW op \in RrrOps \union {"addi", "slli"}, NEW x \in Word, NEW y \in Word,
         NEW insn, NEW r, insn.op = op, r[insn.rs1] = x,
         y = IF op \in Machine!ImmOps THEN insn.imm ELSE r[insn.rs2]
  PROVE  AluOut(AluCode[op], x, y) = Machine!Value(r, insn)
<1>1. x \in Nat /\ y \in Nat
  BY WordSizeNat DEF Word
<1>2. CASE op \in {"add", "addi", "sub"}
  <2>1. Machine!Value(r, insn) = IF op = "sub" THEN Machine!Unsigned(x - y)
                                               ELSE Machine!Unsigned(x + y)
    BY <1>2 DEF Machine!Value
  <2>2. AluOut(AluCode[op], x, y) = IF op = "sub" THEN Trunc(x - y) ELSE Trunc(x + y)
    BY <1>2 DEF AluOut, AluCode
  <2>. QED
    BY <2>1, <2>2 DEF Machine!Unsigned, Trunc, WordSize
<1>3. CASE op \in {"xor", "and", "or"}
  <2>1. Machine!Value(r, insn) = CASE op = "xor" -> x + y - 2 * Machine!Common(x, y)
                                   [] op = "and" -> Machine!Common(x, y)
                                   [] OTHER -> x + y - Machine!Common(x, y)
    BY <1>3 DEF Machine!Value
  <2>2. AluOut(AluCode[op], x, y) = CASE op = "xor" -> BitXor(x, y)
                                      [] op = "and" -> BitAnd(x, y)
                                      [] OTHER -> BitOr(x, y)
    BY <1>3 DEF AluOut, AluCode
  <2>. QED
    BY <2>1, <2>2, BitOps
<1>4. CASE op \in {"sll", "slli", "srl", "sra"}
  <2>1. Machine!Value(r, insn)
          = CASE op = "srl" -> x \div Dist(y)
              [] op = "sra" -> Machine!Unsigned(Machine!AsSigned(x) \div Dist(y))
              [] OTHER -> Machine!Unsigned((x % (65536 \div Dist(y))) * Dist(y))
    BY <1>4 DEF Machine!Value, Dist
  <2>2. AluCode[op] = CASE op = "srl" -> "ALU_SRL" [] op = "sra" -> "ALU_SRA"
                        [] OTHER -> "ALU_SLL"
    BY <1>4 DEF AluCode
  <2>. QED
    BY <1>4, <2>1, <2>2, Shifts
<1>. QED
  BY <1>2, <1>3, <1>4 DEF RrrOps

LEMMA ValueIs ==
  ASSUME TypeOK, NEW insn \in Insns, NEW lane, NEW lanes,
         Machine!WellFormedInsn(insn, lane, lanes), NEW a, Shape(a, insn),
         insn.op \in RrrOps \union {"addi", "slli"}
  PROVE  alu(a) = Machine!Value(IsaRegs, insn)
<1>. DEFINE x == inp1(a)  y == inp2(a)  op == insn.op
<1>1. op \in Known
  BY DEF Known, RriOps, RrrOps
<1>2. x \in Word /\ y \in Word
  BY AluOperands DEF Shape
<1>3. x = IsaRegs[insn.rs1]
  BY <1>1, Operands
<1>4. y = IF op \in Machine!ImmOps THEN insn.imm ELSE IsaRegs[insn.rs2]
  <2>1. CASE op \in RrrOps
    <3>1. op \notin Machine!ImmOps /\ op \notin {"addi", "slli", "jr"}
      BY <2>1 DEF RrrOps, Machine!ImmOps
    <3>. QED
      BY <1>1, <2>1, <3>1, Operands
  <2>2. CASE op \in {"addi", "slli"}
    BY <1>1, <2>2, Operands DEF Machine!ImmOps
  <2>. QED
    BY <2>1, <2>2
<1>5. Decode(a).alu = AluCode[op]
  <2>1. Decode(a) = RowOf(op)
    BY DEF Shape
  <2>. QED
    BY <1>1, <2>1, RowParts DEF RegReg, RegImm, Row
<1>6. alu(a) = AluOut(AluCode[op], x, y)
  BY <1>5 DEF alu
<1>. HIDE DEF x, y
<1>. QED
  BY <1>2, <1>3, <1>4, <1>6, AluIs

-----------------------------------------------------------------------------
(* What an instruction does to registers, pc and memory.                   *)
LEMMA LaneOne == 1 \in Lanes /\ HasBru(1) /\ LastOf(BruLanes) = 1 /\ BruLanes # {}
<1>1. BruLanes = {1}
  BY ProgramAssumption
<1>2. 1 \in BruLanes /\ BruLanes \in SUBSET Lanes
  BY <1>1 DEF BruLanes
<1>3. LastOf(BruLanes) \in BruLanes
  BY <1>2, LastInSet
<1>. QED
  BY <1>1, <1>2, <1>3 DEF BruLanes

LEMMA LaneLast ==
  /\ Len(LaneNames) \in Nat \ {0} /\ AtomsPerInsn = Len(LaneNames)
  /\ LsuLanes # {} /\ LastOf(LsuLanes) = Len(LaneNames) /\ Len(LaneNames) \in Lanes
<1>1. AtomsPerInsn = Len(LaneNames) /\ AtomsPerInsn \in LsuLanes
  BY ProgramAssumption
<1>2. Len(LaneNames) \in Nat /\ LsuLanes \in SUBSET Lanes
  BY CoreAssumption DEF LsuLanes
<1>3. \A j \in LsuLanes : j <= Len(LaneNames)
  BY <1>2 DEF Lanes
<1>. DEFINE n == Len(LaneNames)
<1>4. LastOf(LsuLanes) = n
  <2>1. LastOf(LsuLanes) \in LsuLanes /\ \A j \in LsuLanes : j <= LastOf(LsuLanes)
    <3>1. n \in LsuLanes /\ \A j \in LsuLanes : j <= n
      BY <1>1, <1>3
    <3>. QED
      BY <3>1 DEF LastOf
  <2>. DEFINE l == LastOf(LsuLanes)
  <2>2. n <= l /\ l <= n
    BY <1>1, <1>3, <2>1
  <2>3. l \in 1..n
    BY <1>2, <2>1 DEF Lanes
  <2>. HIDE DEF l, n
  <2>4. l = n
    <3>1. n \in Nat
      BY <1>2 DEF n
    <3>. QED
      BY <2>2, <2>3, <3>1
  <2>. QED
    BY <2>4 DEF l
<1>. QED
  BY <1>1, <1>2, <1>4 DEF Lanes

LEMMA KnownOp ==
  ASSUME NEW insn \in Insns, NEW lane, NEW lanes,
         Machine!WellFormedInsn(insn, lane, lanes)
  PROVE  insn.op \in Known
BY DEF Insns, Machine!WellFormedInsn, Known

LEMMA TruncSame ==
  ASSUME NEW x \in Word
  PROVE  Trunc(x) = x /\ Trunc(x + 0) = x
<1>1. x \in Nat /\ x < 65536 /\ x + 0 = x
  BY WordIs
<1>2. x % 65536 = x
  BY <1>1, SMT
<1>. QED
  BY <1>1, <1>2, SMT DEF Trunc, WordSize

LEMMA TargetIs ==
  ASSUME TypeOK, fetch_en, NEW insn \in Insns, insn.op \in Known, NEW a, Shape(a, insn)
  PROVE  pc_next(1, a) = Machine!TargetOf(IsaRegs, insn, pc)
<1>. DEFINE op == insn.op  x == IsaRegs[insn.rs1]  z == IsaRegs[insn.rs2]
<1>1. rs1(a) = x /\ (op \in {"beq", "bne"} => rs2(a) = z)
  BY Operands
<1>2. Decode(a) = RowOf(op)
  BY DEF Shape
<1>3. pc_plusX = (pc + PcIncr) % PcMod
  BY DEF pc_plusX
<1>4. x \in Word
  BY IsaRegsWord DEF Insns
<1>5. pc_next(1, a) = BranchOut(Decode(a).br, rs1(a), rs2(a),
                                (pc + Slice(a, 7, 4)) % PcMod,
                                Trunc(rs1(a) + Slice(a, 15, 12)), pc_plusX)
  BY LaneOne DEF pc_next
<1>. HIDE DEF x, z
<1>6. CASE op \in {"beq", "bne"}
  <2>1. Slice(a, 7, 4) = 2 * insn.imm
    BY <1>6 DEF Shape
  <2>2. Decode(a).br = IF op = "beq" THEN "BR_EQ" ELSE "BR_NE"
    BY <1>2, <1>6, RowParts DEF DecodeTable, Branch, Row
  <2>. DEFINE taken == (op = "beq" /\ x = z) \/ (op = "bne" /\ x # z)
              there == (pc + 2 * insn.imm) % PcMod
              next == (pc + PcIncr) % PcMod
  <2>3. pc_next(1, a) = BranchOut(IF op = "beq" THEN "BR_EQ" ELSE "BR_NE", x, z, there,
                                  Trunc(x + Slice(a, 15, 12)), next)
    BY <1>1, <1>3, <1>5, <1>6, <2>1, <2>2
  <2>4. Machine!TargetOf(IsaRegs, insn, pc)
          = CASE op = "beq" /\ x = z -> there
              [] op = "bne" /\ x # z -> there
              [] op = "jr" -> x
              [] OTHER -> next
    BY DEF Machine!TargetOf, x, z
  <2>. HIDE DEF there, next
  <2>5. CASE op = "beq"
    BY <2>3, <2>4, <2>5 DEF BranchOut
  <2>6. CASE op = "bne"
    BY <2>3, <2>4, <2>6 DEF BranchOut
  <2>. QED
    BY <1>6, <2>5, <2>6
<1>7. CASE op = "jr"
  <2>1. Slice(a, 15, 12) = 0
    BY <1>7 DEF Shape
  <2>2. Decode(a).br = "BR_JALR"
    BY <1>2, <1>7, RowParts DEF DecodeTable, Row
  <2>3. Trunc(x + 0) = x
    BY <1>4, TruncSame
  <2>4. Machine!TargetOf(IsaRegs, insn, pc) = x
    BY <1>7 DEF Machine!TargetOf, x
  <2>. QED
    BY <1>1, <1>5, <2>1, <2>2, <2>3, <2>4 DEF BranchOut
<1>8. CASE op \notin {"beq", "bne", "jr"}
  <2>1. Decode(a).br = "BR_N"
    <3>1. CASE op \in RrrOps
      BY <1>2, <3>1, RowParts DEF RegReg, Row
    <3>2. CASE op \in {"addi", "slli"}
      BY <1>2, <3>2, RowParts DEF RegImm, Row
    <3>3. CASE op = "sw"
      BY <1>2, <3>3, RowParts DEF DecodeTable, Row
    <3>. QED
      BY <1>8, <3>1, <3>2, <3>3 DEF Known, RriOps, RrsOps, RrlOps
  <2>2. Machine!TargetOf(IsaRegs, insn, pc) = (pc + PcIncr) % PcMod
    BY <1>8 DEF Machine!TargetOf
  <2>. QED
    BY <1>3, <1>5, <2>1, <2>2 DEF BranchOut
<1>. QED
  BY <1>6, <1>7, <1>8

LEMMA PortIs ==
  ASSUME TypeOK, fetch_en, NEW insn \in Insns, NEW lane \in Lanes, NEW lanes,
         Machine!WellFormedInsn(insn, lane, lanes), NEW a, Shape(a, insn), NEW response
  PROVE  /\ Machine!Dest(insn) \in 0..15
         /\ Machine!Dest(insn) # 0 =>
              rfWritePort(lane, a, response)
                = [en |-> TRUE, addr |-> Machine!Dest(insn),
                   data |-> Machine!Value(IsaRegs, insn)]
         /\ Machine!Dest(insn) = 0 =>
              ~ rfWritePort(lane, a, response).en \/ rfWritePort(lane, a, response).addr = 0
<1>. DEFINE op == insn.op
<1>1. op \in Known /\ Decode(a) = RowOf(op)
  BY KnownOp DEF Shape
<1>2. rfWritePort(lane, a, response)
        = [en |-> Decode(a).wr_reg, addr |-> Port(Rd(a)), data |-> wb(lane, a, response)]
  BY DEF rfWritePort
<1>3. CASE op \in RrrOps \union {"addi", "slli"}
  <2>1. Machine!Dest(insn) = insn.rd
    BY <1>3 DEF Machine!Dest, Machine!RegOps, Machine!ImmOps, RrrOps
  <2>2. Rd(a) = insn.rd /\ insn.rd \in 0..15
    BY <1>3 DEF Shape, Insns
  <2>3. Port(Rd(a)) = insn.rd
    BY <2>2 DEF Port
  <2>4. Decode(a).wr_reg = TRUE /\ Decode(a).wb = "WB_ALU"
    BY <1>1, <1>3, RowParts DEF RegReg, RegImm, Row
  <2>5. wb(lane, a, response) = Machine!Value(IsaRegs, insn)
    BY <1>3, <2>4, ValueIs DEF wb
  <2>6. rfWritePort(lane, a, response)
          = [en |-> TRUE, addr |-> insn.rd, data |-> Machine!Value(IsaRegs, insn)]
    BY <1>2, <2>3, <2>4, <2>5, Zenon
  <2>. QED
    BY <2>1, <2>2, <2>6
<1>4. CASE op = "jr"
  <2>1. lane = 1
    BY <1>4 DEF Machine!WellFormedInsn, Machine!BranchOps
  <2>2. Rd(a) = insn.imm % 32 /\ insn.imm \in Int
    BY <1>4 DEF Shape, Insns
  <2>3. Port(Rd(a)) = insn.imm % 16 /\ insn.imm % 16 \in 0..15
    BY <2>2 DEF Port
  <2>4. Machine!Dest(insn) = insn.imm % 16
    BY <1>4 DEF Machine!Dest, Machine!RegOps, Machine!ImmOps
  <2>5. Decode(a).wr_reg = TRUE /\ Decode(a).wb = "WB_PC4"
    BY <1>1, <1>4, RowParts DEF DecodeTable, Row
  <2>6. pc_next(1, a) = IsaRegs[insn.rs1]
    <3>1. pc_next(1, a) = Machine!TargetOf(IsaRegs, insn, pc)
      BY <1>1, TargetIs
    <3>. QED
      BY <1>4, <3>1 DEF Machine!TargetOf
  <2>7. Trunc(IsaRegs[insn.rs1]) = IsaRegs[insn.rs1]
    <3>1. IsaRegs[insn.rs1] \in Word
      BY IsaRegsWord DEF Insns
    <3>. QED
      BY <3>1, TruncSame
  <2>8. Machine!Value(IsaRegs, insn) = IsaRegs[insn.rs1]
    BY <1>4 DEF Machine!Value
  <2>9. wb(lane, a, response) = Machine!Value(IsaRegs, insn)
    BY <2>1, <2>5, <2>6, <2>7, <2>8 DEF wb
  <2>10. rfWritePort(lane, a, response)
           = [en |-> TRUE, addr |-> insn.imm % 16, data |-> Machine!Value(IsaRegs, insn)]
    BY <1>2, <2>3, <2>5, <2>9, Zenon
  <2>. QED
    BY <2>3, <2>4, <2>10
<1>5. CASE op \in {"sw", "beq", "bne"}
  <2>1. Machine!Dest(insn) = 0
    BY <1>5 DEF Machine!Dest, Machine!RegOps, Machine!ImmOps
  <2>2. Decode(a).wr_reg = FALSE
    BY <1>1, <1>5, RowParts DEF DecodeTable, Branch, Row
  <2>. QED
    BY <1>2, <2>1, <2>2
<1>. QED
  BY <1>1, <1>3, <1>4, <1>5 DEF Known, RriOps, RrsOps, RrlOps

LEMMA StoreIs ==
  ASSUME TypeOK, NEW insn \in Insns, NEW lane, NEW lanes,
         Machine!WellFormedInsn(insn, lane, lanes), NEW a, Shape(a, insn)
  PROVE  /\ Decode(a).mem = "MEM_STORE" <=> insn.op = "sw"
         /\ insn.op = "sw" =>
              /\ Dmem!PlainIndex(alu(a) \div 4) = Machine!MemIndex(IsaRegs, insn)
              /\ rs2(a) = IsaRegs[insn.rs2]
<1>. DEFINE op == insn.op
<1>1. op \in Known /\ Decode(a) = RowOf(op)
  BY KnownOp DEF Shape
<1>2. CASE op = "sw"
  <2>1. Decode(a).mem = "MEM_STORE" /\ Decode(a).alu = "ALU_ADD"
    BY <1>1, <1>2, RowParts DEF DecodeTable, Row
  <2>2. rs1(a) = IsaRegs[insn.rs1] /\ inp1(a) = rs1(a) /\ rs2(a) = IsaRegs[insn.rs2]
        /\ inp2(a) = insn.imm
    BY <1>1, <1>2, Operands
  <2>3. alu(a) = Machine!Unsigned(IsaRegs[insn.rs1] + insn.imm)
    BY <2>1, <2>2 DEF alu, AluOut, Trunc, WordSize, Machine!Unsigned
  <2>. QED
    BY <1>2, <2>1, <2>2, <2>3 DEF Dmem!PlainIndex, Machine!MemIndex
<1>3. CASE op # "sw"
  <2>1. CASE op \in RrrOps
    BY <1>1, <1>3, <2>1, RowParts DEF RegReg, Row
  <2>2. CASE op \in {"addi", "slli"}
    BY <1>1, <1>3, <2>2, RowParts DEF RegImm, Row
  <2>3. CASE op \in {"beq", "bne", "jr"}
    BY <1>1, <1>3, <2>3, RowParts DEF DecodeTable, Branch, Row
  <2>. QED
    BY <1>1, <1>3, <2>1, <2>2, <2>3 DEF Known, RriOps, RrsOps, RrlOps
<1>. QED
  BY <1>2, <1>3

-----------------------------------------------------------------------------
(* The line fetched is the program's line.                                 *)

(* Quotient and remainder are unique below zero too: pc may be below the   *)
(* base address.                                                           *)
LEMMA IntDivIs ==
  ASSUME NEW n \in Nat \ {0}, NEW x \in Int, NEW q \in Int, NEW r \in 0..(n - 1),
         Splits(x, n, q, r)
  PROVE  x \div n = q /\ x % n = r
<1>. DEFINE p == x \div n  s == x % n
<1>1. x = n * p + s /\ s \in 0..(n - 1) /\ p \in Int
  OBVIOUS
<1>. HIDE DEF p, s
<1>2. n * q + r = n * p + s
  BY <1>1 DEF Splits
<1>3. n * p \in Int /\ n * q \in Int
  BY <1>1
<1>4. ~ (p < q)
  <2>. SUFFICES ASSUME p < q PROVE FALSE
    OBVIOUS
  <2>1. n * (q - p) >= n
    BY <1>1, MulGe
  <2>2. n * (q - p) = n * q - n * p
    BY <1>1
  <2>. QED
    BY <1>1, <1>2, <1>3, <2>1, <2>2
<1>5. ~ (q < p)
  <2>. SUFFICES ASSUME q < p PROVE FALSE
    OBVIOUS
  <2>1. n * (p - q) >= n
    BY <1>1, MulGe
  <2>2. n * (p - q) = n * p - n * q
    BY <1>1
  <2>. QED
    BY <1>1, <1>2, <1>3, <2>1, <2>2
<1>6. p = q
  BY <1>1, <1>4, <1>5
<1>7. s = r
  BY <1>1, <1>2, <1>3, <1>6
<1>. QED
  BY <1>6, <1>7 DEF p, s

(* The memory is indexed without the base address being taken off: a base  *)
(* that is a multiple of the memory's span makes no difference.            *)
IndexOf(a, n, m) == (a \div n) % m

LEMMA IndexIs ==
  ASSUME NEW a \in Nat, NEW base \in Nat, NEW n \in Nat \ {0}, NEW m \in Nat \ {0},
         base % n = 0, IndexOf(base, n, m) = 0
  PROVE  IndexOf(a - base, n, m) = IndexOf(a, n, m)
<1>. DEFINE b == base \div n  t == b \div m  q == a \div n  r == a % n
            u == q \div m  v == q % m
<1>1. b \in Nat /\ base = n * b
  BY DivMod
<1>2. q \in Nat /\ r \in 0..(n - 1) /\ a = n * q + r
  BY DivMod
<1>0. b % m = 0
  BY DEF IndexOf
<1>. HIDE DEF b, q, r
<1>3. t \in Nat /\ b = m * t
  <2>1. b = m * (b \div m) + (b % m) /\ b \div m \in Nat
    BY <1>1, DivMod
  <2>. HIDE DEF b
  <2>. QED
    BY <1>0, <2>1
<1>4. u \in Nat /\ v \in 0..(m - 1) /\ q = m * u + v
  BY <1>2, DivMod
<1>. HIDE DEF t, u, v
<1>5. Splits(a - base, n, q - b, r)
  BY <1>1, <1>2 DEF Splits
<1>6. (a - base) \div n = q - b
  <2>1. a - base \in Int /\ q - b \in Int
    BY <1>1, <1>2
  <2>. QED
    BY <1>2, <1>5, <2>1, IntDivIs
<1>7. Splits(q - b, m, u - t, v)
  BY <1>3, <1>4 DEF Splits
<1>8. (q - b) % m = v
  <2>1. q - b \in Int /\ u - t \in Int
    BY <1>1, <1>2, <1>3, <1>4
  <2>. QED
    BY <1>4, <1>7, <2>1, IntDivIs
<1>. QED
  BY <1>6, <1>8 DEF q, v, IndexOf

(* The place of pc's line in the program.                                  *)
Place == (pc \div PcIncr) % Imem!IndexMod
LineOf == Machine!LineAt(pc)

LEMMA PlaceIs ==
  ASSUME TypeOK
  PROVE  /\ Place \in Nat /\ Place < Imem!IndexMod
         /\ ((pc - ResetPC) \div PcIncr) % Imem!IndexMod = Place
         /\ Imem!PlainIndex(pc \div Imem!Pow2Ceil(PcIncr)) = Place
         /\ LineOf = IF Place + 1 <= Len(source) THEN source[Place + 1] ELSE <<>>
<1>1. pc \in Nat /\ ResetPC \in Nat /\ PcIncr \in Nat \ {0} /\ ImemSize \in Nat \ {0}
  BY CoreAssumption, Widths DEF TypeOK
<1>2. /\ Imem!Pow2Ceil(PcIncr) = PcIncr /\ ResetPC % PcIncr = 0
      /\ Imem!IndexMod \in Nat /\ ImemSize <= Imem!IndexMod
      /\ Imem!ScaledOffset % Imem!IndexMod = 0
  BY ProgramAssumption
<1>. DEFINE m == Imem!IndexMod
<1>3. m \in Nat \ {0}
  <2>. HIDE DEF m
  <2>1. m \in Nat /\ ImemSize <= m
    BY <1>2 DEF m
  <2>. QED
    BY <1>1, <2>1
<1>4. IndexOf(ResetPC, PcIncr, m) = 0
  BY <1>2 DEF Imem!ScaledOffset, IndexOf
<1>5. Imem!PlainIndex(pc \div Imem!Pow2Ceil(PcIncr)) = Place
  BY <1>2 DEF Imem!PlainIndex, Place
<1>6. Place = (pc \div PcIncr) % m
  BY DEF Place
<1>7. LineOf = IF (((pc - ResetPC) \div PcIncr) % m) + 1 <= Len(source)
               THEN source[(((pc - ResetPC) \div PcIncr) % m) + 1] ELSE <<>>
  BY DEF LineOf, Machine!LineAt
<1>. HIDE DEF m
<1>8. ((pc - ResetPC) \div PcIncr) % m = Place
  <2>1. IndexOf(pc - ResetPC, PcIncr, m) = IndexOf(pc, PcIncr, m)
    BY <1>1, <1>2, <1>3, <1>4, IndexIs
  <2>. QED
    BY <1>6, <2>1 DEF IndexOf
<1>9. Place \in Nat /\ Place < m
  <2>1. pc \div PcIncr \in Nat
    BY <1>1, DivMod
  <2>. QED
    BY <1>3, <1>6, <2>1, DivMod
<1>. QED
  BY <1>5, <1>7, <1>8, <1>9 DEF m

(* What the lanes are given.                                               *)
Holds == TypeOK /\ source \in Sources /\ imem = Image(source)

LEMMA Fetched ==
  ASSUME Holds, fetch_en, NEW atoms \in [Lanes -> GarbageAtoms]
  PROVE  /\ LineOf \in Seq(Insns) /\ Len(LineOf) <= Len(LaneNames)
         /\ \A i \in Lanes :
              Fetch(atoms)[i] = IF i <= Len(LineOf) THEN encode(LineOf[i]) ELSE NOP
<1>1. TypeOK /\ imem = Image(source)
  BY DEF Holds
<1>2. Fits(source)
  BY ProgramAssumption DEF Holds
<1>3. /\ source \in Seq(Seq(Insns)) /\ Len(source) \in Nat /\ Len(source) <= ImemSize
      /\ \A k \in 1..Len(source) : Len(source[k]) <= Len(LaneNames)
  BY <1>2, LaneLast DEF Fits
<1>4. /\ Place \in Nat /\ Place < Imem!IndexMod
      /\ Imem!PlainIndex(pc \div Imem!Pow2Ceil(PcIncr)) = Place
      /\ LineOf = IF Place + 1 <= Len(source) THEN source[Place + 1] ELSE <<>>
  BY <1>1, PlaceIs
<1>5. ImemSize \in Nat /\ Len(LaneNames) \in Nat /\ Lanes = 1..Len(LaneNames)
  BY CoreAssumption DEF Lanes
<1>6. Fetch(atoms) = IF Place \in Imem!Cells THEN imem[Place] ELSE atoms
  BY <1>4 DEF Fetch, Imem!ReadNonmasked
<1>7. CASE Place + 1 <= Len(source)
  <2>1. Place + 1 \in 1..Len(source) /\ Place \in Imem!Cells /\ Place < Len(source)
    BY <1>3, <1>4, <1>5, <1>7 DEF Imem!Cells
  <2>2. LineOf = source[Place + 1]
    BY <1>4, <1>7
  <2>3. LineOf \in Seq(Insns) /\ Len(LineOf) <= Len(LaneNames)
    BY <1>3, <2>1, <2>2
  <2>4. Fetch(atoms) = EncodeBundle(LineOf)
    BY <1>1, <1>6, <2>1, <2>2 DEF Image
  <2>. QED
    BY <1>5, <2>3, <2>4, LaneLast DEF EncodeBundle
<1>8. CASE ~ (Place + 1 <= Len(source))
  <2>1. LineOf = <<>> /\ ~ (Place < Len(source))
    BY <1>3, <1>4, <1>8
  <2>2. \A i \in Lanes : Fetch(atoms)[i] = NOP
    <3>1. CASE Place \in Imem!Cells
      BY <1>1, <1>6, <2>1, <3>1 DEF Image, NopBundle
    <3>2. CASE Place \notin Imem!Cells
      <4>1. Imem!IndexMod # ImemSize
        BY <1>4, <1>5, <3>2 DEF Imem!Cells
      <4>2. GarbageAtoms = {NOP}
        BY <4>1, ProgramAssumption
      <4>. QED
        BY <1>6, <3>2, <4>2
    <3>. QED
      BY <3>1, <3>2
  <2>3. \A i \in Lanes : ~ (i <= Len(LineOf))
    BY <1>5, <2>1
  <2>. QED
    BY <1>5, <2>1, <2>2, <2>3
<1>. QED
  BY <1>7, <1>8

-----------------------------------------------------------------------------
(* An edge with fetch enabled runs the line.                               *)

LEMMA LineWellFormed ==
  ASSUME Holds, AllWellFormed
  PROVE  Machine!WellFormed(LineOf, Len(LaneNames))
<1>1. TypeOK /\ source \in Sources /\ Fits(source)
  BY ProgramAssumption DEF Holds
<1>2. /\ Place \in Nat
      /\ LineOf = IF Place + 1 <= Len(source) THEN source[Place + 1] ELSE <<>>
  BY <1>1, PlaceIs
<1>3. Len(source) \in Nat
  BY <1>1 DEF Fits
<1>4. CASE Place + 1 <= Len(source)
  <2>1. Place + 1 \in 1..Len(source)
    BY <1>2, <1>3, <1>4
  <2>. QED
    BY <1>1, <1>2, <1>4, <2>1, LaneLast DEF AllWellFormed
<1>5. CASE ~ (Place + 1 <= Len(source))
  BY <1>2, <1>5 DEF Machine!WellFormed
<1>. QED
  BY <1>4, <1>5

(* The parts of a well-formed line.                                        *)
LEMMA LineParts ==
  ASSUME Holds, AllWellFormed, fetch_en
  PROVE  /\ LineOf \in Seq(Insns) /\ Len(LineOf) \in Nat /\ Len(LineOf) <= Len(LaneNames)
         /\ \A i \in 1..Len(LineOf) :
              /\ i \in Lanes /\ LineOf[i] \in Insns
              /\ Machine!WellFormedInsn(LineOf[i], i, Len(LaneNames))
              /\ Shape(encode(LineOf[i]), LineOf[i])
         /\ \A i, j \in 1..Len(LineOf) :
              i # j /\ Machine!Dest(LineOf[i]) # 0 =>
                Machine!Dest(LineOf[i]) # Machine!Dest(LineOf[j])
<1>1. PICK atoms \in [Lanes -> GarbageAtoms] : TRUE
  <2>1. PICK g \in GarbageAtoms : TRUE
    BY CoreAssumption
  <2>2. [i \in Lanes |-> g] \in [Lanes -> GarbageAtoms]
    OBVIOUS
  <2>. QED
    BY <2>2
<1>2. LineOf \in Seq(Insns) /\ Len(LineOf) <= Len(LaneNames)
  BY <1>1, Fetched
<1>3. Machine!WellFormed(LineOf, Len(LaneNames))
  BY LineWellFormed
<1>4. Len(LineOf) \in Nat /\ Len(LaneNames) \in Nat
  BY <1>2, LaneLast
<1>5. \A i \in 1..Len(LineOf) :
        /\ i \in Lanes /\ LineOf[i] \in Insns
        /\ Machine!WellFormedInsn(LineOf[i], i, Len(LaneNames))
  BY <1>2, <1>3, <1>4 DEF Machine!WellFormed, Lanes
<1>6. \A i \in 1..Len(LineOf) : Shape(encode(LineOf[i]), LineOf[i])
  BY <1>5, Encoded
<1>. QED
  BY <1>2, <1>3, <1>4, <1>5, <1>6 DEF Machine!WellFormed

(* A port writes a register just when its instruction has it for its       *)
(* destination.                                                            *)
WritesAs(i, r, p) ==
  /\ p.en /\ p.addr = r <=> i \in 1..Len(LineOf) /\ Machine!Dest(LineOf[i]) = r
  /\ p.en /\ p.addr = r => p.data = Machine!Value(IsaRegs, LineOf[i])

LEMMA PortsAre ==
  ASSUME Holds, AllWellFormed, fetch_en, NEW atoms \in [Lanes -> GarbageAtoms],
         NEW response, NEW i \in Lanes, NEW r \in Regs
  PROVE  WritesAs(i, r, rfWritePort(i, Fetch(atoms)[i], response))
<1>. DEFINE p == rfWritePort(i, Fetch(atoms)[i], response)
<1>0. p = rfWritePort(i, Fetch(atoms)[i], response)
  OBVIOUS
<1>. SUFFICES WritesAs(i, r, p)
  OBVIOUS
<1>. HIDE DEF p
<1>1. TypeOK /\ r # 0 /\ i \in Nat /\ i >= 1
  BY CoreAssumption DEF Holds, Regs, Lanes
<1>2. Fetch(atoms)[i] = IF i <= Len(LineOf) THEN encode(LineOf[i]) ELSE NOP
  BY Fetched
<1>3. Len(LineOf) \in Nat
  BY LineParts
<1>4. CASE i <= Len(LineOf)
  <2>. DEFINE insn == LineOf[i]  a == encode(LineOf[i])
  <2>1. i \in 1..Len(LineOf)
    BY <1>1, <1>3, <1>4
  <2>2. /\ insn \in Insns /\ Machine!WellFormedInsn(insn, i, Len(LaneNames))
        /\ Shape(a, insn)
    BY <2>1, LineParts
  <2>3. p = rfWritePort(i, a, response)
    BY <1>0, <1>2, <1>4
  <2>. HIDE DEF insn, a
  <2>4. /\ Machine!Dest(insn) # 0 =>
             p = [en |-> TRUE, addr |-> Machine!Dest(insn),
                  data |-> Machine!Value(IsaRegs, insn)]
        /\ Machine!Dest(insn) = 0 => ~ p.en \/ p.addr = 0
    BY <1>1, <2>2, <2>3, PortIs
  <2>5. /\ p.en /\ p.addr = r <=> Machine!Dest(insn) = r
        /\ p.en /\ p.addr = r => p.data = Machine!Value(IsaRegs, insn)
    BY <1>1, <2>4
  <2>. QED
    BY <2>1, <2>5, Zenon DEF insn, WritesAs
<1>5. CASE ~ (i <= Len(LineOf))
  <2>1. ~ p.en
    BY <1>0, <1>2, <1>5, NopRow DEF rfWritePort, DefaultRow, Row
  <2>2. i \notin 1..Len(LineOf)
    BY <1>3, <1>5
  <2>. QED
    BY <2>1, <2>2, Zenon DEF WritesAs
<1>. QED
  BY <1>4, <1>5

LEMMA RegsAre ==
  ASSUME Holds, AllWellFormed, fetch_en, NEW atoms \in [Lanes -> GarbageAtoms],
         NEW response,
         RfEdge([i \in Lanes |-> rfWritePort(i, Fetch(atoms)[i], response)])
  PROVE  IsaRegs' = Machine!RegsAfter(LineOf)
<1>. DEFINE ports == [i \in Lanes |-> rfWritePort(i, Fetch(atoms)[i], response)]
            L == LineOf
            n == Len(LineOf)
            Writes(i, r) == i \in 1..n /\ Machine!Dest(L[i]) = r
            written == {ports[i].addr : i \in {j \in Lanes : ports[j].en}} \ {0}
<1>1. ASSUME NEW i \in Lanes, NEW r \in Regs
      PROVE  /\ ports[i].en /\ ports[i].addr = r <=> Writes(i, r)
             /\ Writes(i, r) => ports[i].data = Machine!Value(IsaRegs, L[i])
  <2>. DEFINE p == rfWritePort(i, Fetch(atoms)[i], response)
  <2>1. WritesAs(i, r, p)
    BY PortsAre
  <2>2. ports[i] = p
    OBVIOUS
  <2>. HIDE DEF p, ports
  <2>3. p.en /\ p.addr = r <=> Writes(i, r)
    BY <2>1, Zenon DEF WritesAs
  <2>4. Writes(i, r) => p.data = Machine!Value(IsaRegs, L[i])
    BY <2>1, <2>3, Zenon DEF WritesAs
  <2>. QED
    BY <2>2, <2>3, <2>4, Zenon
<1>2. \A i \in 1..n : i \in Lanes
  BY LineParts
<1>3. \A i, j \in 1..n : i # j /\ Machine!Dest(L[i]) # 0 =>
                           Machine!Dest(L[i]) # Machine!Dest(L[j])
  BY LineParts
<1>4. PICK winner \in [written -> Lanes] :
        /\ \A r \in written : winner[r] \in {i \in Lanes : ports[i].en /\ ports[i].addr = r}
        /\ rf' = [r \in Regs |-> IF r \in written THEN ports[winner[r]].data ELSE rf[r]]
  BY DEF RfEdge
<1>5. ASSUME NEW r \in Regs
      PROVE  rf'[r] = IF \E i \in 1..n : Machine!Dest(L[i]) = r
                      THEN Machine!Value(IsaRegs, L[CHOOSE i \in 1..n : Machine!Dest(L[i]) = r])
                      ELSE rf[r]
  <2>1. r # 0
    BY DEF Regs
  <2>2. CASE \E i \in 1..n : Machine!Dest(L[i]) = r
    <3>. DEFINE c == CHOOSE i \in 1..n : Machine!Dest(L[i]) = r
    <3>1. c \in 1..n /\ Machine!Dest(L[c]) = r
      BY <2>2
    <3>. HIDE DEF c
    <3>2. ports[c].en /\ ports[c].addr = r /\ c \in Lanes
      BY <1>1, <1>2, <3>1
    <3>3. r \in written
      BY <2>1, <3>2
    <3>4. winner[r] \in Lanes /\ ports[winner[r]].en /\ ports[winner[r]].addr = r
      BY <1>4, <3>3
    <3>5. Writes(winner[r], r) /\ ports[winner[r]].data = Machine!Value(IsaRegs, L[winner[r]])
      BY <1>1, <3>4
    <3>6. winner[r] = c
      BY <1>3, <2>1, <3>1, <3>5
    <3>7. rf'[r] = ports[winner[r]].data
      BY <1>4, <3>3
    <3>. HIDE DEF ports, written
    <3>. QED
      BY <2>2, <3>5, <3>6, <3>7 DEF c
  <2>3. CASE ~ \E i \in 1..n : Machine!Dest(L[i]) = r
    <3>1. r \notin written
      BY <1>1, <2>3
    <3>. QED
      BY <1>4, <2>3, <3>1
  <2>. QED
    BY <2>2, <2>3
<1>. HIDE DEF ports, written
<1>6. IsaRegs' = [r \in 0..15 |-> IF r = 0 THEN 0 ELSE rf'[r]]
  BY DEF IsaRegs
<1>7. Machine!RegsAfter(L)
        = [r \in 0..15 |->
             IF r # 0 /\ \E i \in 1..n : Machine!Dest(L[i]) = r
             THEN Machine!Value(IsaRegs, L[CHOOSE i \in 1..n : Machine!Dest(L[i]) = r])
             ELSE IsaRegs[r]]
  BY DEF Machine!RegsAfter, IsaRegs
<1>8. ASSUME NEW r \in 0..15
      PROVE  (IF r = 0 THEN 0 ELSE rf'[r])
               = IF r # 0 /\ \E i \in 1..n : Machine!Dest(L[i]) = r
                 THEN Machine!Value(IsaRegs, L[CHOOSE i \in 1..n : Machine!Dest(L[i]) = r])
                 ELSE IsaRegs[r]
  <2>1. CASE r = 0
    BY <2>1 DEF IsaRegs
  <2>2. CASE r # 0
    <3>1. r \in Regs /\ IsaRegs[r] = rf[r]
      BY <2>2 DEF Regs, IsaRegs
    <3>. QED
      BY <1>5, <2>2, <3>1
  <2>. QED
    BY <2>1, <2>2
<1>. QED
  BY <1>6, <1>7, <1>8

LEMMA MemIs ==
  ASSUME Holds, AllWellFormed, fetch_en, NEW atoms \in [Lanes -> GarbageAtoms],
         DmemEdge(Fetch(atoms))
  PROVE  dmem' = Machine!MemAfter(LineOf)
<1>. DEFINE L == LineOf
            n == Len(LineOf)
            last == Len(LaneNames)
            a == Fetch(atoms)[last]
            Hit(i, m) == L[i].op = "sw" /\ Machine!MemIndex(IsaRegs, L[i]) = m
            first == CHOOSE i \in 1..n : L[i].op = "sw"
<1>1. last \in Lanes /\ last \in Nat /\ PortAtom(Fetch(atoms)) = a
  BY LaneLast DEF PortAtom
<1>2. TypeOK /\ dmem \in [Dmem!Cells -> Word] /\ Dmem!Cells = 0..(DmemSize - 1)
  BY DEF Holds, TypeOK, Dmem!Cells
<1>3. n \in Nat /\ n <= last
  BY LineParts
<1>4. \A i \in 1..n : L[i].op = "sw" => i = last
  BY LineParts DEF Machine!WellFormedInsn
<1>5. Machine!MemAfter(L)
        = [m \in 0..(DmemSize - 1) |-> IF \E i \in 1..n : Hit(i, m)
                                      THEN IsaRegs[L[first].rs2] ELSE dmem[m]]
  BY DEF Machine!MemAfter, IsaRegs
<1>6. a = IF last <= n THEN encode(L[last]) ELSE NOP
  BY <1>1, Fetched
<1>7. CASE last \in 1..n /\ L[last].op = "sw"
  <2>. DEFINE insn == L[last]
  <2>1. insn \in Insns /\ Machine!WellFormedInsn(insn, last, last) /\ Shape(a, insn)
    BY <1>6, <1>7, LineParts
  <2>2. /\ Decode(a).mem = "MEM_STORE" /\ rs2(a) = IsaRegs[insn.rs2]
        /\ Dmem!PlainIndex(alu(a) \div 4) = Machine!MemIndex(IsaRegs, insn)
    <3>1. insn.op = "sw"
      BY <1>7
    <3>. HIDE DEF insn, a, last
    <3>. QED
      BY <1>2, <2>1, <3>1, StoreIs
  <2>3. first = last
    BY <1>4, <1>7
  <2>4. \A m : (\E i \in 1..n : Hit(i, m)) <=> Machine!MemIndex(IsaRegs, insn) = m
    BY <1>4, <1>7
  <2>. HIDE DEF a
  <2>5. dmem' = [c \in Dmem!Cells |-> IF c = Machine!MemIndex(IsaRegs, insn)
                                     THEN IsaRegs[insn.rs2] ELSE dmem[c]]
    BY <1>1, <2>2 DEF DmemEdge, Stores, MemAddr, Dmem!WriteMasked, Dmem!Put
  <2>. HIDE DEF first, Hit, last, L, n
  <2>. QED
    BY <1>2, <1>5, <2>3, <2>4, <2>5 DEF L
<1>8. CASE ~ (last \in 1..n /\ L[last].op = "sw")
  <2>1. ~ Stores(Fetch(atoms))
    <3>1. CASE last <= n
      <4>. DEFINE insn == L[last]
      <4>1. last \in 1..n
        BY <1>1, <1>3, <3>1, LaneLast
      <4>2. insn \in Insns /\ Machine!WellFormedInsn(insn, last, last) /\ Shape(a, insn)
        BY <1>6, <4>1, LineParts
      <4>3. insn.op # "sw"
        BY <1>8, <4>1
      <4>. HIDE DEF insn, a, last
      <4>4. Decode(a).mem # "MEM_STORE"
        BY <1>2, <4>2, <4>3, StoreIs
      <4>. QED
        BY <1>1, <4>4 DEF Stores
    <3>2. CASE ~ (last <= n)
      BY <1>1, <1>6, <3>2, NopRow DEF Stores, DefaultRow, Row
    <3>. QED
      BY <3>1, <3>2
  <2>2. dmem' = dmem
    BY <2>1 DEF DmemEdge
  <2>3. \A m : ~ \E i \in 1..n : Hit(i, m)
    BY <1>4, <1>8
  <2>. HIDE DEF first, Hit, last, L, n
  <2>. QED
    BY <1>2, <1>5, <2>2, <2>3 DEF L
<1>. QED
  BY <1>7, <1>8

LEMMA AddressIs ==
  ASSUME Holds, AllWellFormed, fetch_en, NEW atoms \in [Lanes -> GarbageAtoms],
         PcEdge(Fetch(atoms))
  PROVE  pc' = IF reset THEN ResetPC ELSE Machine!NextAddress(LineOf)
<1>. DEFINE a == Fetch(atoms)[1]
<1>1. reset \in BOOLEAN /\ TypeOK
  BY DEF Holds, TypeOK
<1>2. ~ reset => pc' = pc_next(1, a)
  BY <1>1, LaneOne DEF PcEdge
<1>3. a = IF 1 <= Len(LineOf) THEN encode(LineOf[1]) ELSE NOP
  BY LaneOne, Fetched
<1>4. LineOf \in Seq(Insns) /\ Len(LineOf) \in Nat
  BY LineParts
<1>. HIDE DEF a
<1>5. pc_next(1, a) = Machine!NextAddress(LineOf)
  <2>1. CASE 1 <= Len(LineOf)
    <3>. DEFINE insn == LineOf[1]
    <3>1. 1 \in 1..Len(LineOf) /\ LineOf # <<>> /\ a = encode(insn)
      BY <1>3, <1>4, <2>1
    <3>2. /\ insn \in Insns /\ Machine!WellFormedInsn(insn, 1, Len(LaneNames))
          /\ Shape(a, insn)
      BY <3>1, LineParts
    <3>3. Machine!NextAddress(LineOf) = Machine!TargetOf(IsaRegs, insn, pc)
      BY <3>1 DEF Machine!NextAddress, IsaRegs
    <3>. HIDE DEF insn
    <3>. QED
      BY <1>1, <3>2, <3>3, KnownOp, TargetIs
  <2>2. CASE ~ (1 <= Len(LineOf))
    <3>1. LineOf = <<>> /\ a = NOP
      BY <1>3, <1>4, <2>2
    <3>2. Machine!NextAddress(LineOf) = (pc + PcIncr) % PcMod
      BY <3>1 DEF Machine!NextAddress
    <3>3. pc_next(1, NOP) = (pc + PcIncr) % PcMod
      BY LaneOne, NopRow DEF pc_next, BranchOut, DefaultRow, Row, pc_plusX
    <3>. QED
      BY <3>1, <3>2, <3>3
  <2>. QED
    BY <2>1, <2>2
<1>. QED
  BY <1>1, <1>2, <1>5 DEF PcEdge

-----------------------------------------------------------------------------
(* A step of the core is a step of the machine, or none of it.             *)

LEMMA RunningEdge ==
  ASSUME Holds, AllWellFormed, fetch_en, CoreEdge
  PROVE  /\ IsaRegs' = Machine!RegsAfter(LineOf)
         /\ dmem' = Machine!MemAfter(LineOf)
         /\ pc' = IF reset THEN ResetPC ELSE Machine!NextAddress(LineOf)
<1>1. PICK atoms \in [Lanes -> GarbageAtoms], word \in GarbageWords :
        /\ PcEdge(Fetch(atoms))
        /\ RfEdge([i \in Lanes |-> rfWritePort(i, Fetch(atoms)[i],
                                               Response(Fetch(atoms), word))])
        /\ DmemEdge(Fetch(atoms))
  BY DEF CoreEdge
<1>2. IsaRegs' = Machine!RegsAfter(LineOf)
  BY <1>1, RegsAre
<1>3. dmem' = Machine!MemAfter(LineOf)
  BY <1>1, MemIs
<1>4. pc' = IF reset THEN ResetPC ELSE Machine!NextAddress(LineOf)
  BY <1>1, AddressIs
<1>. QED
  BY <1>2, <1>3, <1>4

LEMMA StepRefines ==
  ASSUME Holds, AllWellFormed, ProgramNext
  PROVE  Machine!Next \/ UNCHANGED Machine!vars
<1>1. UNCHANGED source /\ (Clock \/ Drive)
  BY DEF ProgramNext, Next
<1>2. ASSUME Drive PROVE UNCHANGED Machine!vars
  BY <1>1, <1>2 DEF Drive, Machine!vars
<1>3. ASSUME Clock, ~ fetch_en PROVE Machine!Next \/ UNCHANGED Machine!vars
  <2>1. /\ rf' = rf /\ dmem' = dmem
        /\ pc' = IF reset THEN ResetPC ELSE pc
    BY <1>3, IdleEdge DEF Clock, Holds
  <2>2. CASE reset
    <3>1. Machine!ResetIdle
      BY <1>1, <2>1, <2>2 DEF Machine!ResetIdle
    <3>. QED
      BY <3>1 DEF Machine!Next
  <2>3. CASE ~ reset
    BY <1>1, <2>1, <2>3 DEF Machine!vars
  <2>. QED
    BY <2>2, <2>3
<1>4. ASSUME Clock, fetch_en PROVE Machine!Next
  <2>1. /\ IsaRegs' = Machine!RegsAfter(LineOf)
        /\ dmem' = Machine!MemAfter(LineOf)
        /\ pc' = IF reset THEN ResetPC ELSE Machine!NextAddress(LineOf)
    BY <1>4, RunningEdge DEF Clock
  <2>2. Machine!RunLine
    BY <2>1 DEF Machine!RunLine, LineOf, IsaRegs
  <2>3. CASE reset
    <3>1. Machine!ResetRunning
      BY <1>1, <2>1, <2>2, <2>3 DEF Machine!ResetRunning
    <3>. QED
      BY <3>1 DEF Machine!Next
  <2>4. CASE ~ reset
    <3>1. Machine!Step
      BY <1>1, <2>1, <2>2, <2>4 DEF Machine!Step, LineOf
    <3>. QED
      BY <3>1 DEF Machine!Next
  <2>. QED
    BY <2>3, <2>4
<1>. QED
  BY <1>1, <1>2, <1>3, <1>4

(* The core's invariant.                                                   *)
LEMMA ProgramHolds == ProgramSpec => []Holds
<1>1. ProgramSpec => Spec
  <2>1. ProgramInit => Init
    BY DEF ProgramInit
  <2>2. [ProgramNext]_programVars => [Next]_vars
    BY DEF ProgramNext, programVars, vars
  <2>. QED
    BY <2>1, <2>2, PTL DEF ProgramSpec, Spec
<1>. DEFINE Loaded == source \in Sources /\ imem = Image(source)
<1>2. ProgramInit => Loaded
  BY DEF ProgramInit
<1>3. Loaded /\ [ProgramNext]_programVars => Loaded'
  BY DEF ProgramNext, programVars, Next, Clock, Drive, Image
<1>4. TypeOK /\ Loaded => Holds
  BY DEF Holds
<1>. HIDE DEF Loaded
<1>. QED
  BY <1>1, <1>2, <1>3, <1>4, CoreTypeCorrect, PTL DEF ProgramSpec

(* The hardware, running what the assembler makes of the programs, is the  *)
(* machine the programmer was promised (RunsIsa), if all lines of the      *)
(* programs are well-formed: whatever the program, the lanes and memory    *)
(* sizes, the contents of registers and memory, and what fetch_en and      *)
(* reset do.  Encoding, decoding, the ALU, the register-file and memory    *)
(* ports and the next pc (asm.py:22-29, decodetree.py str_encode,          *)
(* Decoder.scala:31-55, Lane.scala:78-126, PykeCore.scala:51-67) are what  *)
(* a step amounts to.                                                      *)
THEOREM ProgramRuns ==
  ASSUME AllWellFormed
  PROVE  ProgramSpec => RunsIsa
<1>1. ProgramInit => Machine!Init
  BY DEF Machine!Init
<1>2. Holds /\ [ProgramNext]_programVars => [Machine!Next]_(Machine!vars)
  <2>1. UNCHANGED programVars => UNCHANGED Machine!vars
    BY DEF programVars, Machine!vars
  <2>. QED
    BY <2>1, StepRefines
<1>. QED
  BY <1>1, <1>2, ProgramHolds, PTL DEF ProgramSpec, RunsIsa, Machine!Spec

-----------------------------------------------------------------------------
(* Instructions that do not take what others of their line give, run one   *)
(* after the other.                                                        *)

(* What has been reached when the first k of an order have run.            *)
Partway(order, k) ==
  [regs |-> [r \in 0..15 |->
     IF r # 0 /\ \E p \in 1..k : Machine!Dest(LineOf[order[p]]) = r
     THEN Machine!Value(IsaRegs, LineOf[CHOOSE i \in 1..Len(LineOf) :
                                          Machine!Dest(LineOf[i]) = r])
     ELSE IsaRegs[r]],
   mem |-> [m \in 0..(DmemSize - 1) |->
     IF \E p \in 1..k : /\ LineOf[order[p]].op = "sw"
                        /\ Machine!MemIndex(IsaRegs, LineOf[order[p]]) = m
     THEN IsaRegs[LineOf[CHOOSE i \in 1..Len(LineOf) : LineOf[i].op = "sw"].rs2]
     ELSE dmem[m]]]

LEMMA DestRange ==
  ASSUME NEW insn \in Insns
  PROVE  Machine!Dest(insn) \in 0..15
<1>1. insn.rd \in 0..15 /\ insn.imm \in Int
  BY DEF Insns
<1>2. insn.imm % 16 \in 0..15
  BY <1>1
<1>3. Machine!Dest(insn) \in {insn.rd, insn.imm % 16, 0}
  BY DEF Machine!Dest
<1>. QED
  BY <1>1, <1>2, <1>3

LEMMA OneMore ==
  ASSUME Holds, AllWellFormed, fetch_en, Machine!Independent(LineOf),
         NEW order \in Bijection(1..Len(LineOf), 1..Len(LineOf)),
         NEW k \in 1..Len(LineOf)
  PROVE  Partway(order, k) = Machine!RunOne(LineOf, Partway(order, k - 1), order[k])
<1>. DEFINE L == LineOf
            n == Len(LineOf)
            j == order[k]
            insn == L[j]
            s == Partway(order, k - 1)
            giver(r) == CHOOSE i \in 1..n : Machine!Dest(L[i]) = r
            storing == CHOOSE i \in 1..n : L[i].op = "sw"
            Given(r, m) == \E p \in 1..m : Machine!Dest(L[order[p]]) = r
            Hit(a, m) == \E p \in 1..m : /\ L[order[p]].op = "sw"
                                         /\ Machine!MemIndex(IsaRegs, L[order[p]]) = a
<1>1. /\ n \in Nat /\ j \in 1..n /\ insn \in Insns
      /\ \A p \in 1..(k - 1) : p \in 1..n /\ order[p] \in 1..n /\ order[p] # j
      /\ \A p : p \in 1..k <=> p \in 1..(k - 1) \/ p = k
  <2>1. n \in Nat /\ \A i \in 1..n : L[i] \in Insns
    BY LineParts
  <2>2. order \in [1..n -> 1..n] /\ \A a, b \in 1..n : order[a] = order[b] => a = b
    BY DEF Bijection, Injection, IsInjective
  <2>. QED
    BY <2>1, <2>2
<1>2. \A i \in 1..n : i # j /\ Machine!Dest(L[i]) # 0 =>
        Machine!Dest(L[i]) # Machine!Dest(L[j]) /\ Machine!Dest(L[i]) \notin Machine!Reads(L[j])
  BY <1>1, LineParts DEF Machine!Independent
<1>3. \A i \in 1..n : L[i].op = "sw" => i = Len(LaneNames)
  BY LineParts DEF Machine!WellFormedInsn
<1>. DEFINE After(m) ==
              [regs |-> [r \in 0..15 |-> IF r # 0 /\ Given(r, m)
                                         THEN Machine!Value(IsaRegs, L[giver(r)])
                                         ELSE IsaRegs[r]],
               mem |-> [a \in 0..(DmemSize - 1) |-> IF Hit(a, m)
                                                    THEN IsaRegs[L[storing].rs2]
                                                    ELSE dmem[a]]]
<1>4. Partway(order, k) = After(k) /\ s = After(k - 1)
  BY Zenon DEF Partway
<1>5. \A r : Given(r, k) <=> Given(r, k - 1) \/ Machine!Dest(insn) = r
  BY <1>1
<1>6. \A a : Hit(a, k) <=> \/ Hit(a, k - 1)
                           \/ insn.op = "sw" /\ Machine!MemIndex(IsaRegs, insn) = a
  BY <1>1
<1>7. ASSUME NEW x \in Machine!Reads(insn)
      PROVE  s.regs[x] = IsaRegs[x]
  <2>1. x \in 0..15
    BY <1>1 DEF Machine!Reads, Insns
  <2>2. ~ (x # 0 /\ Given(x, k - 1))
    BY <1>1, <1>2
  <2>. HIDE DEF Given, Hit, giver, storing
  <2>. QED
    BY <1>4, <2>1, <2>2
<1>. HIDE DEF s
<1>8. /\ s.regs[insn.rs1] = IsaRegs[insn.rs1]
      /\ insn.op \notin Machine!ImmOps => s.regs[insn.rs2] = IsaRegs[insn.rs2]
  <2>1. /\ insn.rs1 \in Machine!Reads(insn)
        /\ insn.op \notin Machine!ImmOps => insn.rs2 \in Machine!Reads(insn)
    BY DEF Machine!Reads
  <2>. QED
    BY <1>7, <2>1
<1>. HIDE DEF insn
<1>9. ASSUME Machine!Dest(insn) # 0
      PROVE  Machine!Value(s.regs, insn) = Machine!Value(IsaRegs, insn)
  <2>1. insn.op \in Machine!RegOps \union Machine!ImmOps \union {"jr"}
    BY <1>9 DEF Machine!Dest
  <2>. QED
    BY <1>8, <2>1, SMT DEF Machine!Value, Machine!ImmOps, Machine!RegOps
<1>10. Machine!MemIndex(s.regs, insn) = Machine!MemIndex(IsaRegs, insn)
  BY <1>8 DEF Machine!MemIndex
<1>11. Machine!Dest(insn) # 0 => giver(Machine!Dest(insn)) = j
  <2>1. \A i \in 1..n : Machine!Dest(insn) # 0 /\ Machine!Dest(L[i]) = Machine!Dest(insn) => i = j
    BY <1>2 DEF insn
  <2>. QED
    BY <1>1, <2>1 DEF insn
<1>12. insn.op = "sw" => storing = j /\ insn.op \notin Machine!ImmOps
  BY <1>1, <1>3 DEF insn, Machine!ImmOps
<1>13. insn = L[j]
  BY DEF insn
<1>14. Machine!Dest(insn) \in 0..15
  BY <1>1, DestRange
<1>15. /\ s.regs = [r \in 0..15 |-> IF r # 0 /\ Given(r, k - 1)
                                    THEN Machine!Value(IsaRegs, L[giver(r)]) ELSE IsaRegs[r]]
       /\ s.mem = [a \in 0..(DmemSize - 1) |-> IF Hit(a, k - 1)
                                               THEN IsaRegs[L[storing].rs2] ELSE dmem[a]]
  <2>. HIDE DEF Given, Hit, giver, storing
  <2>. QED
    BY <1>4
<1>. HIDE DEF Given, Hit, giver, storing, L, n, j
<1>16. (IF Machine!Dest(insn) = 0 THEN s.regs
        ELSE [s.regs EXCEPT ![Machine!Dest(insn)] = Machine!Value(s.regs, insn)])
         = [r \in 0..15 |-> IF r # 0 /\ Given(r, k)
                            THEN Machine!Value(IsaRegs, L[giver(r)]) ELSE IsaRegs[r]]
  <2>1. CASE Machine!Dest(insn) = 0
    BY <1>5, <1>15, <2>1
  <2>2. CASE Machine!Dest(insn) # 0
    BY <1>5, <1>9, <1>11, <1>13, <1>14, <1>15, <2>2
  <2>. QED
    BY <2>1, <2>2
<1>17. (IF insn.op = "sw" /\ Machine!MemIndex(s.regs, insn) < DmemSize
        THEN [s.mem EXCEPT ![Machine!MemIndex(s.regs, insn)] = s.regs[insn.rs2]]
        ELSE s.mem)
         = [a \in 0..(DmemSize - 1) |-> IF Hit(a, k)
                                        THEN IsaRegs[L[storing].rs2] ELSE dmem[a]]
  <2>1. CASE insn.op = "sw"
    <3>1. DmemSize \in Nat
      BY CoreAssumption
    <3>. DEFINE at == Machine!MemIndex(IsaRegs, insn)
                word == IsaRegs[insn.rs2]
    <3>2. \A a : Hit(a, k) <=> Hit(a, k - 1) \/ at = a
      BY <1>6, <2>1
    <3>3. L[storing].rs2 = insn.rs2 /\ s.regs[insn.rs2] = word
      BY <1>8, <1>12, <1>13, <2>1
    <3>4. /\ \A a : at = a <=> a = Machine!MemIndex(s.regs, insn)
          /\ Machine!MemIndex(s.regs, insn) = at
      BY <1>10
    <3>5. s.mem = [a \in 0..(DmemSize - 1) |-> IF Hit(a, k - 1) THEN word ELSE dmem[a]]
      BY <1>15, <3>3
    <3>. HIDE DEF at, word
    <3>6. CASE at < DmemSize
      <4>1. [s.mem EXCEPT ![at] = word]
              = [a \in 0..(DmemSize - 1) |-> IF Hit(a, k) THEN word ELSE dmem[a]]
        BY <3>2, <3>5
      <4>. QED
        BY <2>1, <3>3, <3>4, <3>6, <4>1 DEF word
    <3>7. CASE ~ (at < DmemSize)
      <4>1. \A a \in 0..(DmemSize - 1) : at # a
        BY <3>1, <3>7
      <4>2. s.mem = [a \in 0..(DmemSize - 1) |-> IF Hit(a, k) THEN word ELSE dmem[a]]
        BY <3>2, <3>5, <4>1
      <4>. QED
        BY <3>3, <3>4, <3>7, <4>2 DEF word
    <3>. QED
      BY <3>6, <3>7
  <2>2. CASE insn.op # "sw"
    BY <1>6, <1>15, <2>2
  <2>. QED
    BY <2>1, <2>2
<1>18. Machine!RunOne(L, s, j)
         = [regs |-> IF Machine!Dest(insn) = 0 THEN s.regs
                     ELSE [s.regs EXCEPT ![Machine!Dest(insn)] = Machine!Value(s.regs, insn)],
            mem |-> IF insn.op = "sw" /\ Machine!MemIndex(s.regs, insn) < DmemSize
                    THEN [s.mem EXCEPT ![Machine!MemIndex(s.regs, insn)] = s.regs[insn.rs2]]
                    ELSE s.mem]
  BY <1>13, Zenon DEF Machine!RunOne
<1>19. Partway(order, k) = Machine!RunOne(L, s, j)
  BY <1>4, <1>16, <1>17, <1>18, Zenon
<1>. QED
  BY <1>19 DEF L, j, s

(* All orders come to what the line does at once.                          *)
LEMMA InAnyOrder ==
  ASSUME Holds, AllWellFormed, fetch_en, Machine!Independent(LineOf),
         NEW order \in Bijection(1..Len(LineOf), 1..Len(LineOf))
  PROVE  Machine!RunInOrder(LineOf, order)
           = [regs |-> Machine!RegsAfter(LineOf), mem |-> Machine!MemAfter(LineOf)]
<1>. DEFINE L == LineOf
            n == Len(LineOf)
            start == [regs |-> IsaRegs, mem |-> dmem]
            Body(a) == [k \in 0..n |-> IF k = 0 THEN start
                                       ELSE Machine!RunOne(L, a[k - 1], order[k])]
            run == CHOOSE a : a = Body(a)
            g == [k \in 0..n |-> Partway(order, k)]
<1>1. n \in Nat
  BY LineParts
<1>2. Partway(order, 0) = start
  <2>1. 1..0 = {}
    OBVIOUS
  <2>2. IsaRegs = [r \in 0..15 |-> IsaRegs[r]]
    BY DEF IsaRegs
  <2>3. dmem = [m \in 0..(DmemSize - 1) |-> dmem[m]]
    BY DEF Holds, TypeOK, Dmem!Cells
  <2>. QED
    BY <2>1, <2>2, <2>3 DEF Partway
<1>3. g = Body(g)
  <2>1. ASSUME NEW k \in 0..n
        PROVE  g[k] = IF k = 0 THEN start ELSE Machine!RunOne(L, g[k - 1], order[k])
    <3>1. CASE k = 0
      BY <1>2, <3>1
    <3>2. CASE k # 0
      <4>1. k \in 1..n /\ k - 1 \in 0..n
        BY <1>1, <3>2
      <4>2. g[k] = Partway(order, k) /\ g[k - 1] = Partway(order, k - 1)
        BY <4>1
      <4>. HIDE DEF g
      <4>. QED
        BY <3>2, <4>1, <4>2, OneMore
    <3>. QED
      BY <3>1, <3>2
  <2>2. g = [k \in 0..n |-> g[k]]
    OBVIOUS
  <2>. HIDE DEF g
  <2>. QED
    BY <2>1, <2>2
<1>. HIDE DEF g
<1>4. run = Body(run)
  <2>. HIDE DEF Body
  <2>. QED
    BY <1>3, Zenon
<1>5. Machine!RunInOrder(L, order) = run[n]
  BY Zenon DEF Machine!RunInOrder, IsaRegs
<1>. HIDE DEF run
<1>6. \A k \in 0..n : run[k] = IF k = 0 THEN start ELSE Machine!RunOne(L, run[k - 1], order[k])
  BY <1>4
<1>7. \A k \in 0..n : g[k] = IF k = 0 THEN start ELSE Machine!RunOne(L, g[k - 1], order[k])
  BY <1>3
<1>. DEFINE S == {k \in 0..n : run[k] = g[k]}
<1>8. \A k \in 0..n : (\A i \in 0..(k - 1) : i \in S) => k \in S
  <2>1. ASSUME NEW k \in 0..n, \A i \in 0..(k - 1) : i \in S PROVE k \in S
    <3>1. CASE k = 0
      BY <1>6, <1>7, <3>1
    <3>2. CASE k # 0
      <4>1. k - 1 \in 0..(k - 1)
        BY <1>1, <3>2
      <4>2. run[k - 1] = g[k - 1]
        BY <2>1, <4>1
      <4>. QED
        BY <1>6, <1>7, <3>2, <4>2
    <3>. QED
      BY <3>1, <3>2
  <2>. QED
    BY <2>1
<1>. HIDE DEF S
<1>9. n \in S
  <2>. HIDE DEF n
  <2>1. 0..n \subseteq S
    BY <1>1, <1>8, UpTo, Zenon
  <2>. QED
    BY <1>1, <2>1
<1>10. Machine!RunInOrder(L, order) = Partway(order, n)
  BY <1>1, <1>5, <1>9 DEF S, g
<1>. DEFINE Given(r) == \E i \in 1..n : Machine!Dest(L[i]) = r
            Hit(m) == \E i \in 1..n : L[i].op = "sw" /\ Machine!MemIndex(IsaRegs, L[i]) = m
            GivenBy(r) == \E p \in 1..n : Machine!Dest(L[order[p]]) = r
            HitBy(m) == \E p \in 1..n : /\ L[order[p]].op = "sw"
                                        /\ Machine!MemIndex(IsaRegs, L[order[p]]) = m
            value(r) == Machine!Value(IsaRegs, L[CHOOSE i \in 1..n : Machine!Dest(L[i]) = r])
            word == IsaRegs[L[CHOOSE i \in 1..n : L[i].op = "sw"].rs2]
<1>11. /\ \A p \in 1..n : order[p] \in 1..n
       /\ \A i \in 1..n : \E p \in 1..n : order[p] = i
  BY DEF Bijection, Surjection
<1>12. (\A r : GivenBy(r) <=> Given(r)) /\ (\A m : HitBy(m) <=> Hit(m))
  BY <1>11
<1>13. Partway(order, n)
         = [regs |-> [r \in 0..15 |-> IF r # 0 /\ GivenBy(r) THEN value(r) ELSE IsaRegs[r]],
            mem |-> [m \in 0..(DmemSize - 1) |-> IF HitBy(m) THEN word ELSE dmem[m]]]
  BY Zenon DEF Partway
<1>14. Machine!RegsAfter(L)
         = [r \in 0..15 |-> IF r # 0 /\ Given(r) THEN value(r) ELSE IsaRegs[r]]
  BY DEF Machine!RegsAfter, IsaRegs
<1>15. Machine!MemAfter(L) = [m \in 0..(DmemSize - 1) |-> IF Hit(m) THEN word ELSE dmem[m]]
  BY DEF Machine!MemAfter, IsaRegs
<1>. HIDE DEF Given, GivenBy, Hit, HitBy, value, word
<1>16. /\ [r \in 0..15 |-> IF r # 0 /\ GivenBy(r) THEN value(r) ELSE IsaRegs[r]]
            = Machine!RegsAfter(L)
       /\ [m \in 0..(DmemSize - 1) |-> IF HitBy(m) THEN word ELSE dmem[m]]
            = Machine!MemAfter(L)
  BY <1>12, <1>14, <1>15
<1>. QED
  BY <1>10, <1>13, <1>16, Zenon

(* Independent instructions of a line may be run one after the other in    *)
(* any order (LanesSerialise): what the lanes do in one edge, reading all  *)
(* registers before any of them writes, through one register file and one  *)
(* memory port (PykeCore.scala:51-67), is what each of these orders does.  *)
THEOREM OrdersAgree ==
  ASSUME AllWellFormed
  PROVE  ProgramSpec => LanesSerialise
<1>. DEFINE Serialises ==
       LET insns == Machine!LineAt(pc) IN
       Clock /\ fetch_en /\ Machine!Independent(insns) =>
         \A order \in Orders[Len(insns)] :
           Machine!RunInOrder(insns, order)
             = [regs |-> [r \in 0..15 |-> IF r = 0 THEN 0 ELSE rf'[r]], mem |-> dmem']
<1>1. Holds => Serialises
  <2>. SUFFICES ASSUME Holds, Clock, fetch_en, Machine!Independent(LineOf),
                       NEW order \in Orders[Len(LineOf)]
                PROVE  Machine!RunInOrder(LineOf, order)
                         = [regs |-> [r \in 0..15 |-> IF r = 0 THEN 0 ELSE rf'[r]],
                            mem |-> dmem']
    BY DEF LineOf
  <2>1. Len(LineOf) \in 0..AtomsPerInsn
    BY LineParts, LaneLast, ProgramAssumption
  <2>2. order \in Bijection(1..Len(LineOf), 1..Len(LineOf))
    BY <2>1 DEF Orders
  <2>3. IsaRegs' = Machine!RegsAfter(LineOf) /\ dmem' = Machine!MemAfter(LineOf)
    BY RunningEdge DEF Clock
  <2>. QED
    BY <2>2, <2>3, InAnyOrder DEF IsaRegs
<1>2. LanesSerialise <=> [][Serialises]_programVars
  BY DEF LanesSerialise
<1>. HIDE DEF Serialises
<1>. QED
  BY <1>1, <1>2, ProgramHolds, PTL
=============================================================================
