----------------------------- MODULE Scratchpad -----------------------------
(***************************************************************************)
(* The on-chip memory of soc/Scratchpad.scala: the instruction memory      *)
(* (wr_mask = false) and the data memory (wr_mask = true) are instances.   *)
(* A chisel Mem of Size words is indexed by the low log2Ceil(Size) bits of *)
(* the index it is given.  The code subtracts the scaled base address on   *)
(* one side of each memory only: on writes of the unmasked memory, and on  *)
(* reads of the masked one.                                                *)
(***************************************************************************)
EXTENDS Integers

CONSTANTS
  Size,        \* words in the memory (1000 in PykeTop)
  DataBytes,   \* bytes in a word, dataWidth / 8
  AddrOffset   \* byte address of the first word

(* The least power of two that is at least n: 2^log2Ceil(n).               *)
Pow2Ceil(n) == 2^(CHOOSE k \in 0..n : n <= 2^k /\ 2^k < 2*n)

ScaledOffset == AddrOffset \div Pow2Ceil(DataBytes)
IndexMod == Pow2Ceil(Size)
Cells == 0..(Size - 1)

(* The two ways an access of word address a selects a cell.                *)
OffsetIndex(a) == (a - ScaledOffset) % IndexMod
PlainIndex(a) == a % IndexMod

(* A write beyond the last word is dropped.                                *)
Put(mem, i, data) == [c \in Cells |-> IF c = i THEN data ELSE mem[c]]
WriteNonmasked(mem, a, data) == Put(mem, OffsetIndex(a), data)
WriteMasked(mem, a, data) == Put(mem, PlainIndex(a), data)

(* A read beyond the last word returns garbage.                            *)
ReadNonmasked(mem, a, garbage) ==
  IF PlainIndex(a) \in Cells THEN mem[PlainIndex(a)] ELSE garbage
ReadMasked(mem, a, garbage) ==
  IF OffsetIndex(a) \in Cells THEN mem[OffsetIndex(a)] ELSE garbage

(* The low two bits of the last word.                                      *)
SuccessBits(mem) == mem[Size - 1] % 4
=============================================================================
