------------------------------- MODULE Fields -------------------------------
(***************************************************************************)
(* The fields of an instruction in decodetree.py.  One record stands for   *)
(* all field classes: subs are the parts, the highest first, func the name *)
(* of the function a value goes through ("" for none), val the value of a  *)
(* constant.  An instruction is the set of its bits that are one.          *)
(***************************************************************************)
EXTENDS Integers, Sequences

Part(pos, len, sign) == [pos |-> pos, len |-> len, sign |-> sign]
FieldIn(subs, func) == [subs |-> subs, func |-> func, val |-> 0]
Const(val) == [subs |-> <<>>, func |-> "", val |-> val]

PartMask(s) == s.pos..(s.pos + s.len - 1)
FieldMask(f) == UNION {PartMask(f.subs[k]) : k \in DOMAIN f.subs}
FieldSign(f) == f.subs[1].sign

IsConst(f) == f.subs = <<>> /\ f.func = ""

(* == of two parts compares sign and mask, of a compound all its parts.    *)
SamePart(a, b) == a.sign = b.sign /\ PartMask(a) = PartMask(b)

(* The fields behind a function are compared by the left one's ==, whatever*)
(* the class of the right one; when only that is a compound, by its sign   *)
(* and mask.                                                               *)
PlainToCompound(a, b) ==
  a.func # "" /\ a.func = b.func /\ Len(a.subs) = 1 /\ Len(b.subs) > 1

SameFieldOrder(a, b) ==   \* mutant: parts are compared as a set
  /\ ~ IsConst(a) /\ ~ IsConst(b) /\ a.func = b.func
  /\ FieldMask(a) = FieldMask(b)
  /\ Len(a.subs) = Len(b.subs) \/ PlainToCompound(a, b)

(* The classes are compared first (eq_fields_for_fmts); a ConstField has   *)
(* no __eq__, so it is equal to itself only.                               *)
SameField(a, b) ==
  /\ ~ IsConst(a) /\ ~ IsConst(b)
  /\ a.func = b.func
  /\ IF PlainToCompound(a, b)
     THEN FieldSign(a) = FieldSign(b) /\ FieldMask(a) = FieldMask(b)
     ELSE /\ Len(a.subs) = Len(b.subs)
          /\ \A k \in DOMAIN a.subs : SamePart(a.subs[k], b.subs[k])

(* A compound asks the other one for parts, which a plain field has not:   *)
(* an AttributeError.                                                      *)
Incomparable(a, b) == PlainToCompound(b, a)

(* Where a part starts in the value: above the parts that come after it.   *)
Offset(f, k) ==
  LET after[i \in 1..Len(f.subs)] ==
        IF i = Len(f.subs) THEN 0 ELSE after[i + 1] + f.subs[i + 1].len
  IN after[k]
FieldLen(f) == Offset(f, 1) + f.subs[1].len

-----------------------------------------------------------------------------
(* 2^n; the provers know no power but those of numbers.                    *)
TwoTo[n \in Nat] == IF n = 0 THEN 1 ELSE 2 * TwoTo[n - 1]

(* str_extract: every part is put above the ones behind it; a signed part  *)
(* is extended over everything above, which only the first one keeps.      *)
Number(ones, len, signed) ==
  LET sum[n \in 0..len] ==
        IF n = 0 THEN 0
        ELSE sum[n - 1] + (IF n - 1 \notin ones THEN 0
                           ELSE IF signed /\ n = len THEN - TwoTo[n - 1] ELSE TwoTo[n - 1])
  IN sum[len]

ValueBits(f, insn) ==
  {n \in 0..(FieldLen(f) - 1) :
     \E k \in DOMAIN f.subs :
       /\ n \in Offset(f, k)..(Offset(f, k) + f.subs[k].len - 1)
       /\ (n - Offset(f, k)) + f.subs[k].pos \in insn}

str_extract(f, insn) ==
  IF f.subs = <<>> THEN f.val ELSE Number(ValueBits(f, insn), FieldLen(f), FieldSign(f))

-----------------------------------------------------------------------------
(* str_encode.  Bits(uint=..) and Bits(int=..) refuse a value that does    *)
(* not fit the length they are given, which is the part's, not the field's;*)
(* a part that lies below its place in the value is shifted by a negative  *)
(* number, another error.                                                  *)
InBits(v, len, signed) ==
  IF signed THEN len > 0 /\ v \in (- TwoTo[len - 1])..(TwoTo[len - 1] - 1)
            ELSE v \in 0..(TwoTo[len] - 1)
BitsOf(v, len) == {n \in 0..(len - 1) : (v \div TwoTo[n]) % 2 = 1}

Encodes(f, v) ==
  /\ f.subs # <<>> /\ f.func = ""
  /\ \A k \in DOMAIN f.subs :
       /\ InBits(v, f.subs[k].len, FieldSign(f))
       /\ f.subs[k].pos >= Offset(f, k)

(* A part's bits of the value, cut from as many bits as the part has.      *)
PartBits(f, k, v) ==
  {n - Offset(f, k) + f.subs[k].pos :
     n \in BitsOf(v, f.subs[k].len)
             \intersect Offset(f, k)..(Offset(f, k) + f.subs[k].len - 1)}
str_encode(f, v) == UNION {PartBits(f, k, v) : k \in DOMAIN f.subs}
=============================================================================
