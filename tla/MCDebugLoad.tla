---------------------------- MODULE MCDebugLoad -----------------------------
(* Images of up to two lines, and longer ones that overrun the memory.  A   *)
(* line has one byte, or the bytes from one on, that differ from the rest:  *)
(* a byte lost, repeated or moved makes another line of it.                *)
EXTENDS DebugLoad

OneApart == {[p \in Positions |-> IF p = q THEN v ELSE 1 - v] : q \in Positions, v \in Byte}
TwoParts == {[p \in Positions |-> IF p < q THEN v ELSE 1 - v] : q \in Positions, v \in Byte}
Lines == OneApart \union TwoParts

MCShortImages == UNION {[1..n -> Lines] : n \in 0..2}
TwoLines == {l \in OneApart : l[1] # l[0] /\ l[1] # l[2]}
MCLongImages == UNION {[1..n -> TwoLines] : n \in 4..6}
MCImages == MCShortImages \union MCLongImages
=============================================================================
