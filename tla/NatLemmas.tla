----------------------------- MODULE NatLemmas -----------------------------
(* Division with remainder, as the address arithmetic of the memories uses *)
(* it: chisel's shifts and truncations are \div and % of naturals.         *)
EXTENDS Integers, WellFoundedInduction, TLAPS

(* A positive multiple of n is at least n.                                 *)
LEMMA MulGe ==
  ASSUME NEW n \in Nat \ {0}, NEW d \in Nat, d >= 1
  PROVE  n * d >= n
<1>1. n * d = n + n * (d - 1)
  OBVIOUS
<1>2. n * (d - 1) >= 0 /\ n * (d-1) \in Int
  OBVIOUS
<1>. QED
  BY <1>1, <1>2

(* Quotient and remainder are unique.                                      *)
LEMMA DivUnique ==
  ASSUME NEW n \in Nat \ {0}, NEW q \in Nat, NEW q2 \in Nat, NEW r \in 0..(n-1), NEW r2 \in 0..(n-1), n * q + r = n * q2 + r2
  PROVE q = q2 /\ r = r2
<1>1. CASE q < q2
  <2>1. n * (q2 - q) >= n BY <1>1, MulGe
  <2>2. n * (q2 - q) = n * q2 - n * q OBVIOUS
  <2>3. n * q \in Nat /\ n * q2 \in Nat OBVIOUS
  <2>. QED BY <2>1, <2>2, <2>3
<1>2. CASE q2 < q
  <2>1. n * (q - q2) >= n BY <1>2, MulGe
  <2>2. n * (q - q2) = n * q - n * q2 OBVIOUS
  <2>3. n * q \in Nat /\ n * q2 \in Nat OBVIOUS
  <2>. QED BY <2>1, <2>2, <2>3
<1>. QED BY <1>1, <1>2

(* What the provers know of division.                                      *)
LEMMA DivMod ==
  ASSUME NEW n \in Nat \ {0}, NEW x \in Nat
  PROVE x = n * (x \div n) + (x % n) /\ x % n \in 0..(n - 1) /\ x \div n \in Nat
OBVIOUS

(* Whatever has the shape of quotient and remainder is them.               *)
LEMMA DivModIs ==
  ASSUME NEW n \in Nat \ {0}, NEW x \in Nat, NEW q \in Nat, NEW r \in 0..(n - 1),
         x = n * q + r
  PROVE  x \div n = q /\ x % n = r
BY DivMod, DivUnique

(* Byte addresses a multiple of the word length apart are that many words  *)
(* apart.                                                                  *)
LEMMA DivShift ==
  ASSUME NEW a \in Nat, NEW n \in Nat \ {0}, NEW k \in Nat
  PROVE  (a + k * n) \div n = (a \div n) + k
<1>1. a = n * (a \div n) + (a % n) /\ a % n \in 0..(n - 1) /\ a \div n \in Nat
  BY DivMod
<1>2. a + k * n = n * ((a \div n) + k) + (a % n)
  BY <1>1
<1>3. a + k * n \in Nat /\ (a \div n) + k \in Nat
  BY <1>1
<1>. QED
  BY <1>1, <1>2, <1>3, DivModIs

(* A base that is a multiple of the span does not move a cell.             *)
LEMMA ModShift ==
  ASSUME NEW a \in Nat, NEW n \in Nat \ {0}, a % n = 0, NEW k \in Nat
  PROVE  (a + k) % n = k % n
<1>1. k = n * (k \div n) + (k % n) /\ k % n \in 0..(n - 1) /\ k \div n \in Nat
  BY DivMod
<1>2. a = n * (a \div n) /\ a \div n \in Nat
  BY DivMod
<1>3. a + k = n * ((a \div n) + (k \div n)) + (k % n)
  BY <1>1, <1>2
<1>4. a + k \in Nat /\ (a \div n) + (k \div n) \in Nat
  BY <1>1, <1>2
<1>. QED
  BY <1>1, <1>3, <1>4, DivModIs

(* A quotient is no larger than the number divided.                        *)
LEMMA DivLe ==
  ASSUME NEW x \in Nat, NEW n \in Nat \ {0}
  PROVE  x \div n \in 0..x
<1>. DEFINE q == x \div n
<1>1. x = n * q + (x % n) /\ x % n \in 0..(n - 1) /\ q \in Nat
  BY DivMod
<1>2. q > 0 => q * n >= q
  BY <1>1, MulGe
<1>3. n * q = q * n
  BY <1>1
<1>. HIDE DEF q
<1>4. q <= x
  BY <1>1, <1>2, <1>3
<1>. QED
  BY <1>1, <1>4 DEF q

-----------------------------------------------------------------------------
(* Every set of naturals has a least member, and a bounded one a greatest. *)
LEMMA NatMin ==
  ASSUME NEW S \in SUBSET Nat, S # {}
  PROVE  \E x \in S : \A y \in S : x <= y
<1>. DEFINE Less == {r \in Nat \X Nat : r[1] < r[2]}
<1>1. IsWellFoundedOn(Less, Nat)
  BY NatLessThanWellFounded, Zenon DEF OpToRel
<1>. HIDE DEF Less
<1>2. PICK x \in S : \A y \in S : ~ (<<y, x>> \in Less)
  BY <1>1, WFMin
<1>3. ASSUME NEW y \in S
      PROVE  x <= y
  <2>1. x \in Nat /\ y \in Nat
    OBVIOUS
  <2>2. ~ (y < x)
    BY <1>2, <2>1 DEF Less
  <2>. QED
    BY <2>1, <2>2
<1>. QED
  BY <1>3

LEMMA NatMax ==
  ASSUME NEW n \in Nat, NEW S \in SUBSET (1..n), S # {}
  PROVE  \E x \in S : \A y \in S : y <= x
<1>. DEFINE Below == {n - i : i \in S}
<1>1. Below \in SUBSET Nat /\ Below # {}
  <2>1. \A i \in S : n - i \in Nat
    OBVIOUS
  <2>. QED
    BY <2>1
<1>2. PICK d \in Below : \A e \in Below : d <= e
  <2>. HIDE DEF Below
  <2>. QED
    BY <1>1, NatMin
<1>3. PICK x \in S : d = n - x
  OBVIOUS
<1>4. ASSUME NEW y \in S
      PROVE  y <= x
  <2>1. d <= n - y
    BY <1>2
  <2>. QED
    BY <1>3, <2>1
<1>. QED
  BY <1>4
-----------------------------------------------------------------------------
(* Induction.  The theorem of the library has an operator as a parameter,  *)
(* which no prover here can instantiate; a set does as well.               *)
LEMMA UpTo ==
  ASSUME NEW n \in Nat, NEW S, \A k \in 0..n : (\A j \in 0..(k - 1) : j \in S) => k \in S
  PROVE  0..n \subseteq S
<1>. SUFFICES ASSUME {k \in 0..n : k \notin S} # {} PROVE FALSE
  OBVIOUS
<1>1. PICK k \in {j \in 0..n : j \notin S} : \A j \in {i \in 0..n : i \notin S} : k <= j
  <2>. DEFINE R == {j \in 0..n : j \notin S}
  <2>1. R \in SUBSET Nat /\ R # {}
    OBVIOUS
  <2>. HIDE DEF R
  <2>2. \E x \in R : \A y \in R : x <= y
    BY <2>1, NatMin
  <2>. QED
    BY <2>2 DEF R
<1>. QED
  BY <1>1

(* A function that is defined by its value for the number before exists;   *)
(* what it makes of that value is a function too.                          *)
Steps(n, X) == [(1..n) \X X -> X]
Follows(f, n, x0, step) ==
  f[0] = x0 /\ \A k \in 1..n : f[k] = step[<<k, f[k - 1]>>]

LEMMA Recursion ==
  ASSUME NEW n \in Nat, NEW X, NEW x0 \in X, NEW step \in Steps(n, X)
  PROVE  \E f \in [0..n -> X] : Follows(f, n, x0, step)
<1>. DEFINE Upto(m, f) == f[0] = x0 /\ \A k \in 1..m : f[k] = step[<<k, f[k - 1]>>]
            S == {m \in 0..n : \E f \in [0..m -> X] : Upto(m, f)}
<1>1. 0 \in S
  <2>. DEFINE f == [k \in 0..0 |-> x0]
  <2>1. f \in [0..0 -> X] /\ Upto(0, f)
    OBVIOUS
  <2>. HIDE DEF f
  <2>. QED
    BY <2>1
<1>2. ASSUME NEW m \in 1..n, m - 1 \in S
      PROVE  m \in S
  <2>1. PICK f \in [0..(m - 1) -> X] : Upto(m - 1, f)
    BY <1>2
  <2>. DEFINE h == [k \in 0..m |-> IF k = m THEN step[<<m, f[m - 1]>>] ELSE f[k]]
  <2>2. f[m - 1] \in X
    OBVIOUS
  <2>3. step[<<m, f[m - 1]>>] \in X
    BY <2>2 DEF Steps
  <2>4. h \in [0..m -> X]
    BY <2>3
  <2>5. h[0] = x0
    BY <2>1
  <2>6. ASSUME NEW k \in 1..m PROVE h[k] = step[<<k, h[k - 1]>>]
    <3>1. k - 1 \in 0..(m - 1) /\ h[k - 1] = f[k - 1]
      OBVIOUS
    <3>2. CASE k = m
      <4>1. h[m] = step[<<m, f[m - 1]>>]
        OBVIOUS
      <4>. QED
        BY <3>1, <3>2, <4>1
    <3>3. CASE k # m
      <4>1. k \in 1..(m - 1)
        BY <3>3
      <4>2. h[k] = f[k] /\ f[k] = step[<<k, f[k - 1]>>]
        BY <2>1, <4>1
      <4>. QED
        BY <3>1, <4>2
    <3>. QED
      BY <3>2, <3>3
  <2>. HIDE DEF h
  <2>. QED
    BY <2>4, <2>5, <2>6
<1>. HIDE DEF S
<1>3. \A k \in 0..n : (\A j \in 0..(k - 1) : j \in S) => k \in S
  <2>1. ASSUME NEW k \in 0..n, \A j \in 0..(k - 1) : j \in S PROVE k \in S
    <3>1. CASE k = 0
      BY <1>1, <3>1
    <3>2. CASE k # 0
      <4>1. k \in 1..n /\ k - 1 \in 0..(k - 1)
        BY <3>2
      <4>. QED
        BY <1>2, <2>1, <4>1
    <3>. QED
      BY <3>1, <3>2
  <2>. QED
    BY <2>1
<1>4. n \in S
  BY <1>3, UpTo
<1>. QED
  BY <1>4 DEF S, Follows
=============================================================================
