---------------------------- MODULE BackendProofs ----------------------------
(***************************************************************************)
(* Proofs about the assembler with its generated backend, from any file to *)
(* any source.                                                             *)
(***************************************************************************)
EXTENDS Backends, DecodeTreeProofs

-----------------------------------------------------------------------------
(* Powers of two: the recursion is the finite ones put together.           *)
LEMMA TwoToIs ==
  /\ TwoTo[0] = 1
  /\ \A n \in Nat : TwoTo[n] \in Nat \ {0} /\ TwoTo[n + 1] = 2 * TwoTo[n]
<1>. DEFINE step(n) == [p \in (1..n) \X Nat |-> 2 * p[2]]
            Power(n, g) == g \in [0..n -> Nat] /\ Follows(g, n, 1, step(n))
            Is(n, g) == /\ g \in [0..n -> Nat]
                        /\ g[0] = 1 /\ \A k \in 1..n : g[k] = 2 * g[k - 1]
            power(n) == CHOOSE g : Is(n, g)
<1>1. ASSUME NEW n \in Nat PROVE Is(n, power(n))
  <2>1. step(n) \in Steps(n, Nat)
    BY DEF Steps
  <2>2. PICK g \in [0..n -> Nat] : Follows(g, n, 1, step(n))
    <3>. HIDE DEF step
    <3>. QED
      BY <2>1, Recursion
  <2>3. Is(n, g)
    <3>1. ASSUME NEW k \in 1..n PROVE g[k] = 2 * g[k - 1]
      <4>1. g[k] = step(n)[<<k, g[k - 1]>>]
        <5>. HIDE DEF step
        <5>. QED
          BY <2>2 DEF Follows
      <4>2. k - 1 \in 0..n
        OBVIOUS
      <4>3. <<k, g[k - 1]>> \in (1..n) \X Nat
        BY <4>2
      <4>. QED
        BY <4>1, <4>3
    <3>. QED
      BY <2>2, <3>1 DEF Follows
  <2>. HIDE DEF Is
  <2>. QED
    BY <2>3, Zenon
<1>. HIDE DEF power
<1>2. ASSUME NEW n \in Nat PROVE power(n + 1)[n] = power(n)[n]
  <2>1. Is(n, power(n)) /\ Is(n + 1, power(n + 1))
    <3>1. n + 1 \in Nat
      OBVIOUS
    <3>. HIDE DEF Is
    <3>. QED
      BY <1>1, <3>1
  <2>. DEFINE S == {k \in 0..n : power(n + 1)[k] = power(n)[k]}
  <2>2. ASSUME NEW k \in 0..n, \A j \in 0..(k - 1) : j \in S PROVE k \in S
    <3>1. CASE k = 0
      BY <2>1, <3>1
    <3>2. CASE k # 0
      <4>1. k \in 1..n /\ k \in 1..(n + 1) /\ k - 1 \in 0..(k - 1)
        BY <3>2
      <4>2. power(n + 1)[k] = 2 * power(n + 1)[k - 1] /\ power(n)[k] = 2 * power(n)[k - 1]
        BY <2>1, <4>1
      <4>. QED
        BY <2>2, <4>1, <4>2
    <3>. QED
      BY <3>1, <3>2
  <2>. HIDE DEF S
  <2>3. 0..n \subseteq S
    BY <2>2, UpTo
  <2>4. n \in S
    BY <2>3
  <2>. QED
    BY <2>4 DEF S
<1>. DEFINE h == [n \in Nat |-> power(n)[n]]
            Body(a) == [n \in Nat |-> IF n = 0 THEN 1 ELSE 2 * a[n - 1]]
<1>3. ASSUME NEW n \in Nat
      PROVE  /\ h[n] \in Nat
             /\ h[n] = IF n = 0 THEN 1 ELSE 2 * h[n - 1]
  <2>1. Is(n, power(n))
    BY <1>1
  <2>2. CASE n = 0
    BY <2>1, <2>2
  <2>3. CASE n # 0
    <3>1. n - 1 \in Nat /\ (n - 1) + 1 = n /\ n \in 1..n /\ n \in 0..n
      BY <2>3
    <3>2. power(n)[n] = 2 * power(n)[n - 1]
      BY <2>1, <3>1
    <3>3. power(n)[n - 1] = power(n - 1)[n - 1]
      BY <1>2, <3>1
    <3>4. power(n)[n] \in Nat
      BY <2>1, <3>1
    <3>. QED
      BY <2>3, <3>1, <3>2, <3>3, <3>4
  <2>. QED
    BY <2>2, <2>3
<1>4. h = Body(h)
  BY <1>3
<1>5. TwoTo = Body(TwoTo)
  <2>1. TwoTo = CHOOSE a : a = Body(a)
    BY DEF TwoTo
  <2>. HIDE DEF Body, h
  <2>. QED
    BY <1>4, <2>1, Zenon
<1>6. \A n \in Nat : TwoTo[n] = IF n = 0 THEN 1 ELSE 2 * TwoTo[n - 1]
  BY <1>5
<1>7. ASSUME NEW n \in Nat PROVE TwoTo[n] \in Nat \ {0}
  <2>. DEFINE S == {k \in 0..n : TwoTo[k] \in Nat \ {0}}
  <2>1. ASSUME NEW k \in 0..n, \A j \in 0..(k - 1) : j \in S PROVE k \in S
    <3>1. CASE k = 0
      BY <1>6, <3>1
    <3>2. CASE k # 0
      <4>1. k - 1 \in 0..(k - 1) /\ k \in Nat
        BY <3>2
      <4>2. TwoTo[k] = 2 * TwoTo[k - 1] /\ TwoTo[k - 1] \in Nat \ {0}
        BY <1>6, <2>1, <3>2, <4>1
      <4>. QED
        BY <4>2
    <3>. QED
      BY <3>1, <3>2
  <2>. HIDE DEF S
  <2>2. 0..n \subseteq S
    BY <2>1, UpTo
  <2>3. n \in S
    BY <2>2
  <2>. QED
    BY <2>3 DEF S
<1>8. ASSUME NEW n \in Nat PROVE TwoTo[n + 1] = 2 * TwoTo[n]
  <2>1. n + 1 \in Nat /\ n + 1 # 0 /\ (n + 1) - 1 = n
    OBVIOUS
  <2>. QED
    BY <1>6, <2>1
<1>. QED
  BY <1>6, <1>7, <1>8

LEMMA TwoToNat ==
  ASSUME NEW n \in Nat
  PROVE  TwoTo[n] \in Nat \ {0} /\ TwoTo[n + 1] = 2 * TwoTo[n]
BY TwoToIs

LEMMA TwoToGrows ==
  ASSUME NEW m \in Nat, NEW n \in Nat, m <= n
  PROVE  TwoTo[m] <= TwoTo[n]
<1>. DEFINE S == {k \in 0..(n - m) : TwoTo[m] <= TwoTo[m + k]}
<1>1. ASSUME NEW k \in 0..(n - m), \A j \in 0..(k - 1) : j \in S PROVE k \in S
  <2>1. CASE k = 0
    BY <2>1, TwoToNat
  <2>2. CASE k # 0
    <3>1. k - 1 \in 0..(k - 1) /\ m + (k - 1) \in Nat /\ (m + (k - 1)) + 1 = m + k
      BY <2>2
    <3>2. TwoTo[m + k] = 2 * TwoTo[m + (k - 1)] /\ TwoTo[m + (k - 1)] \in Nat
      BY <3>1, TwoToNat
    <3>3. TwoTo[m] <= TwoTo[m + (k - 1)] /\ TwoTo[m] \in Nat
      BY <1>1, <3>1, TwoToNat
    <3>. QED
      BY <3>2, <3>3
  <2>. QED
    BY <2>1, <2>2
<1>. HIDE DEF S
<1>2. n - m \in Nat
  OBVIOUS
<1>3. 0..(n - m) \subseteq S
  BY <1>1, <1>2, UpTo
<1>4. n - m \in S /\ m + (n - m) = n
  BY <1>2, <1>3
<1>. QED
  BY <1>4 DEF S

-----------------------------------------------------------------------------
(* Division of integers; the bits of a number, one after the other.        *)
LEMMA IntDivMod ==
  ASSUME NEW v \in Int, NEW d \in Nat \ {0}
  PROVE  v = d * (v \div d) + (v % d) /\ v % d \in 0..(d - 1) /\ v \div d \in Int
OBVIOUS

LEMMA IntDivIs ==
  ASSUME NEW v \in Int, NEW d \in Nat \ {0}, NEW q \in Int, NEW r \in 0..(d - 1),
         v = d * q + r
  PROVE  v \div d = q
<1>. DEFINE p == v \div d
<1>1. v = d * p + (v % d) /\ v % d \in 0..(d - 1) /\ p \in Int
  BY IntDivMod
<1>. HIDE DEF p
<1>2. CASE p < q
  <2>1. q - p \in Nat /\ q - p >= 1
    BY <1>1, <1>2
  <2>2. d * (q - p) >= d
    BY <2>1, MulGe
  <2>3. d * (q - p) = d * q - d * p
    BY <1>1
  <2>4. d * q \in Int /\ d * p \in Int
    BY <1>1
  <2>. QED
    BY <1>1, <2>2, <2>3, <2>4
<1>3. CASE q < p
  <2>1. p - q \in Nat /\ p - q >= 1
    BY <1>1, <1>3
  <2>2. d * (p - q) >= d
    BY <2>1, MulGe
  <2>3. d * (p - q) = d * p - d * q
    BY <1>1
  <2>4. d * q \in Int /\ d * p \in Int
    BY <1>1
  <2>. QED
    BY <1>1, <2>2, <2>3, <2>4
<1>. QED
  BY <1>1, <1>2, <1>3 DEF p

LEMMA Halved ==
  ASSUME NEW v \in Int, NEW d \in Nat \ {0}
  PROVE  v \div (2 * d) = (v \div d) \div 2
<1>. DEFINE q == v \div d
            r == v % d
            h == q \div 2
            b == q % 2
<1>1. v = d * q + r /\ r \in 0..(d - 1) /\ q \in Int
  BY IntDivMod
<1>2. q = 2 * h + b /\ b \in 0..1 /\ h \in Int
  BY <1>1
<1>. HIDE DEF q, r, h, b
<1>3. d * b + r \in 0..(2 * d - 1)
  <2>1. b = 0 \/ b = 1
    BY <1>2
  <2>2. d * b \in {0, d}
    BY <2>1
  <2>. QED
    BY <1>1, <2>2
<1>4. v = (2 * d) * h + (d * b + r)
  <2>1. d * q = d * (2 * h + b)
    BY <1>2
  <2>2. d * (2 * h + b) = (2 * d) * h + d * b
    BY <1>2
  <2>. QED
    BY <1>1, <1>2, <2>1, <2>2
<1>5. 2 * d \in Nat \ {0}
  OBVIOUS
<1>6. v \div (2 * d) = h
  BY <1>2, <1>3, <1>4, <1>5, IntDivIs
<1>. QED
  BY <1>6 DEF q, h

(* What one bit adds to the number.                                        *)
Weight(ones, len, signed, n) ==
  IF n - 1 \notin ones THEN 0
  ELSE IF signed /\ n = len THEN - TwoTo[n - 1] ELSE TwoTo[n - 1]

LEMMA WeightInt ==
  ASSUME NEW ones, NEW len \in Nat, NEW signed, NEW n \in 1..len
  PROVE  Weight(ones, len, signed, n) \in Int
<1>1. n - 1 \in Nat
  OBVIOUS
<1>2. TwoTo[n - 1] \in Nat
  BY <1>1, TwoToNat
<1>. QED
  BY <1>2 DEF Weight

Sums(s, ones, len, signed) ==
  /\ s \in [0..len -> Int] /\ s[0] = 0
  /\ \A n \in 1..len : s[n] = s[n - 1] + Weight(ones, len, signed, n)

LEMMA NumberIs ==
  ASSUME NEW ones, NEW len \in Nat, NEW signed
  PROVE  \E s : Sums(s, ones, len, signed) /\ Number(ones, len, signed) = s[len]
<1>. DEFINE w(n) == Weight(ones, len, signed, n)
            step == [p \in (1..len) \X Int |-> p[2] + w(p[1])]
            Body(a) == [n \in 0..len |-> IF n = 0 THEN 0 ELSE a[n - 1] + w(n)]
            sum == CHOOSE a : a = Body(a)
<1>0. \A n \in 1..len : w(n) \in Int
  BY WeightInt
<1>1. Number(ones, len, signed) = sum[len]
  <2>1. \A a : Body(a) =
           [n \in 0..len |-> IF n = 0 THEN 0
              ELSE a[n - 1] + (IF n - 1 \notin ones THEN 0
                               ELSE IF signed /\ n = len THEN - TwoTo[n - 1] ELSE TwoTo[n - 1])]
    BY Zenon DEF Weight
  <2>2. Number(ones, len, signed) = (CHOOSE a : a =
           [n \in 0..len |-> IF n = 0 THEN 0
              ELSE a[n - 1] + (IF n - 1 \notin ones THEN 0
                               ELSE IF signed /\ n = len THEN - TwoTo[n - 1] ELSE TwoTo[n - 1])])[len]
    BY Zenon DEF Number
  <2>. QED
    BY <2>2, Zenon DEF Weight
<1>. HIDE DEF w
<1>2. step \in Steps(len, Int)
  BY <1>0 DEF Steps
<1>3. PICK g \in [0..len -> Int] : Follows(g, len, 0, step)
  <2>1. 0 \in Int
    OBVIOUS
  <2>. HIDE DEF step
  <2>. QED
    BY <1>2, <2>1, Recursion
<1>4. \A n \in 1..len : g[n] = g[n - 1] + w(n)
  <2>. SUFFICES ASSUME NEW n \in 1..len PROVE g[n] = g[n - 1] + w(n)
    OBVIOUS
  <2>1. g[n] = step[<<n, g[n - 1]>>]
    <3>. HIDE DEF step
    <3>. QED
      BY <1>3 DEF Follows
  <2>2. n - 1 \in 0..len
    OBVIOUS
  <2>3. <<n, g[n - 1]>> \in (1..len) \X Int
    BY <2>2
  <2>. QED
    BY <2>1, <2>3
<1>5. g[0] = 0
  BY <1>3 DEF Follows
<1>6. g = Body(g)
  BY <1>4, <1>5
<1>7. sum = Body(sum)
  <2>. HIDE DEF Body
  <2>. QED
    BY <1>6, Zenon
<1>. HIDE DEF sum
<1>8. DOMAIN sum = 0..len /\ \A n \in 0..len : sum[n] = IF n = 0 THEN 0 ELSE sum[n - 1] + w(n)
  BY <1>7
<1>. DEFINE S == {n \in 0..len : sum[n] \in Int}
<1>9. ASSUME NEW n \in 0..len, \A j \in 0..(n - 1) : j \in S PROVE n \in S
  <2>1. CASE n = 0
    BY <1>8, <2>1
  <2>2. CASE n # 0
    <3>1. n \in 1..len /\ n - 1 \in 0..(n - 1)
      BY <2>2
    <3>2. sum[n - 1] \in Int /\ w(n) \in Int
      BY <1>0, <1>9, <3>1
    <3>. QED
      BY <1>8, <2>2, <3>2
  <2>. QED
    BY <2>1, <2>2
<1>. HIDE DEF S
<1>10. 0..len \subseteq S
  BY <1>9, UpTo
<1>11. \A n \in 0..len : sum[n] \in Int
  BY <1>10 DEF S
<1>12. sum = [n \in 0..len |-> sum[n]]
  BY <1>7, <1>8
<1>13. Sums(sum, ones, len, signed)
  <2>1. sum \in [0..len -> Int]
    BY <1>11, <1>12
  <2>2. \A n \in 1..len : sum[n] = sum[n - 1] + Weight(ones, len, signed, n)
    BY <1>8 DEF w
  <2>3. sum[0] = 0
    BY <1>8
  <2>. QED
    BY <2>1, <2>2, <2>3 DEF Sums
<1>. QED
  BY <1>1, <1>13

(* The low bits of a number add up to what is left of it.                  *)
Bit(v, n) == (v \div TwoTo[n]) % 2 = 1

LEMMA SumsAre ==
  ASSUME NEW v \in Int, NEW ones, NEW len \in Nat, NEW signed,
         \A n \in 0..(len - 1) : n \in ones <=> Bit(v, n),
         NEW s, Sums(s, ones, len, signed), NEW m \in 0..len, signed => m < len
  PROVE  v = TwoTo[m] * (v \div TwoTo[m]) + s[m]
<1>. DEFINE S == {n \in 0..m : v = TwoTo[n] * (v \div TwoTo[n]) + s[n]}
<1>1. ASSUME NEW n \in 0..m, \A j \in 0..(n - 1) : j \in S PROVE n \in S
  <2>1. CASE n = 0
    <3>1. TwoTo[0] = 1 /\ s[0] = 0
      BY TwoToIs DEF Sums
    <3>2. v = 1 * (v \div 1) + 0
      OBVIOUS
    <3>. QED
      BY <2>1, <3>1, <3>2
  <2>2. CASE n # 0
    <3>0. n - 1 \in 0..(n - 1) /\ n - 1 \in 0..(len - 1) /\ n \in 1..len /\ (n - 1) + 1 = n
          /\ n - 1 \in Nat /\ n - 1 \in 0..len
      BY <2>2
    <3>1. PICK d \in Nat \ {0} : d = TwoTo[n - 1] /\ TwoTo[n] = 2 * d
      BY <3>0, TwoToNat
    <3>2. v = d * (v \div d) + s[n - 1]
      BY <1>1, <3>0, <3>1
    <3>3. s[n] = s[n - 1] + (IF (v \div d) % 2 = 1 THEN d ELSE 0)
      <4>1. ~ (signed /\ n = len)
        OBVIOUS
      <4>2. n - 1 \in ones <=> (v \div d) % 2 = 1
        BY <3>0, <3>1 DEF Bit
      <4>3. s[n] = s[n - 1] + Weight(ones, len, signed, n)
        BY <3>0 DEF Sums
      <4>. QED
        BY <3>1, <4>1, <4>2, <4>3 DEF Weight
    <3>4. PICK q \in Int : q = v \div d
      BY IntDivMod
    <3>5. PICK h \in Int, b \in 0..1 : h = q \div 2 /\ b = q % 2 /\ q = 2 * h + b
      OBVIOUS
    <3>6. v \div TwoTo[n] = h
      BY <3>1, <3>4, <3>5, Halved
    <3>7. s[n - 1] \in Int
      BY <3>0 DEF Sums
    <3>8. d * q = (2 * d) * h + d * b
      <4>1. d * q = d * (2 * h + b)
        BY <3>5
      <4>. QED
        BY <4>1
    <3>9. s[n] = s[n - 1] + d * b
      <4>1. b = 0 \/ b = 1
        OBVIOUS
      <4>2. b = 0 => d * b = 0
        OBVIOUS
      <4>3. b = 1 => d * b = d
        OBVIOUS
      <4>. QED
        BY <3>3, <3>4, <3>5, <3>7, <4>1, <4>2, <4>3
    <3>10. v = (2 * d) * h + s[n]
      <4>1. d * b \in Int /\ (2 * d) * h \in Int
        OBVIOUS
      <4>. QED
        BY <3>2, <3>4, <3>7, <3>8, <3>9, <4>1
    <3>. QED
      BY <3>1, <3>6, <3>10
  <2>. QED
    BY <2>1, <2>2
<1>. HIDE DEF S
<1>2. m \in Nat
  OBVIOUS
<1>3. 0..m \subseteq S
  BY <1>1, <1>2, UpTo
<1>4. m \in S
  BY <1>3
<1>. QED
  BY <1>4 DEF S

(* A number that has no bits from a place on is its bits below; a signed   *)
(* one that fits into the length is its bits, the highest taken away.      *)
LEMMA UnsignedNumber ==
  ASSUME NEW len \in Nat, NEW signed, ~ signed, NEW v \in 0..(TwoTo[len] - 1), NEW ones,
         \A n \in 0..(len - 1) : n \in ones <=> Bit(v, n)
  PROVE  Number(ones, len, signed) = v
<1>0. TwoTo[len] \in Nat \ {0}
  BY TwoToNat
<1>1. PICK s : Sums(s, ones, len, signed) /\ Number(ones, len, signed) = s[len]
  BY NumberIs
<1>2. v \in Int /\ len \in 0..len
  BY <1>0
<1>3. v = TwoTo[len] * (v \div TwoTo[len]) + s[len]
  BY <1>1, <1>2, SumsAre
<1>4. v \div TwoTo[len] = 0
  BY <1>0, <1>2, IntDivIs
<1>5. s[len] \in Int
  BY <1>1 DEF Sums
<1>. QED
  BY <1>0, <1>1, <1>2, <1>3, <1>4, <1>5

LEMMA SignedNumber ==
  ASSUME NEW len \in Nat, len > 0, NEW signed,
         NEW v \in (- TwoTo[len - 1])..(TwoTo[len - 1] - 1), NEW ones,
         \A n \in 0..(len - 1) : n \in ones <=> Bit(v, n)
  PROVE  signed => Number(ones, len, signed) = v
<1>s. SUFFICES ASSUME signed PROVE Number(ones, len, signed) = v
  OBVIOUS
<1>. DEFINE m == len - 1
<1>0. m \in Nat /\ m \in 0..len /\ m < len /\ len \in 1..len
  OBVIOUS
<1>1. PICK d \in Nat \ {0} : d = TwoTo[m]
  BY <1>0, TwoToNat
<1>2. v \in Int /\ v \in (- d)..(d - 1)
  BY <1>1
<1>3. PICK s : Sums(s, ones, len, signed) /\ Number(ones, len, signed) = s[len]
  BY NumberIs
<1>4. v = d * (v \div d) + s[m] /\ s[m] \in Int
  <2>1. m \in 0..len /\ m < len /\ v \in Int
    BY <1>0, <1>2
  <2>. HIDE DEF m
  <2>2. v = TwoTo[m] * (v \div TwoTo[m]) + s[m]
    BY <1>3, <2>1, SumsAre
  <2>3. s[m] \in Int
    BY <1>3, <2>1 DEF Sums
  <2>. QED
    BY <1>1, <2>2, <2>3
<1>5. s[len] = s[m] + (IF Bit(v, m) THEN - d ELSE 0)
  <2>1. s[len] = s[len - 1] + Weight(ones, len, signed, len)
    BY <1>0, <1>3 DEF Sums
  <2>2. m \in ones <=> Bit(v, m)
    BY <1>0
  <2>. QED
    BY <1>s, <1>1, <2>1, <2>2 DEF Weight
<1>6. CASE v >= 0
  <2>1. v \div d = 0
    BY <1>1, <1>2, <1>6, IntDivIs
  <2>2. ~ Bit(v, m)
    BY <1>1, <2>1 DEF Bit
  <2>. QED
    <3>1. d * 0 = 0
      OBVIOUS
    <3>2. s[len] = s[m]
      BY <1>4, <1>5, <2>2
    <3>. QED
      BY <1>3, <1>4, <2>1, <3>1, <3>2
<1>7. CASE v < 0
  <2>1. v = d * (-1) + (v + d) /\ v + d \in 0..(d - 1)
    BY <1>2, <1>7
  <2>2. v \div d = -1
    BY <1>1, <1>2, <2>1, IntDivIs
  <2>3. Bit(v, m)
    BY <1>1, <2>2 DEF Bit
  <2>. QED
    <3>1. d * (-1) = - d
      OBVIOUS
    <3>2. s[len] = s[m] + (- d)
      BY <1>5, <2>3
    <3>. QED
      BY <1>2, <1>3, <1>4, <2>2, <3>1, <3>2
<1>8. v >= 0 \/ v < 0
  BY <1>2
<1>. QED
  BY <1>6, <1>7, <1>8

(* Beyond its highest bit a number has none.                               *)
LEMMA NoHighBit ==
  ASSUME NEW len \in Nat, NEW v \in 0..(TwoTo[len] - 1), NEW n \in Nat, n >= len
  PROVE  ~ Bit(v, n)
<1>1. TwoTo[len] \in Nat \ {0} /\ TwoTo[n] \in Nat \ {0} /\ TwoTo[len] <= TwoTo[n]
  BY TwoToNat, TwoToGrows
<1>2. v \in 0..(TwoTo[n] - 1) /\ v \in Int /\ v = TwoTo[n] * 0 + v
  BY <1>1
<1>3. v \div TwoTo[n] = 0
  BY <1>1, <1>2, IntDivIs
<1>. QED
  BY <1>3 DEF Bit

-----------------------------------------------------------------------------
(* A field's value read back.  The parts cover the value without gaps.     *)
Window(f, k) == Offset(f, k)..(Offset(f, k) + f.subs[k].len - 1)

LEMMA PartShape ==
  ASSUME NEW f, f.subs \in Seq(Parts), NEW k \in DOMAIN f.subs
  PROVE  /\ Offset(f, k) \in Nat /\ f.subs[k].len \in Nat /\ f.subs[k].pos \in Int
         /\ k \in 1..Len(f.subs) /\ Len(f.subs) \in Nat
<1>1. OffsetIs(f, k)
  BY Offsets
<1>2. f.subs[k] \in Parts
  OBVIOUS
<1>. QED
  BY <1>1, <1>2 DEF OffsetIs, Parts

LEMMA SubsAre ==
  ASSUME NEW f, FieldOK(f), f.subs # <<>>
  PROVE  /\ f.subs \in Seq(Parts) /\ Len(f.subs) \in Nat /\ Len(f.subs) > 0
         /\ DOMAIN f.subs = 1..Len(f.subs) /\ 1 \in DOMAIN f.subs
<1>1. f.subs \in Seq(Parts)
  BY DEF FieldOK
<1>2. Len(f.subs) \in Nat /\ DOMAIN f.subs = 1..Len(f.subs)
  BY <1>1
<1>3. Len(f.subs) # 0
  BY <1>1
<1>. QED
  BY <1>1, <1>2, <1>3

LEMMA FieldLenNat ==
  ASSUME NEW f, FieldOK(f), f.subs # <<>>
  PROVE  FieldLen(f) \in Nat
<1>1. Offset(f, 1) \in Nat /\ f.subs[1].len \in Nat
  BY SubsAre, PartShape
<1>. QED
  BY <1>1 DEF FieldLen

LEMMA Gapless ==
  ASSUME NEW f, f.subs \in Seq(Parts), f.subs # <<>>, NEW n \in 0..(FieldLen(f) - 1)
  PROVE  \E k \in DOMAIN f.subs : n \in Window(f, k)
<1>1. PICK c \in Nat : c = Len(f.subs) /\ DOMAIN f.subs = 1..c /\ c > 0
  OBVIOUS
<1>. DEFINE Filled(r) == \A m \in 0..(r - 1) : \E j \in 1..c : m \in Window(f, j)
            Reached(k) == Filled(Offset(f, k) + f.subs[k].len)
            S == {i \in 0..(c - 1) : Reached(c - i)}
<1>2. ASSUME NEW i \in 0..(c - 1), \A j \in 0..(i - 1) : j \in S PROVE i \in S
  <2>1. c - i \in 1..c
    BY <1>1
  <2>2. PICK o \in Nat, l \in Nat : o = Offset(f, c - i) /\ l = f.subs[c - i].len
    BY <1>1, <2>1, PartShape
  <2>3. \A m \in o..(o + l - 1) : m \in Window(f, c - i)
    BY <2>2 DEF Window
  <2>4. CASE i = 0
    <3>1. o = 0
      BY <1>1, <2>1, <2>2, <2>4, Offsets DEF OffsetIs
    <3>2. Filled(o + l)
      BY <2>1, <2>3, <3>1
    <3>. HIDE DEF Filled
    <3>. QED
      BY <2>2, <3>2
  <2>5. CASE i # 0
    <3>1. i - 1 \in 0..(i - 1) /\ c - (i - 1) = (c - i) + 1 /\ (c - i) + 1 \in 1..c /\ c - i # c
      BY <1>1, <2>5
    <3>2. o = Offset(f, (c - i) + 1) + f.subs[(c - i) + 1].len
      BY <1>1, <2>1, <2>2, <3>1, Offsets DEF OffsetIs
    <3>3. Reached((c - i) + 1)
      BY <1>2, <3>1
    <3>4. Filled(o)
      <4>. HIDE DEF Filled
      <4>. QED
        BY <3>2, <3>3
    <3>5. Filled(o + l)
      BY <2>1, <2>3, <3>4
    <3>. HIDE DEF Filled
    <3>. QED
      BY <2>2, <3>5
  <2>. QED
    BY <2>4, <2>5
<1>. HIDE DEF S
<1>3. c - 1 \in Nat
  BY <1>1
<1>4. 0..(c - 1) \subseteq S
  BY <1>2, <1>3, UpTo
<1>5. c - 1 \in S /\ c - (c - 1) = 1
  BY <1>3, <1>4
<1>6. Reached(1)
  BY <1>5 DEF S
<1>7. \E j \in 1..c : n \in Window(f, j)
  <2>1. Filled(FieldLen(f))
    <3>. HIDE DEF Filled
    <3>. QED
      BY <1>6 DEF FieldLen
  <2>. QED
    BY <2>1
<1>. QED
  BY <1>1, <1>7

(* An instruction that has in the field's bits what is encoded of v has    *)
(* there the bits of v, if a part's place is below the number of its bits  *)
(* wherever v has ones.                                                    *)
LEMMA BitsBack ==
  ASSUME NEW f, FieldOK(f), f.subs # <<>>, NEW v,
         NEW insn, insn \intersect FieldMask(f) = str_encode(f, v),
         \A k \in DOMAIN f.subs : \A n \in Window(f, k) : Bit(v, n) => n < f.subs[k].len
  PROVE  \A n \in 0..(FieldLen(f) - 1) : n \in ValueBits(f, insn) <=> Bit(v, n)
<1>. SUFFICES ASSUME NEW n \in 0..(FieldLen(f) - 1)
              PROVE  n \in ValueBits(f, insn) <=> Bit(v, n)
  OBVIOUS
<1>0. f.subs \in Seq(Parts) /\ n \in Int /\ n >= 0
  BY SubsAre, FieldLenNat
<1>1. ASSUME NEW k \in DOMAIN f.subs
      PROVE  PartBits(f, k, v) = {m - Offset(f, k) + f.subs[k].pos :
               m \in {j \in Window(f, k) : j \in 0..(f.subs[k].len - 1) /\ Bit(v, j)}}
  BY DEF PartBits, BitsOf, Bit, Window
<1>2. ASSUME NEW k \in DOMAIN f.subs, NEW m \in Window(f, k)
      PROVE  m - Offset(f, k) + f.subs[k].pos \in PartMask(f.subs[k])
  <2>1. Offset(f, k) \in Nat /\ f.subs[k].len \in Nat /\ f.subs[k].pos \in Int
    BY <1>0, PartShape
  <2>. QED
    BY <1>2, <2>1 DEF Window, PartMask
<1>3. ASSUME Bit(v, n) PROVE n \in ValueBits(f, insn)
  <2>1. PICK k \in DOMAIN f.subs : n \in Window(f, k)
    BY <1>0, Gapless
  <2>2. n \in 0..(f.subs[k].len - 1)
    BY <1>0, <1>3, <2>1, PartShape
  <2>3. n - Offset(f, k) + f.subs[k].pos \in PartBits(f, k, v)
    BY <1>1, <1>3, <2>1, <2>2
  <2>4. n - Offset(f, k) + f.subs[k].pos \in insn
    BY <2>3 DEF str_encode
  <2>. QED
    BY <2>1, <2>4 DEF ValueBits, Window
<1>4. ASSUME n \in ValueBits(f, insn) PROVE Bit(v, n)
  <2>1. PICK k \in DOMAIN f.subs : /\ n \in Window(f, k)
                                   /\ n - Offset(f, k) + f.subs[k].pos \in insn
    BY <1>4 DEF ValueBits, Window
  <2>. DEFINE b == n - Offset(f, k) + f.subs[k].pos
  <2>2. b \in PartMask(f.subs[k])
    BY <1>2, <2>1
  <2>3. b \in str_encode(f, v)
    BY <2>1, <2>2 DEF FieldMask
  <2>4. PICK j \in DOMAIN f.subs : b \in PartBits(f, j, v)
    BY <2>3 DEF str_encode
  <2>5. PICK m \in Window(f, j) : Bit(v, m) /\ b = m - Offset(f, j) + f.subs[j].pos
    BY <1>1, <2>4
  <2>6. b \in PartMask(f.subs[j])
    BY <1>2, <2>5
  <2>7. j = k
    BY <2>2, <2>6 DEF FieldOK, PartsApart
  <2>8. m \in Int /\ Offset(f, k) \in Int /\ f.subs[k].pos \in Int
    BY <1>0, <2>5, <2>7, PartShape DEF Window
  <2>9. m = n
    BY <1>0, <2>5, <2>7, <2>8
  <2>. QED
    BY <2>5, <2>9
<1>. QED
  BY <1>3, <1>4

(* Whatever a field's parts are, a value that str_encode accepts comes out *)
(* of str_extract again, as long as a field of several parts is unsigned.  *)
THEOREM RoundTrip ==
  ASSUME NEW f, FieldOK(f), NEW v, Encodes(f, v),
         Len(f.subs) > 1 => ~ FieldSign(f),
         NEW insn, insn \intersect FieldMask(f) = str_encode(f, v)
  PROVE  str_extract(f, insn) = v
<1>. DEFINE ones == ValueBits(f, insn)
<1>1. PICK c \in Nat : /\ c = Len(f.subs) /\ DOMAIN f.subs = 1..c /\ c > 0
                      /\ f.subs \in Seq(Parts) /\ f.subs # <<>>
  <2>1. f.subs # <<>>
    BY DEF Encodes
  <2>. QED
    BY <2>1, SubsAre
<1>2. ASSUME NEW k \in 1..c
      PROVE  /\ Offset(f, k) \in Nat /\ f.subs[k].len \in Nat /\ f.subs[k].pos \in Int
             /\ InBits(v, f.subs[k].len, FieldSign(f))
  BY <1>1, PartShape DEF Encodes
<1>3. PICK o \in Nat, l \in Nat : o = Offset(f, 1) /\ l = f.subs[1].len /\ FieldLen(f) = o + l
  BY <1>1, <1>2 DEF FieldLen
<1>4. str_extract(f, insn) = Number(ones, o + l, FieldSign(f))
  BY <1>1, <1>3 DEF str_extract
<1>5. CASE ~ FieldSign(f)
  <2>1. \A k \in 1..c : v \in 0..(TwoTo[f.subs[k].len] - 1)
    BY <1>2, <1>5 DEF InBits
  <2>2. \A k \in DOMAIN f.subs : \A n \in Window(f, k) : Bit(v, n) => n < f.subs[k].len
    <3>. SUFFICES ASSUME NEW k \in 1..c, NEW n \in Window(f, k), Bit(v, n), ~ (n < f.subs[k].len)
                  PROVE  FALSE
      BY <1>1
    <3>1. n \in Nat /\ n >= f.subs[k].len
      BY <1>2 DEF Window
    <3>. QED
      BY <1>2, <2>1, <3>1, NoHighBit
  <2>3. \A n \in 0..(o + l - 1) : n \in ones <=> Bit(v, n)
    <3>1. \A n \in 0..(FieldLen(f) - 1) : n \in ones <=> Bit(v, n)
      BY <1>1, <2>2, BitsBack
    <3>. HIDE DEF ones
    <3>. QED
      BY <1>3, <3>1
  <2>4. v \in 0..(TwoTo[o + l] - 1)
    <3>1. TwoTo[l] <= TwoTo[o + l] /\ TwoTo[l] \in Nat /\ TwoTo[o + l] \in Nat /\ o + l \in Nat
      <4>1. o + l \in Nat /\ l <= o + l
        OBVIOUS
      <4>. QED
        BY <4>1, TwoToGrows, TwoToNat
    <3>2. v \in 0..(TwoTo[l] - 1)
      BY <1>1, <1>3, <2>1
    <3>. QED
      BY <3>1, <3>2
  <2>. HIDE DEF ones
  <2>5. o + l \in Nat
    OBVIOUS
  <2>. QED
    BY <1>4, <1>5, <2>3, <2>4, <2>5, UnsignedNumber
<1>6. CASE FieldSign(f)
  <2>1. c = 1
    BY <1>1, <1>6
  <2>2. o = 0
    BY <1>1, <1>3, <2>1, Offsets DEF OffsetIs
  <2>3. l > 0 /\ v \in (- TwoTo[l - 1])..(TwoTo[l - 1] - 1)
    BY <1>1, <1>2, <1>3, <1>6 DEF InBits
  <2>4. \A k \in DOMAIN f.subs : \A n \in Window(f, k) : Bit(v, n) => n < f.subs[k].len
    BY <1>1, <1>3, <2>1, <2>2 DEF Window
  <2>5. \A n \in 0..(l - 1) : n \in ones <=> Bit(v, n)
    <3>1. \A n \in 0..(FieldLen(f) - 1) : n \in ones <=> Bit(v, n)
      BY <1>1, <2>4, BitsBack
    <3>. HIDE DEF ones
    <3>. QED
      BY <1>3, <2>2, <3>1
  <2>. HIDE DEF ones
  <2>6. FieldSign(f) => Number(ones, l, FieldSign(f)) = v
    BY <2>3, <2>5, SignedNumber
  <2>7. o + l = l
    BY <2>2
  <2>. QED
    BY <1>4, <1>6, <2>6, <2>7
<1>. QED
  BY <1>5, <1>6

-----------------------------------------------------------------------------
(* What the generator has checked of a pattern: its format, and that one's *)
(* argument set, are there; no bit of the format's fields is fixed; and    *)
(* every argument has a field.                                             *)
Checked(p, fs, as) ==
  /\ p.fmt \in DOMAIN fs
  /\ MaskOf(fs[p.fmt].flds) \intersect p.mask = {}
  /\ ArgNames(as[fs[p.fmt].base]) \subseteq Names(p.flds) \union Names(fs[p.fmt].flds)

OperandInv ==
  /\ IsSeq(arguments) /\ \A k \in DOMAIN arguments : IsSeq(arguments[k].fields)
  /\ cur.arg \in {0} \union DOMAIN arguments
  /\ \A k \in DOMAIN formats : formats[k].base \in DOMAIN arguments
  /\ \A i \in DOMAIN pats : pats[i].kind = "pattern" => Checked(pats[i], formats, arguments)

Grown(s, r) == DOMAIN s \subseteq DOMAIN r /\ \A k \in DOMAIN s : r[k] = s[k]

LEMMA CheckedStays ==
  ASSUME NEW p, NEW fs, NEW as, NEW fs2, NEW as2, Checked(p, fs, as),
         Grown(fs, fs2), Grown(as, as2), fs[p.fmt].base \in DOMAIN as
  PROVE  Checked(p, fs2, as2)
BY DEF Checked, Grown

LEMMA OperandStays ==
  ASSUME OperandInv, IsSeq(arguments'), \A k \in DOMAIN arguments' : IsSeq(arguments'[k].fields),
         Grown(arguments, arguments'), Grown(formats, formats'),
         pats' = pats, cur'.arg \in {0} \union DOMAIN arguments',
         \A k \in DOMAIN formats' : k \in DOMAIN formats \/ formats'[k].base \in DOMAIN arguments'
  PROVE  OperandInv'
<1>1. \A k \in DOMAIN formats' : formats'[k].base \in DOMAIN arguments'
  BY DEF OperandInv, Grown
<1>2. ASSUME NEW i \in DOMAIN pats, pats[i].kind = "pattern"
      PROVE  Checked(pats[i], formats', arguments')
  <2>1. Checked(pats[i], formats, arguments) /\ formats[pats[i].fmt].base \in DOMAIN arguments
    BY <1>2 DEF OperandInv, Checked
  <2>. QED
    BY <2>1, CheckedStays
<1>. QED
  BY <1>1, <1>2 DEF OperandInv

LEMMA GrownSelf == ASSUME NEW s PROVE Grown(s, s)
BY DEF Grown

LEMMA GrownAppend ==
  ASSUME NEW s, IsSeq(s), NEW e
  PROVE  /\ Grown(s, Append(s, e)) /\ IsSeq(Append(s, e))
         /\ DOMAIN Append(s, e) = DOMAIN s \union {Len(s) + 1}
         /\ Append(s, e)[Len(s) + 1] = e
<1>1. /\ IsSeq(Append(s, e)) /\ Len(s) \in Nat /\ DOMAIN s = 1..Len(s)
      /\ DOMAIN Append(s, e) = 1..(Len(s) + 1) /\ Append(s, e)[Len(s) + 1] = e
      /\ \A k \in DOMAIN s : Append(s, e)[k] = s[k]
  BY AppendSeq
<1>. QED
  BY <1>1 DEF Grown

(* The argument set of a line is there once the line is parsed.            *)
LEMMA SetAdded ==
  ASSUME OperandInv, NEW a, IsSeq(a.fields)
  PROVE  \A k \in DOMAIN Append(arguments, a) : IsSeq(Append(arguments, a)[k].fields)
<1>1. IsSeq(arguments) /\ \A k \in DOMAIN arguments : IsSeq(arguments[k].fields)
  BY DEF OperandInv
<1>2. \A k \in DOMAIN Append(arguments, a) :
        k \in DOMAIN arguments \/ Append(arguments, a)[k] = a
  BY <1>1, GrownAppend
<1>3. \A k \in DOMAIN arguments : Append(arguments, a)[k] = arguments[k]
  BY <1>1, GrownAppend DEF Grown
<1>. QED
  BY <1>1, <1>2, <1>3

LEMMA BaseThere ==
  ASSUME OperandInv, FieldInv
  PROVE  /\ IsSeq(ArgumentsAfter) /\ Grown(arguments, ArgumentsAfter)
         /\ \A k \in DOMAIN ArgumentsAfter : IsSeq(ArgumentsAfter[k].fields)
         /\ base \in DOMAIN ArgumentsAfter
<1>1. IsSeq(arguments) /\ cur.arg \in {0} \union DOMAIN arguments
  BY DEF OperandInv
<1>2. CASE Infers
  <2>1. PICK a : ArgumentsAfter = Append(arguments, a) /\ IsSeq(a.fields)
    <3>1. PICK a, ns : /\ a = ArgumentSet("", ns, TRUE)
                       /\ ns = [k \in DOMAIN cur.flds |-> cur.flds[k].name]
      OBVIOUS
    <3>2. IsSeq(ns)
      <4>1. Len(cur.flds) \in Nat /\ DOMAIN cur.flds = 1..Len(cur.flds)
        BY IsSeqLen DEF FieldInv, FldsOK
      <4>. QED
        BY <3>1, <4>1, IsSeqFcn
    <3>3. a.fields = ns
      BY <3>1 DEF ArgumentSet
    <3>. QED
      BY <1>2, <3>1, <3>2, <3>3 DEF ArgumentsAfter
  <2>2. base = Len(arguments) + 1
    BY <1>2 DEF Infers, base
  <2>. QED
    BY <1>1, <2>1, <2>2, GrownAppend, SetAdded
<1>3. CASE ~ Infers
  <2>1. ArgumentsAfter = arguments
    BY <1>3 DEF ArgumentsAfter
  <2>2. base \in DOMAIN arguments
    <3>1. CASE cur.arg # 0
      BY <1>1, <3>1 DEF base
    <3>2. CASE cur.arg = 0 /\ argFits # {}
      <4>1. argFits \in SUBSET Nat /\ argFits \subseteq DOMAIN arguments
        BY <1>1, IsSeqLen DEF argFits
      <4>2. \E k \in argFits : \A j \in argFits : k <= j
        BY <3>2, <4>1, NatMin
      <4>. HIDE DEF argFits
      <4>3. First(argFits) \in argFits
        BY <4>2 DEF First
      <4>. QED
        BY <3>2, <4>1, <4>3 DEF base
    <3>. QED
      BY <1>3, <3>1, <3>2 DEF Infers
  <2>. QED
    BY <1>1, <2>1, <2>2, GrownSelf DEF OperandInv
<1>. QED
  BY <1>2, <1>3

LEMMA AfterArg ==
  ASSUME IndInv, NEW tok, NEW c \in After(tok)
  PROVE  c.arg = cur.arg \/ c.arg \in DOMAIN arguments
<1>1. DOMAIN cur = {"kind", "name", "mask", "bits", "undef", "width", "flds", "arg", "fmt"}
  BY DEF IndInv, Shapes, NoLine
<1>2. ASSUME NEW nm, NEW f, NEW d \in WithField(nm, f)
      PROVE  d.arg = cur.arg /\ DOMAIN d = DOMAIN cur
  BY <1>1, <1>2 DEF WithField
<1>3. CASE tok.kind = "&"
  BY <1>1, <1>3 DEF After, At
<1>4. CASE tok.kind = "@"
  BY <1>1, <1>4 DEF After
<1>5. CASE tok.kind \in {"%", "import"}
  <2>1. PICK k \in DOMAIN fields : c \in WithField(tok.name, fields[k].f)
    BY <1>5 DEF After, At
  <2>. QED
    BY <1>2, <2>1
<1>6. CASE tok.kind = "const"
  <2>1. c \in WithField(tok.name, Const(tok.val))
    BY <1>6 DEF After
  <2>. QED
    BY <1>2, <2>1
<1>7. CASE tok.kind = "span"
  <2>1. PICK f : f = FieldIn(<<Part(Width - cur.width - tok.len, tok.len, tok.sign)>>, "")
    OBVIOUS
  <2>2. PICK d : d \in WithField(tok.name, f) /\ c = [d EXCEPT !.width = @ + tok.len]
    BY <1>7, <2>1 DEF After
  <2>3. d.arg = cur.arg /\ DOMAIN d = DOMAIN cur
    BY <1>2, <2>2
  <2>. QED
    BY <1>1, <2>2, <2>3
<1>8. CASE tok.kind = "bits"
  BY <1>1, <1>8 DEF After
<1>. QED
  BY <1>3, <1>4, <1>5, <1>6, <1>7, <1>8 DEF After

(* The format a pattern gets, and what has been checked of the two.        *)
LEMMA FormatThere ==
  ASSUME IndInv, OperandInv
  PROVE  /\ Grown(formats, FormatsAfter)
         /\ format \in DOMAIN FormatsAfter
         /\ \A k \in DOMAIN FormatsAfter :
              k \in DOMAIN formats \/ (NewFormat /\ FormatsAfter[k].base = base)
         /\ ~ NewFormat => format \in DOMAIN formats /\ FormatsAfter = formats
<1>1. IsSeq(formats) /\ cur.fmt \in 0..Len(formats) /\ DOMAIN formats = 1..Len(formats)
  BY IsSeqLen DEF IndInv, TypeOK, CurOK, Shapes
<1>2. CASE NewFormat
  <2>1. PICK F : FormatsAfter = Append(formats, F) /\ F.base = base
    <3>1. PICK F : F = Format("", base, NoLine, cur.flds)
      OBVIOUS
    <3>2. F.base = base
      BY <3>1 DEF Format
    <3>. QED
      BY <1>2, <3>1, <3>2 DEF FormatsAfter
  <2>2. format = Len(formats) + 1
    BY <1>2 DEF NewFormat, format
  <2>. QED
    BY <1>1, <1>2, <2>1, <2>2, GrownAppend
<1>3. CASE ~ NewFormat
  <2>1. FormatsAfter = formats
    BY <1>3 DEF FormatsAfter
  <2>2. format \in DOMAIN formats
    <3>1. CASE cur.fmt # 0
      BY <1>1, <3>1 DEF format
    <3>2. CASE cur.fmt = 0
      <4>1. First(fmtFits) \in fmtFits
        BY <1>3, <3>2, FirstFits DEF NewFormat
      <4>. QED
        BY <1>3, <3>2, <4>1 DEF NewFormat, format, fmtFits, alike
    <3>. QED
      BY <3>1, <3>2
  <2>. QED
    BY <1>3, <2>1, <2>2, GrownSelf
<1>. QED
  BY <1>2, <1>3

LEMMA PatternChecked ==
  ASSUME IndInv, FieldInv, OperandInv, ParsePattern
  PROVE  Checked(Pattern, FormatsAfter, arguments')
<1>1. /\ Pattern.fmt = format
      /\ arguments' = IF NewFormat THEN ArgumentsAfter ELSE arguments
      /\ SetsArguments(ArgumentsAfter[FormatsAfter[format].base],
                       Names(Pattern.flds), Names(FormatsAfter[format].flds))
      /\ SoundMasks(Pattern, PatternFields)
  BY DEF ParsePattern, AcceptsPattern, Pattern
<1>2. arguments'[FormatsAfter[format].base] = ArgumentsAfter[FormatsAfter[format].base]
  <2>1. CASE NewFormat
    BY <1>1, <2>1
  <2>2. CASE ~ NewFormat
    <3>1. FormatsAfter[format].base \in DOMAIN arguments
      BY <2>2, FormatThere DEF OperandInv
    <3>. QED
      BY <1>1, <2>2, <3>1, BaseThere DEF Grown
  <2>. QED
    BY <2>1, <2>2
<1>3. MaskOf(FormatsAfter[format].flds) \subseteq PatternFields
  <2>1. CASE cur.fmt # 0
    BY <2>1, FormatIs DEF PatternFields
  <2>2. CASE cur.fmt = 0 /\ fmtFits # {}
    <3>1. First(fmtFits) \in fmtFits
      BY <2>2, FirstFits
    <3>2. MaskOf(formats[First(fmtFits)].flds) = MaskOf(cur.flds)
      BY <3>1 DEF fmtFits, alike
    <3>. QED
      BY <2>2, <3>2, FormatIs DEF PatternFields
  <2>3. CASE cur.fmt = 0 /\ fmtFits = {}
    BY <2>3, FormatIs DEF PatternFields
  <2>. QED
    BY <2>1, <2>2, <2>3
<1>4. MaskOf(FormatsAfter[format].flds) \intersect Pattern.mask = {}
  BY <1>1, <1>3 DEF SoundMasks
<1>5. ArgNames(arguments'[FormatsAfter[format].base])
        \subseteq Names(Pattern.flds) \union Names(FormatsAfter[format].flds)
  BY <1>1, <1>2 DEF SetsArguments
<1>. QED
  BY <1>1, <1>4, <1>5, FormatThere DEF Checked

LEMMA PatternInd ==
  ASSUME IndInv, FieldInv, OperandInv, ParsePattern
  PROVE  OperandInv'
<1>1. /\ arguments' = IF NewFormat THEN ArgumentsAfter ELSE arguments
      /\ formats' = FormatsAfter /\ pats' = Append(pats, Pattern) /\ cur' = cur
  BY DEF ParsePattern
<1>2. IsSeq(arguments) /\ IsSeq(pats)
  BY DEF OperandInv, IndInv, Shapes
<1>3. /\ IsSeq(arguments') /\ Grown(arguments, arguments')
      /\ \A k \in DOMAIN arguments' : IsSeq(arguments'[k].fields)
      /\ NewFormat => base \in DOMAIN arguments'
  BY <1>1, <1>2, BaseThere, GrownSelf DEF OperandInv
<1>4. Grown(formats, formats')
  BY <1>1, FormatThere
<1>5. \A k \in DOMAIN formats' : formats'[k].base \in DOMAIN arguments'
  BY <1>1, <1>3, <1>4, FormatThere DEF Grown, OperandInv
<1>6. Checked(Pattern, formats', arguments')
  BY <1>1, PatternChecked
<1>7. ASSUME NEW i \in DOMAIN pats', pats'[i].kind = "pattern"
      PROVE  Checked(pats'[i], formats', arguments')
  <2>1. (i \in DOMAIN pats /\ pats'[i] = pats[i]) \/ pats'[i] = Pattern
    BY <1>1, <1>2, GrownAppend DEF Grown
  <2>2. CASE i \in DOMAIN pats /\ pats'[i] = pats[i]
    <3>1. Checked(pats[i], formats, arguments) /\ formats[pats[i].fmt].base \in DOMAIN arguments
      BY <1>7, <2>2 DEF OperandInv, Checked
    <3>2. Checked(pats[i], formats', arguments')
      BY <1>3, <1>4, <3>1, CheckedStays
    <3>. QED
      BY <2>2, <3>2
  <2>. QED
    BY <1>6, <2>1, <2>2
<1>8. cur'.arg \in {0} \union DOMAIN arguments'
  BY <1>1, <1>3 DEF OperandInv, Grown
<1>. QED
  BY <1>3, <1>5, <1>7, <1>8 DEF OperandInv

LEMMA OperandInit == Init => OperandInv
<1>. SUFFICES ASSUME Init PROVE OperandInv
  OBVIOUS
<1>1. arguments = <<>> /\ formats = <<>> /\ pats = <<>> /\ cur.arg = 0
  BY DEF Init, NoLine
<1>2. IsSeq(<<>>) /\ DOMAIN <<>> = {}
  BY NoFields
<1>. QED
  BY <1>1, <1>2 DEF OperandInv

LEMMA OperandStep == IndInv /\ FieldInv /\ OperandInv /\ [Generate]_vars => OperandInv'
<1>. SUFFICES ASSUME IndInv, FieldInv, OperandInv, [Generate]_vars PROVE OperandInv'
  OBVIOUS
<1>0. IsSeq(arguments) /\ IsSeq(formats) /\ IsSeq(pats) /\ cur.arg \in {0} \union DOMAIN arguments
  BY DEF IndInv, Shapes, OperandInv
<1>1. ASSUME UNCHANGED <<arguments, formats, pats>>, cur'.arg \in {0} \union DOMAIN arguments
      PROVE  OperandInv'
  BY <1>0, <1>1 DEF OperandInv
<1>2. ASSUME UNCHANGED <<arguments, formats, pats, cur>>
      PROVE  OperandInv'
  BY <1>0, <1>1, <1>2
<1>3. CASE OpenGroup
  <2>1. PICK G : pats' = Append(pats, G) /\ G.kind # "pattern"
    <3>1. PICK kind \in {"inc", "exc"} : pats' = Append(pats, Group(kind))
      BY <1>3 DEF OpenGroup
    <3>2. Group(kind).kind = kind
      BY DEF Group
    <3>. QED
      BY <3>1, <3>2
  <2>2. UNCHANGED <<arguments, formats, cur>>
    BY <1>3 DEF OpenGroup, declVars
  <2>3. \A i \in DOMAIN pats' : (i \in DOMAIN pats /\ pats'[i] = pats[i]) \/ pats'[i] = G
    BY <1>0, <2>1, GrownAppend DEF Grown
  <2>. QED
    BY <2>1, <2>2, <2>3 DEF OperandInv
<1>4. CASE ParseArguments
  <2>1. PICK a : arguments' = Append(arguments, a) /\ IsSeq(a.fields)
    <3>1. PICK a, ns : /\ a = ArgumentSet(name.name, ns, \A k \in 2..Len(toks) : toks[k].kind = "name")
                       /\ ns = [k \in 1..(Len(toks) - 1) |-> toks[k + 1].name]
      OBVIOUS
    <3>2. Len(toks) - 1 \in Nat
      <4>1. toks \in Seq(Token) /\ toks # <<>>
        BY <1>4 DEF IndInv, TypeOK, FileOK, Shapes, ParseArguments, Starts, Declares
      <4>. QED
        BY <4>1
    <3>3. IsSeq(ns)
      BY <3>1, <3>2, IsSeqFcn
    <3>4. a.fields = ns
      BY <3>1 DEF ArgumentSet
    <3>. QED
      BY <1>4, <3>1, <3>3, <3>4 DEF ParseArguments
  <2>2. UNCHANGED <<formats, pats, cur>>
    BY <1>4 DEF ParseArguments
  <2>3. IsSeq(arguments') /\ Grown(arguments, arguments') /\ DOMAIN arguments \subseteq DOMAIN arguments'
    BY <1>0, <2>1, GrownAppend DEF Grown
  <2>. QED
    BY <1>0, <2>1, <2>2, <2>3, SetAdded, GrownSelf, OperandStays
<1>5. CASE StartGeneric
  <2>1. UNCHANGED <<arguments, formats, pats>>
    BY <1>5 DEF StartGeneric, declVars
  <2>2. cur'.arg = 0
    BY <1>5 DEF StartGeneric, NoLine
  <2>. QED
    BY <1>1, <2>1, <2>2
<1>6. CASE TakeToken
  <2>1. UNCHANGED <<arguments, formats, pats>>
    BY <1>6 DEF TakeToken, declVars
  <2>2. cur'.arg = cur.arg \/ cur'.arg \in DOMAIN arguments
    BY <1>6, AfterArg DEF TakeToken
  <2>. QED
    BY <1>0, <1>1, <2>1, <2>2
<1>7. CASE ParseFormat
  <2>1. PICK F : formats' = Append(formats, F) /\ F.base = base
    <3>1. PICK F : F = Format(cur.name, base, cur, cur.flds)
      OBVIOUS
    <3>2. F.base = base
      BY <3>1 DEF Format
    <3>. QED
      BY <1>7, <3>1, <3>2 DEF ParseFormat
  <2>2. arguments' = ArgumentsAfter /\ pats' = pats /\ cur' = cur
    BY <1>7 DEF ParseFormat
  <2>3. /\ IsSeq(arguments') /\ Grown(arguments, arguments') /\ base \in DOMAIN arguments'
        /\ \A k \in DOMAIN arguments' : IsSeq(arguments'[k].fields)
    BY <2>2, BaseThere
  <2>4. /\ Grown(formats, formats')
        /\ \A k \in DOMAIN formats' : k \in DOMAIN formats \/ formats'[k].base = base
    BY <1>0, <2>1, GrownAppend
  <2>5. cur'.arg \in {0} \union DOMAIN arguments'
    BY <1>0, <2>2, <2>3 DEF Grown
  <2>. QED
    BY <2>2, <2>3, <2>4, <2>5, OperandStays
<1>8. CASE ParsePattern
  BY <1>8, PatternInd
<1>9. CASE stage = "masks" /\ Settle
  <2>1. UNCHANGED <<arguments, formats, cur>> /\ DOMAIN pats' = DOMAIN pats
    BY <1>9 DEF Settle, declVars
  <2>2. work.group \in Groups
    BY <1>9 DEF Settle, IndInv, WorkOK
  <2>3. ASSUME NEW i \in DOMAIN pats, pats'[i].kind = "pattern"
        PROVE  pats'[i] = pats[i]
    <3>1. DOMAIN pats[i] = NodeFields
      BY DEF IndInv, Shapes
    <3>2. pats'[i].kind = pats[i].kind
      BY <1>9, <3>1 DEF Settle, NodeFields
    <3>3. i # work.group
      BY <2>2, <2>3, <3>2 DEF Groups
    <3>. QED
      BY <1>9, <3>3 DEF Settle
  <2>4. \A i \in DOMAIN pats' : pats'[i].kind = "pattern" => Checked(pats'[i], formats, arguments)
    BY <2>1, <2>3 DEF OperandInv
  <2>. QED
    BY <2>1, <2>4 DEF OperandInv
<1>. QED
  BY <1>2, <1>3, <1>4, <1>5, <1>6, <1>7, <1>8, <1>9
     DEF Generate, Parse, SkipLine, MisplacedComment, ReadLine, EndOfFile,
         CloseGroup, BadGroup, BadDeclaration, ParseField, BadFieldOrArguments, BadToken,
         BadLine, Fail, StartProp, PropMasks, EnterGroup, EmptyGroup, Widen,
         StartBuild, BuildTree, Split, SoleLeaf, Overlap, FinishBuild,
         vars, parseVars, fileVars, declVars

-----------------------------------------------------------------------------
(* The file's part of the state, and that it stays as it is once built.    *)
FileInv == GroupInv /\ FieldInv /\ OperandInv

LEMMA FileInit == ToolsInit => FileInv
BY GroupInit, FieldInit, OperandInit DEF ToolsInit, FileInv

LEMMA FileStep == FileInv /\ [Generate]_vars => FileInv'
BY GroupStep, FieldStep, OperandStep DEF FileInv, GroupInv

LEMMA Finished ==
  ASSUME stage \in {"built", "error"}
  PROVE  ~ Generate
BY DEF Generate, Parse, SkipLine, MisplacedComment, ReadLine, EndOfFile, OpenGroup,
       CloseGroup, BadGroup, BadDeclaration, ParseField, ParseArguments, BadFieldOrArguments,
       StartGeneric, TakeToken, BadToken, ParseFormat, ParsePattern, BadLine, Starts, Declares,
       Ends, StartProp, PropMasks, StartBuild, BuildTree, FinishBuild

(* The file's state in the steps of the tools: only the generator changes  *)
(* it, but for the stage when a backend cannot be made.                    *)
LEMMA ErrorStays ==
  ASSUME FileInv, UNCHANGED <<parseVars, treeVars>>, stage' = "error"
  PROVE  FileInv'
<1>1. UNCHANGED <<nesting, fields, arguments, formats, cur, pats, unset, work>>
  BY DEF parseVars, treeVars
<1>2. IndInv'
  BY StageInd DEF FileInv, GroupInv
<1>3. Nested'
  <2>1. nesting \in Seq(DOMAIN pats) /\ \A i \in DOMAIN pats : pats[i].parent \in 0..(i - 1)
    BY DEF FileInv, GroupInv, IndInv, TypeOK, NodesOK
  <2>2. DOMAIN pats = 1..Len(pats) /\ Len(pats) \in Nat
    BY IsSeqLen DEF FileInv, GroupInv, IndInv, Shapes
  <2>3. \A k \in DOMAIN nesting : nesting[k] \in DOMAIN pats
    BY <2>1
  <2>4. \A i \in DOMAIN pats : pats[i].parent # 0 => pats[i].parent \in DOMAIN pats
    BY <2>1, <2>2
  <2>. QED
    BY <1>1, <2>3, <2>4, NestedRest DEF FileInv, GroupInv
<1>4. Widening'
  BY <1>1, WideningRest DEF FileInv, GroupInv
<1>5. FieldInv'
  BY <1>1 DEF FileInv, FieldInv
<1>6. OperandInv'
  BY <1>1 DEF FileInv, OperandInv
<1>. QED
  BY <1>2, <1>3, <1>4, <1>5, <1>6 DEF FileInv, GroupInv

-----------------------------------------------------------------------------
(* A file that the backends can use has no groups, so that all patterns    *)
(* are entries, told apart by a bit that both fix.                         *)
LEMMA NoGroups ==
  ASSUME FileInv, stage = "built", \A l \in entries : pats[l.pat].kind = "pattern"
  PROVE  /\ \A l \in leaves : l.pat \in DOMAIN pats
         /\ \A i \in DOMAIN pats : \E l \in entries : l.pat = i
         /\ \A i, j \in DOMAIN pats : i = j \/ Apart(i, j)
<1>1. /\ todo = {} /\ leaves \subseteq Leaves
      /\ \A i \in DOMAIN pats : pats[i].parent \in 0..(i - 1)
      /\ DOMAIN pats = 1..Len(pats) /\ Len(pats) \in Nat
  BY IsSeqLen DEF FileInv, GroupInv, IndInv, Quiet, TypeOK, TreesOK, NodesOK, Shapes
<1>2. \A i \in Children(0) : \E l \in entries : l.pat = i
  BY <1>1 DEF FileInv, GroupInv, IndInv, TreeInv, Covered, ExcGroups, entries
<1>3. \A i, j \in Children(0) : i = j \/ Apart(i, j)
  BY <1>1 DEF FileInv, GroupInv, IndInv, TreeInv, Separated, ExcGroups
<1>4. \A i \in Children(0) : pats[i].kind = "pattern"
  BY <1>2
<1>5. Children(0) = DOMAIN pats
  <2>. SUFFICES ASSUME {i \in DOMAIN pats : pats[i].parent # 0} # {} PROVE FALSE
    BY DEF Children
  <2>. DEFINE Inner == {i \in DOMAIN pats : pats[i].parent # 0}
  <2>1. Inner \in SUBSET Nat
    BY <1>1
  <2>2. PICK i \in Inner : \A j \in Inner : i <= j
    BY <2>1, NatMin
  <2>3. /\ pats[i].parent \in DOMAIN pats /\ pats[i].parent < i
        /\ pats[pats[i].parent].kind # "pattern"
    BY <1>1, <2>2 DEF FileInv, GroupInv, Nested
  <2>4. pats[i].parent \notin Inner
    BY <1>1, <2>2, <2>3
  <2>5. pats[i].parent \in Children(0)
    BY <2>3, <2>4 DEF Children
  <2>. QED
    BY <1>4, <2>3, <2>5
<1>6. \A l \in leaves : l.pat \in DOMAIN pats
  BY <1>1 DEF Leaves
<1>. QED
  BY <1>2, <1>3, <1>5, <1>6

-----------------------------------------------------------------------------
(* What is written for an argument set, name by name.                      *)
SetMade(B, k, a) ==
  /\ B.args = [n \in DOMAIN B.args |-> B.args[n]] /\ DOMAIN B.args = DOMAIN a.fields
  /\ \A n \in DOMAIN a.fields : B.args[n].name = a.fields[n]
  /\ B.ops = Mnemonics(k)
  /\ B.encodes <=> OwnFormat(a) # {}
  /\ B.flds = IF OwnFormat(a) = {} THEN <<>> ELSE formats[First(OwnFormat(a))].flds
  /\ B.target = IF LabelFields(a) = {} THEN "" ELSE target(a)
  /\ B.limit = Limit(a)

LEMMA SetHas ==
  ASSUME NEW k
  PROVE  SetMade(SetBackend(k), k, arguments[k])
<1>. DEFINE a == arguments[k]
            A == [n \in DOMAIN a.fields |-> [name |-> a.fields[n], as |-> Kind(a.fields[n])]]
            O == Mnemonics(k)
            F == Falls(Place(k))
            E == OwnFormat(a) # {}
            D == IF OwnFormat(a) = {} THEN <<>> ELSE formats[First(OwnFormat(a))].flds
            T == IF LabelFields(a) = {} THEN "" ELSE target(a)
            L == Limit(a)
<1>1. SetBackend(k) = [args |-> A, ops |-> O, falls |-> F, encodes |-> E, flds |-> D,
                       target |-> T, limit |-> L]
  BY DEF SetBackend
<1>. HIDE DEF A, O, F, E, D, T, L
<1>2. /\ SetBackend(k).args = A /\ SetBackend(k).ops = O /\ SetBackend(k).encodes = E
      /\ SetBackend(k).flds = D /\ SetBackend(k).target = T /\ SetBackend(k).limit = L
  BY <1>1
<1>3. A = [n \in DOMAIN A |-> A[n]] /\ DOMAIN A = DOMAIN a.fields
  BY DEF A
<1>4. ASSUME NEW n \in DOMAIN a.fields PROVE A[n].name = a.fields[n]
  <2>1. A[n] = [name |-> a.fields[n], as |-> Kind(a.fields[n])]
    BY DEF A
  <2>. QED
    BY <2>1
<1>5. SetBackend(k).encodes <=> OwnFormat(a) # {}
  BY <1>2, Zenon DEF E
<1>. QED
  BY <1>2, <1>3, <1>4, <1>5 DEF SetMade, O, D, T, L

(* What is used of a backend: the set of a mnemonic is that of a pattern   *)
(* of this name, and describes its arguments and the format that encodes   *)
(* them; the opcode of a name is what the tree has tested.                 *)
InstrOf(b) == UNION {b.sets[k].ops : k \in DOMAIN b.sets}
SetIn(b, op) == CHOOSE k \in DOMAIN b.sets :
                  op \in b.sets[k].ops /\ \A j \in 1..(k - 1) : op \notin b.sets[j].ops
ArgsIn(b, op) ==
  {b.sets[SetIn(b, op)].args[n].name : n \in DOMAIN b.sets[SetIn(b, op)].args}

Describes(B, k) ==
  /\ IsSeq(B.args)
  /\ {B.args[n].name : n \in DOMAIN B.args} = ArgNames(arguments[k])
  /\ B.limit # 0 => B.target \in label_fields
  /\ B.encodes => /\ OwnFormat(arguments[k]) # {}
                  /\ B.flds = formats[First(OwnFormat(arguments[k]))].flds

HasPattern(op, k) ==
  \E i \in DOMAIN pats : /\ pats[i].kind = "pattern" /\ pats[i].name = op
                        /\ formats[pats[i].fmt].base = k

BackendOK(b) ==
  /\ b.atomPerInsn = atomPerInsn
  /\ \A l \in entries : pats[l.pat].kind = "pattern"
  /\ \A op \in InstrOf(b) :
       \E k \in DOMAIN arguments : HasPattern(op, k) /\ Describes(b.sets[SetIn(b, op)], k)
  /\ \A l \in entries : b.opcode[pats[l.pat].name] = Opcode(pats[l.pat].name)

LEMMA SetDescribes ==
  ASSUME OperandInv, NEW k \in DOMAIN arguments
  PROVE  Describes(SetBackend(k), k)
<1>1. PICK a : a = arguments[k] /\ IsSeq(a.fields)
  BY DEF OperandInv
<1>2. PICK B : B = SetBackend(k)
  OBVIOUS
<1>3. SetMade(B, k, a)
  BY <1>1, <1>2, SetHas
<1>4. B.encodes => OwnFormat(a) # {} /\ B.flds = formats[First(OwnFormat(a))].flds
  BY <1>3, Zenon DEF SetMade
<1>5. IsSeq(B.args)
  <2>1. DOMAIN a.fields = 1..Len(a.fields) /\ Len(a.fields) \in Nat
    BY <1>1, IsSeqLen
  <2>2. DOMAIN B.args = DOMAIN a.fields /\ B.args = [n \in DOMAIN B.args |-> B.args[n]]
    BY <1>3 DEF SetMade
  <2>. QED
    BY <2>1, <2>2, IsSeqFcn
<1>6. {B.args[n].name : n \in DOMAIN B.args} = ArgNames(a)
  <2>1. DOMAIN B.args = DOMAIN a.fields /\ \A n \in DOMAIN a.fields : B.args[n].name = a.fields[n]
    BY <1>3 DEF SetMade
  <2>. QED
    BY <2>1 DEF ArgNames
<1>7. B.limit # 0 => B.target \in label_fields
  BY <1>3 DEF SetMade, Limit, target, LabelFields
<1>8. Describes(B, k)
  BY <1>1, <1>4, <1>5, <1>6, <1>7, Zenon DEF Describes
<1>. QED
  BY <1>2, <1>8

LEMMA BackendMade ==
  ASSUME OperandInv, Readable, NEW b, b = Backend
  PROVE  BackendOK(b)
<1>1. /\ b.sets = [p \in DOMAIN Sorted |-> SetBackend(Sorted[p])]
      /\ b.opcode = [n \in {pats[l.pat].name : l \in entries} |-> Opcode(n)]
      /\ b.atomPerInsn = atomPerInsn
  BY DEF Backend
<1>2. DOMAIN b.sets = 1..Len(arguments) /\ Len(arguments) \in Nat
  BY <1>1, IsSeqLen DEF Sorted, OperandInv
<1>3. ASSUME NEW op \in InstrOf(b)
      PROVE  \E k \in DOMAIN arguments : HasPattern(op, k) /\ Describes(b.sets[SetIn(b, op)], k)
  <2>. DEFINE Having == {p \in DOMAIN b.sets : op \in b.sets[p].ops}
  <2>1. Having \in SUBSET Nat /\ Having # {}
    BY <1>2, <1>3 DEF InstrOf
  <2>2. PICK p \in Having : \A q \in Having : p <= q
    BY <2>1, NatMin
  <2>3. \A j \in 1..(p - 1) : op \notin b.sets[j].ops
    BY <1>2, <2>2
  <2>4. SetIn(b, op) \in DOMAIN b.sets /\ op \in b.sets[SetIn(b, op)].ops
    BY <2>2, <2>3 DEF SetIn
  <2>5. PICK k : k = Sorted[SetIn(b, op)] /\ b.sets[SetIn(b, op)] = SetBackend(k)
    BY <1>1, <2>4
  <2>6. op \in Mnemonics(k)
    BY <2>4, <2>5, SetHas DEF SetMade
  <2>7. HasPattern(op, k)
    BY <2>6 DEF Mnemonics, HasPattern
  <2>8. k \in DOMAIN arguments
    BY <2>7 DEF HasPattern, OperandInv, Checked
  <2>. QED
    BY <2>5, <2>7, <2>8, SetDescribes
<1>4. \A l \in entries : b.opcode[pats[l.pat].name] = Opcode(pats[l.pat].name)
  BY <1>1
<1>. QED
  BY <1>1, <1>3, <1>4 DEF BackendOK, Readable

(* It depends on the file only.                                            *)
LEMMA BackendStays ==
  ASSUME UNCHANGED <<parseVars, treeVars>>, NEW b
  PROVE  BackendOK(b)' <=> BackendOK(b)
<1>1. UNCHANGED <<arguments, formats, pats, leaves>>
  BY DEF parseVars, treeVars
<1>2. entries' = entries
  BY <1>1 DEF entries
<1>3. \A n : Opcode(n)' = Opcode(n)
  BY <1>1, <1>2 DEF Opcode
<1>4. \A op, k : HasPattern(op, k)' <=> HasPattern(op, k)
  BY <1>1 DEF HasPattern
<1>5. \A a : OwnFormat(a)' = OwnFormat(a)
  BY <1>1 DEF OwnFormat, At
<1>6. \A B, k : Describes(B, k)' <=> Describes(B, k)
  BY <1>1, <1>5 DEF Describes
<1>. QED
  BY <1>1, <1>2, <1>3, <1>4, <1>6 DEF BackendOK

-----------------------------------------------------------------------------
(* One instruction.                                                        *)
LEMMA EncodedIn ==
  ASSUME NEW f, FieldOK(f), NEW v
  PROVE  str_encode(f, v) \subseteq FieldMask(f)
<1>1. ASSUME NEW k \in DOMAIN f.subs, NEW b \in PartBits(f, k, v)
      PROVE  b \in PartMask(f.subs[k])
  <2>1. Offset(f, k) \in Nat /\ f.subs[k].len \in Nat /\ f.subs[k].pos \in Int
    BY PartShape DEF FieldOK
  <2>2. PICK n \in Window(f, k) : b = n - Offset(f, k) + f.subs[k].pos
    BY DEF PartBits, Window
  <2>. QED
    BY <2>1, <2>2 DEF Window, PartMask
<1>. QED
  BY <1>1 DEF str_encode, FieldMask

(* The opcode is what the one pattern of that name fixes.                  *)
LEMMA OpcodeIs ==
  ASSUME FileInv, stage = "built", Invertible, NEW b, BackendOK(b),
         NEW p \in DOMAIN pats, NEW op, pats[p].name = op
  PROVE  b.opcode[op] = pats[p].bits \intersect pats[p].mask
<1>1. PICK e \in entries : e.pat = p
  BY NoGroups DEF BackendOK
<1>2. \A l \in entries : pats[l.pat].name = op <=> l.pat = p
  BY <1>1 DEF Invertible
<1>3. \A l \in entries : l.pat = p => Labels(l.path) = pats[p].bits \intersect pats[p].mask
  BY DEF FileInv, GroupInv, IndInv, TreeInv, LeavesExact, GroupBits, entries
<1>4. b.opcode[op] = Opcode(op)
  BY <1>1 DEF BackendOK
<1>5. Opcode(op) = UNION {Labels(l.path) : l \in {m \in entries : pats[m.pat].name = op}}
  BY DEF Opcode, Labels
<1>6. {Labels(l.path) : l \in {m \in entries : pats[m.pat].name = op}}
        = {pats[p].bits \intersect pats[p].mask}
  BY <1>1, <1>2, <1>3
<1>7. \A X : UNION {X} = X
  OBVIOUS
<1>. QED
  BY <1>4, <1>5, <1>6, <1>7, Zenon

(* An instruction that is parsed has a mnemonic of the backend's, and only *)
(* operands of its argument set, but for the distance of a branch.         *)
Known(b, i) ==
  /\ DOMAIN i = {"op", "val", "label"}
  /\ i.op \in InstrOf(b) /\ DOMAIN i.val \subseteq ArgsIn(b, i.op) \union label_fields

ReadBy(m, i, insn) ==
  /\ MatchesPat(insn, m.pat) <=> pats[m.pat].name = i.op
  /\ pats[m.pat].name = i.op =>
       \A n \in DOMAIN i.val \ label_fields : Passed(m.pat, n, insn) = <<"", i.val[n]>>

LEMMA OneReadsBack ==
  ASSUME FileInv, stage = "built", Invertible, BackendOK(be),
         NEW i, Known(be, i), EncodesInsn(i)
  PROVE  \A m \in entries : ReadBy(m, i, encode(i))
<1>0. SetAt(i) = be.sets[SetIn(be, i.op)]
  BY DEF SetAt, SetOf, SetIn
<1>1. PICK k \in DOMAIN arguments : HasPattern(i.op, k) /\ Describes(SetAt(i), k)
  BY <1>0 DEF Known, BackendOK
<1>2. PICK p \in DOMAIN pats : /\ pats[p].kind = "pattern" /\ pats[p].name = i.op
                              /\ formats[pats[p].fmt].base = k
  BY <1>1 DEF HasPattern
<1>3. PICK own, flds : own = OwnFormat(arguments[k]) /\ flds = formats[pats[p].fmt].flds
  OBVIOUS
<1>4. DOMAIN i.val \subseteq ArgNames(arguments[k]) \union label_fields
  BY <1>0, <1>1 DEF Known, ArgsIn, Describes
<1>5. own # {} /\ SetAt(i).flds = formats[First(own)].flds
  BY <1>1, <1>3 DEF EncodesInsn, Describes
<1>6. PICK e \in entries : e.pat = p
  BY NoGroups DEF BackendOK
<1>7. /\ First(own) = pats[p].fmt /\ pats[p].flds = <<>>
      /\ \A c, d \in DOMAIN flds :
           c # d => FieldMask(flds[c].f) \intersect FieldMask(flds[d].f) = {}
      /\ \A d \in DOMAIN flds :
           Len(flds[d].f.subs) > 1 /\ flds[d].name \notin label_fields
             => ~ FieldSign(flds[d].f)
  BY <1>2, <1>3, <1>5, <1>6 DEF Invertible, Suits
<1>8. SetAt(i).flds = flds
  BY <1>3, <1>5, <1>7
<1>9. /\ FldsOK(flds)
      /\ MaskOf(flds) \intersect pats[p].mask = {}
      /\ ArgNames(arguments[k]) \subseteq Names(flds)
  <2>1. Checked(pats[p], formats, arguments)
    BY <1>2 DEF FileInv, OperandInv
  <2>2. Names(<<>>) = {}
    BY NoFields DEF Names
  <2>. QED
    BY <1>2, <1>3, <1>7, <2>1, <2>2 DEF Checked, FileInv, FieldInv
<1>. DEFINE code(d) == str_encode(flds[d].f, i.val[flds[d].name])
<1>10. /\ \A d \in DOMAIN flds : Encodes(flds[d].f, i.val[flds[d].name])
       /\ encode(i) = be.opcode[i.op] \union UNION {code(d) : d \in DOMAIN flds}
  BY <1>8 DEF EncodesInsn, encode
<1>11. be.opcode[i.op] = pats[p].bits \intersect pats[p].mask
  BY <1>2, OpcodeIs
<1>12. \A d \in DOMAIN flds : /\ code(d) \subseteq FieldMask(flds[d].f)
                             /\ FieldMask(flds[d].f) \subseteq MaskOf(flds)
  BY <1>9, EncodedIn DEF FldsOK, MaskOf
<1>. HIDE DEF code
<1>13. MatchesPat(encode(i), p)
  BY <1>9, <1>10, <1>11, <1>12 DEF MatchesPat
<1>14. \A d \in DOMAIN flds : encode(i) \intersect FieldMask(flds[d].f) = code(d)
  BY <1>7, <1>9, <1>10, <1>11, <1>12
<1>15. ASSUME NEW m \in entries
       PROVE  MatchesPat(encode(i), m.pat) <=> pats[m.pat].name = i.op
  <2>1. m.pat \in DOMAIN pats
    BY NoGroups DEF entries, BackendOK
  <2>2. CASE m.pat = p
    BY <1>2, <1>13, <2>2
  <2>3. CASE m.pat # p
    <3>1. pats[m.pat].name # i.op
      BY <1>2, <1>6, <2>3 DEF Invertible
    <3>2. Apart(p, m.pat)
      BY <2>1, <2>3, NoGroups DEF BackendOK
    <3>3. ~ MatchesPat(encode(i), m.pat)
      BY <1>13, <3>2 DEF MatchesPat, Apart
    <3>. QED
      BY <3>1, <3>3
  <2>. QED
    BY <2>2, <2>3
<1>16. ASSUME NEW n \in DOMAIN i.val \ label_fields
       PROVE  Passed(p, n, encode(i)) = <<"", i.val[n]>>
  <2>1. n \in Names(flds)
    BY <1>4, <1>9, <1>16
  <2>2. PICK d \in DOMAIN flds : flds[d].name = n
    BY <2>1 DEF Names
  <2>3. At(flds, n) # {} /\ First(At(flds, n)) = d
    BY <1>9, <2>2, FirstAt
  <2>4. At(pats[p].flds, n) = {}
    BY <1>7, NoFields DEF At
  <2>5. Passed(p, n, encode(i)) = <<flds[d].f.func, str_extract(flds[d].f, encode(i))>>
    BY <1>3, <2>3, <2>4 DEF Passed, Source
  <2>6. Encodes(flds[d].f, i.val[n]) /\ flds[d].f.func = ""
    BY <1>10, <2>2 DEF Encodes
  <2>7. encode(i) \intersect FieldMask(flds[d].f) = str_encode(flds[d].f, i.val[n])
    BY <1>14, <2>2 DEF code
  <2>8. Len(flds[d].f.subs) > 1 => ~ FieldSign(flds[d].f)
    BY <1>7, <1>16, <2>2
  <2>9. str_extract(flds[d].f, encode(i)) = i.val[n]
    BY <1>9, <2>6, <2>7, <2>8, RoundTrip DEF FldsOK
  <2>. QED
    BY <2>5, <2>6, <2>9
<1>17. \A m \in entries : pats[m.pat].name = i.op => m.pat = p
  BY <1>2, <1>6 DEF Invertible
<1>. QED
  BY <1>15, <1>16, <1>17 DEF ReadBy

-----------------------------------------------------------------------------
(* The backends are made once, of a finished file, and nothing is          *)
(* assembled before both are.                                              *)
Made ==
  /\ stage \notin {"built", "error"} => hw = NoTable /\ be = NoBackend
  /\ hw # NoTable /\ be # NoBackend => stage = "built"
  /\ be # NoBackend => BackendOK(be)
  /\ phase # "start" => hw # NoTable /\ be # NoBackend

AllKnown(b, s) == IsSeq(s) /\ \A k \in DOMAIN s : Known(b, s[k])
Lined(b, v) == DOMAIN v = {"addr", "insns"} /\ AllKnown(b, v.insns)

(* Known instructions only, and operands that are still to come known.     *)
AsmInv ==
  /\ phase = "start" => insns = <<>> /\ vliw_insn = <<>>
  /\ AllKnown(be, insns)
  /\ phase = "operands" =>
       /\ insns # <<>> /\ IsSeq(left)
       /\ \A n \in DOMAIN left : left[n].name \in ArgsIn(be, this.op)
  /\ IsSeq(vliw_insn) /\ \A k \in DOMAIN vliw_insn : Lined(be, vliw_insn[k])


(* The file's part.                                                        *)
LEMMA FileNext ==
  ASSUME FileInv, [ToolsNext]_toolVars
  PROVE  FileInv'
<1>1. CASE UNCHANGED vars
  BY <1>1, FileStep
<1>2. CASE Generate
  BY <1>2, FileStep
<1>3. CASE NoHw \/ NoBe
  BY <1>3, ErrorStays DEF NoHw, NoBe
<1>. QED
  BY <1>1, <1>2, <1>3 DEF ToolsNext, toolVars, output_hw, output_asm_be

LEMMA BackendKept ==
  ASSUME UNCHANGED <<parseVars, treeVars>>, NEW b, b = be', BackendOK(b)
  PROVE  BackendOK(be)'
<1>1. BackendOK(b)'
  BY BackendStays
<1>. QED
  BY <1>1 DEF BackendOK

LEMMA MadeNext ==
  ASSUME FileInv, Made, [ToolsNext]_toolVars
  PROVE  Made'
<1>1. ASSUME UNCHANGED <<vars, be, hw>>, phase' = phase \/ (hw # NoTable /\ be # NoBackend)
      PROVE  Made'
  <2>1. be # NoBackend => BackendOK(be)'
    BY <1>1, BackendKept DEF Made, vars, parseVars, treeVars
  <2>. QED
    BY <1>1, <2>1 DEF Made, vars
<1>2. CASE Generate /\ UNCHANGED <<asmVars, be, hw>>
  <2>1. stage \notin {"built", "error"}
    BY <1>2, Finished
  <2>. QED
    BY <1>2, <2>1 DEF Made, asmVars
<1>3. CASE output_hw
  <2>1. UNCHANGED <<parseVars, treeVars, stage, be, phase>> /\ stage = "built"
    BY <1>3 DEF output_hw, asmVars, vars, parseVars, treeVars
  <2>2. be # NoBackend => BackendOK(be)'
    BY <2>1, BackendKept DEF Made
  <2>. QED
    BY <1>3, <2>1, <2>2 DEF Made, output_hw
<1>4. CASE NoHw \/ NoBe
  <2>1. UNCHANGED <<parseVars, treeVars, be, hw, phase>> /\ stage' = "error"
    BY <1>4 DEF NoHw, NoBe, asmVars
  <2>2. hw = NoTable \/ be = NoBackend
    BY <1>4 DEF NoHw, NoBe
  <2>3. be # NoBackend => BackendOK(be)'
    BY <2>1, BackendKept DEF Made
  <2>. QED
    BY <2>1, <2>2, <2>3 DEF Made
<1>5. CASE output_asm_be
  <2>1. UNCHANGED <<parseVars, treeVars, stage, hw, phase>> /\ stage = "built" /\ be = NoBackend
    BY <1>5 DEF output_asm_be, vars, parseVars, treeVars
  <2>2. BackendOK(be)'
    <3>1. PICK b : b = be'
      OBVIOUS
    <3>2. Readable /\ b = Backend
      BY <1>5, <3>1 DEF output_asm_be, HasBackend
    <3>3. BackendOK(b)
      BY <3>2, BackendMade DEF FileInv
    <3>. QED
      BY <2>1, <3>1, <3>3, BackendKept
  <2>. QED
    BY <2>1, <2>2 DEF Made
<1>6. CASE hw # NoTable /\ AsmNext /\ UNCHANGED <<vars, hw>>
  <2>1. be' = be
    BY <1>6 DEF AsmNext, OpenSource, NextLine, EndOfLine, DefineLabel, SetAddr, StartInsn, BadWord,
       Operand, BadOperand, EndOfInsn, NoBar, ResolveBranches, BadBranch, EncodeInsns, BadEncoding,
       AsmFail
  <2>2. phase # "start" \/ be # NoBackend
    BY <1>6 DEF AsmNext, OpenSource, NextLine, EndOfLine, DefineLabel, SetAddr, StartInsn, BadWord,
       Operand, BadOperand, EndOfInsn, NoBar, ResolveBranches, BadBranch, EncodeInsns, BadEncoding,
       AsmFail, Sees
  <2>. QED
    BY <1>1, <1>6, <2>1, <2>2 DEF Made
<1>7. CASE UNCHANGED toolVars
  BY <1>1, <1>7 DEF toolVars, asmVars
<1>. QED
  BY <1>2, <1>3, <1>4, <1>5, <1>6, <1>7 DEF ToolsNext

-----------------------------------------------------------------------------
(* The lines that are parsed.                                              *)
LEMMA NoneKnown == ASSUME NEW b PROVE AllKnown(b, <<>>)
BY NoFields DEF AllKnown

LEMMA NotEmpty ==
  ASSUME NEW s, IsSeq(s), s # <<>>
  PROVE  Len(s) \in DOMAIN s /\ Len(s) # 0
<1>1. Len(s) # 0
  BY DEF IsSeq
<1>. QED
  BY <1>1, IsSeqLen

LEMMA AppendKnown ==
  ASSUME NEW b, NEW s, AllKnown(b, s), NEW r, Known(b, r)
  PROVE  AllKnown(b, Append(s, r)) /\ Append(s, r)[Len(Append(s, r))] = r /\ Append(s, r) # <<>>
<1>1. /\ IsSeq(Append(s, r)) /\ Len(s) \in Nat /\ DOMAIN s = 1..Len(s)
      /\ Len(Append(s, r)) = Len(s) + 1 /\ DOMAIN Append(s, r) = 1..(Len(s) + 1)
      /\ Append(s, r)[Len(s) + 1] = r /\ \A k \in DOMAIN s : Append(s, r)[k] = s[k]
  BY AppendSeq DEF AllKnown
<1>2. \A k \in DOMAIN Append(s, r) : Known(b, Append(s, r)[k])
  BY <1>1 DEF AllKnown
<1>3. Append(s, r) # <<>>
  BY <1>1, NoFields
<1>. QED
  BY <1>1, <1>2, <1>3 DEF AllKnown

LEMMA EditKnown ==
  ASSUME NEW b, NEW s, AllKnown(b, s), s # <<>>, NEW r, Known(b, r),
         NEW e, e = [s EXCEPT ![Len(s)] = r]
  PROVE  AllKnown(b, e) /\ e # <<>> /\ e[Len(e)] = r
<1>1. PICK c \in Nat : c = Len(s) /\ DOMAIN s = 1..c /\ c # 0
  BY IsSeqLen, NotEmpty DEF AllKnown
<1>2. e = [s EXCEPT ![c] = r]
  BY <1>1
<1>3. /\ DOMAIN e = 1..c /\ e = [k \in 1..c |-> e[k]]
      /\ e[c] = r /\ \A k \in 1..c : k # c => e[k] = s[k]
  <2>1. e = [k \in 1..c |-> IF k = c THEN r ELSE s[k]]
    BY <1>1, <1>2
  <2>2. c \in 1..c
    BY <1>1
  <2>. QED
    BY <2>1, <2>2
<1>4. IsSeq(e)
  BY <1>3, IsSeqFcn
<1>5. Len(e) = c
  BY <1>1, <1>3, <1>4, IsSeqLen
<1>6. \A k \in DOMAIN e : Known(b, e[k])
  BY <1>1, <1>3 DEF AllKnown
<1>7. e # <<>>
  BY <1>1, <1>3, NoFields
<1>. QED
  BY <1>1, <1>2, <1>3, <1>4, <1>5, <1>6, <1>7 DEF AllKnown

LEMMA TailSeq ==
  ASSUME NEW s, IsSeq(s), s # <<>>
  PROVE  IsSeq(Tail(s)) /\ Head(s) = s[1] /\ 1 \in DOMAIN s
         /\ \A n \in DOMAIN Tail(s) : \E m \in DOMAIN s : Tail(s)[n] = s[m]
<1>. DEFINE R == {s[k] : k \in DOMAIN s}
<1>1. s \in Seq(R)
  BY DEF IsSeq
<1>. HIDE DEF R
<1>2. Tail(s) \in Seq(R) /\ Head(s) = s[1] /\ 1 \in DOMAIN s
  BY <1>1
<1>3. \A n \in DOMAIN Tail(s) : Tail(s)[n] \in R
  BY <1>2
<1>. QED
  BY <1>2, <1>3, SeqIsSeq DEF R

LEMMA OperandNext ==
  ASSUME AsmInv, Operand
  PROVE  AsmInv'
<1>1. PICK b : b = be /\ b = be'
  BY DEF Operand
<1>2. /\ AllKnown(b, insns) /\ insns # <<>> /\ IsSeq(left) /\ left # <<>>
      /\ \A n \in DOMAIN left : left[n].name \in ArgsIn(b, this.op)
      /\ left' = Tail(left) /\ vliw_insn' = vliw_insn /\ phase' = "operands"
  BY <1>1 DEF Operand, AsmInv
<1>3. Head(left).name \in ArgsIn(b, this.op)
  BY <1>2, TailSeq
<1>4. Known(b, this)
  <2>1. Len(insns) \in DOMAIN insns
    BY <1>2, IsSeqLen, NotEmpty DEF AllKnown
  <2>. QED
    BY <1>2, <2>1 DEF this, AllKnown
<1>5. PICK r : insns' = [insns EXCEPT ![Len(insns)] = r] /\ Known(b, r) /\ r.op = this.op
  <2>1. CASE Head(left).as = "label"
    <3>1. PICK r : r = [this EXCEPT !.label = t.name]
      OBVIOUS
    <3>2. Known(b, r) /\ r.op = this.op
      BY <1>4, <3>1 DEF Known
    <3>. QED
      BY <2>1, <3>1, <3>2 DEF Operand
  <2>2. CASE Head(left).as # "label"
    <3>1. PICK v : v = [n \in DOMAIN this.val \union {Head(left).name} |->
                          IF n = Head(left).name THEN t.val ELSE this.val[n]]
      OBVIOUS
    <3>2. PICK r : r = [this EXCEPT !.val = v]
      OBVIOUS
    <3>3. Known(b, r) /\ r.op = this.op
      BY <1>3, <1>4, <3>1, <3>2 DEF Known
    <3>. QED
      BY <2>2, <3>1, <3>2, <3>3 DEF Operand
  <2>. QED
    BY <2>1, <2>2
<1>6. AllKnown(b, insns') /\ insns' # <<>> /\ insns'[Len(insns')] = r
  <2>1. PICK s, e : s = insns /\ e = [s EXCEPT ![Len(s)] = r] /\ insns' = e
    BY <1>5
  <2>2. AllKnown(b, e) /\ e # <<>> /\ e[Len(e)] = r
    <3>1. AllKnown(b, s) /\ s # <<>> /\ Known(b, r) /\ e = [s EXCEPT ![Len(s)] = r]
      BY <1>2, <1>5, <2>1
    <3>. QED
      BY <3>1, EditKnown, Zenon
  <2>. QED
    BY <2>1, <2>2
<1>7. IsSeq(left') /\ \A n \in DOMAIN left' : left'[n].name \in ArgsIn(b, r.op)
  BY <1>2, <1>5, TailSeq
<1>8. this' = r
  BY <1>6 DEF this
<1>. QED
  BY <1>1, <1>2, <1>6, <1>7, <1>8 DEF AsmInv

LEMMA LineNext ==
  ASSUME AsmInv, EndOfLine
  PROVE  AsmInv'
<1>1. PICK b : b = be /\ b = be'
  BY DEF EndOfLine
<1>2. /\ AllKnown(b, insns) /\ insns' = insns /\ phase' = "parse"
      /\ IsSeq(vliw_insn) /\ \A k \in DOMAIN vliw_insn : Lined(b, vliw_insn[k])
  BY <1>1 DEF EndOfLine, AsmInv
<1>3. CASE insns = <<>>
  BY <1>1, <1>2, <1>3 DEF EndOfLine, AsmInv
<1>4. CASE insns # <<>>
  <2>1. PICK v : v = [addr |-> current_addr, insns |-> insns]
    OBVIOUS
  <2>2. vliw_insn' = Append(vliw_insn, v)
    BY <1>4, <2>1 DEF EndOfLine
  <2>3. Lined(b, v)
    BY <1>2, <2>1 DEF Lined
  <2>4. /\ IsSeq(vliw_insn')
        /\ \A k \in DOMAIN vliw_insn' :
             (k \in DOMAIN vliw_insn /\ vliw_insn'[k] = vliw_insn[k]) \/ vliw_insn'[k] = v
    BY <1>2, <2>2, GrownAppend DEF Grown
  <2>. QED
    BY <1>1, <1>2, <2>3, <2>4 DEF AsmInv
<1>. QED
  BY <1>3, <1>4

LEMMA StartNext ==
  ASSUME AsmInv, BackendOK(be), StartInsn
  PROVE  AsmInv'
<1>1. PICK b : b = be /\ b = be'
  BY DEF StartInsn
<1>2. PICK op : op = t.name /\ op \in InstrOf(b)
  BY <1>1 DEF StartInsn, instructions, InstrOf
<1>3. SetOf(op) = SetIn(b, op)
  BY <1>1 DEF SetOf, SetIn
<1>4. PICK B : B = b.sets[SetIn(b, op)]
  OBVIOUS
<1>5. PICK r : r = [op |-> op, val |-> <<>>, label |-> ""]
  OBVIOUS
<1>6. /\ AllKnown(b, insns) /\ insns' = Append(insns, r) /\ left' = B.args
      /\ phase' = "operands" /\ vliw_insn' = vliw_insn
  BY <1>1, <1>2, <1>3, <1>4, <1>5 DEF StartInsn, AsmInv
<1>7. Known(b, r)
  BY <1>2, <1>5, NoFields DEF Known
<1>8. AllKnown(b, insns') /\ insns'[Len(insns')] = r /\ insns' # <<>>
  BY <1>6, <1>7, AppendKnown
<1>9. IsSeq(left') /\ \A n \in DOMAIN left' : left'[n].name \in ArgsIn(b, op)
  <2>1. IsSeq(B.args)
    BY <1>1, <1>2, <1>4 DEF BackendOK, Describes
  <2>. QED
    BY <1>4, <1>6, <2>1 DEF ArgsIn
<1>10. this'.op = op
  <2>1. this' = r
    BY <1>8 DEF this
  <2>. QED
    BY <1>5, <2>1
<1>. QED
  BY <1>1, <1>6, <1>8, <1>9, <1>10 DEF AsmInv

(* A branch gets its distance under the name of a label's field.           *)
LEMMA ResolvedKnown ==
  ASSUME BackendOK(be), NEW v, NEW j \in DOMAIN v.insns, Known(be, v.insns[j])
  PROVE  Known(be, Resolved(v, j))
<1>1. PICK i : i = v.insns[j]
  OBVIOUS
<1>2. CASE j \notin Branches(v)
  BY <1>2 DEF Resolved
<1>3. CASE j \in Branches(v)
  <2>1. PICK n : n = SetAt(i).target
    OBVIOUS
  <2>2. SetAt(i) = be.sets[SetIn(be, i.op)]
    BY DEF SetAt, SetOf, SetIn
  <2>3. n \in label_fields
    <3>1. SetAt(i).limit # 0
      BY <1>1, <1>3 DEF Branches
    <3>2. i.op \in InstrOf(be)
      BY <1>1 DEF Known
    <3>. QED
      BY <2>1, <2>2, <3>1, <3>2 DEF BackendOK, Describes
  <2>4. PICK x : x = [m \in DOMAIN i.val \union {n} |->
                        IF m = n THEN Distance(v, j) \div be.bytes ELSE i.val[m]]
    OBVIOUS
  <2>5. Resolved(v, j) = [i EXCEPT !.val = x]
    BY <1>1, <1>3, <2>1, <2>4 DEF Resolved
  <2>6. PICK r : r = [i EXCEPT !.val = x]
    OBVIOUS
  <2>7. Known(be, r)
    BY <1>1, <2>3, <2>4, <2>6 DEF Known
  <2>. QED
    BY <2>5, <2>6, <2>7
<1>. QED
  BY <1>2, <1>3

LEMMA ResolveNext ==
  ASSUME AsmInv, BackendOK(be), ResolveBranches
  PROVE  AsmInv'
<1>1. PICK b : b = be /\ b = be'
  BY DEF ResolveBranches
<1>2. /\ AllKnown(b, insns) /\ insns' = insns /\ phase' = "encode"
      /\ IsSeq(vliw_insn) /\ \A k \in DOMAIN vliw_insn : Lined(b, vliw_insn[k])
  BY <1>1 DEF ResolveBranches, AsmInv
<1>3. vliw_insn' = [k \in DOMAIN vliw_insn |->
                      [vliw_insn[k] EXCEPT !.insns =
                         [j \in DOMAIN @ |-> Resolved(vliw_insn[k], j)]]]
  BY DEF ResolveBranches
<1>4. DOMAIN vliw_insn' = DOMAIN vliw_insn /\ IsSeq(vliw_insn')
  <2>1. PICK c \in Nat : DOMAIN vliw_insn = 1..c
    BY <1>2, IsSeqLen
  <2>2. vliw_insn' = [k \in 1..c |-> vliw_insn'[k]] /\ DOMAIN vliw_insn' = 1..c
    BY <1>3, <2>1
  <2>. QED
    BY <2>1, <2>2, IsSeqFcn
<1>5. ASSUME NEW k \in DOMAIN vliw_insn PROVE Lined(b, vliw_insn'[k])
  <2>1. PICK v : v = vliw_insn[k] /\ Lined(b, v)
    BY <1>2
  <2>2. PICK rs : rs = [j \in DOMAIN v.insns |-> Resolved(v, j)]
    OBVIOUS
  <2>3. vliw_insn'[k] = [v EXCEPT !.insns = rs]
    BY <1>3, <2>1, <2>2
  <2>4. IsSeq(rs) /\ DOMAIN rs = DOMAIN v.insns
    <3>1. PICK c \in Nat : DOMAIN v.insns = 1..c
      BY <2>1, IsSeqLen DEF Lined, AllKnown
    <3>2. rs = [j \in 1..c |-> rs[j]]
      BY <2>2, <3>1
    <3>. QED
      BY <2>2, <3>2, IsSeqFcn
  <2>5. ASSUME NEW j \in DOMAIN v.insns PROVE Known(b, rs[j])
    <3>1. Known(be, v.insns[j])
      BY <1>1, <2>1 DEF Lined, AllKnown
    <3>2. Known(be, Resolved(v, j))
      BY <3>1, ResolvedKnown
    <3>. QED
      BY <1>1, <2>2, <3>2
  <2>6. AllKnown(b, rs)
    BY <2>4, <2>5 DEF AllKnown
  <2>7. DOMAIN vliw_insn'[k] = {"addr", "insns"} /\ vliw_insn'[k].insns = rs
    BY <2>1, <2>3 DEF Lined
  <2>. QED
    BY <2>6, <2>7 DEF Lined
<1>. QED
  BY <1>1, <1>2, <1>4, <1>5 DEF AsmInv

LEMMA AsmNextInv ==
  ASSUME Made, AsmInv, [ToolsNext]_toolVars
  PROVE  AsmInv'
<1>1. ASSUME UNCHANGED <<be, insns, vliw_insn>>, phase' \notin {"start", "operands"}
      PROVE  AsmInv'
  <2>1. PICK b : b = be /\ b = be'
    BY <1>1
  <2>. QED
    BY <1>1, <2>1 DEF AsmInv
<1>2. ASSUME UNCHANGED <<insns, left, vliw_insn, phase>>, be' = be \/ be = NoBackend
      PROVE  AsmInv'
  <2>1. CASE be' = be
    <3>1. PICK b : b = be /\ b = be'
      BY <2>1
    <3>2. this' = this
      BY <1>2 DEF this
    <3>. QED
      BY <1>2, <3>1, <3>2 DEF AsmInv
  <2>2. CASE be = NoBackend
    <3>1. insns' = <<>> /\ vliw_insn' = <<>> /\ phase' = "start"
      BY <1>2, <2>2 DEF Made, AsmInv
    <3>. QED
      BY <3>1, NoneKnown, NoFields DEF AsmInv
  <2>. QED
    BY <1>2, <2>1, <2>2
<1>3. CASE Generate /\ UNCHANGED <<asmVars, be, hw>>
  BY <1>2, <1>3 DEF asmVars
<1>4. CASE output_hw \/ NoHw \/ NoBe \/ output_asm_be \/ UNCHANGED toolVars
  BY <1>2, <1>4 DEF output_hw, NoHw, NoBe, output_asm_be, toolVars, asmVars
<1>5. CASE hw # NoTable /\ AsmNext /\ UNCHANGED <<vars, hw>>
  <2>1. phase # "start" => BackendOK(be)
    BY DEF Made
  <2>2. CASE OpenSource
    BY <1>1, <2>2 DEF OpenSource
  <2>3. CASE NextLine
    <3>1. PICK b : b = be /\ b = be'
      BY <2>3 DEF NextLine
    <3>2. insns' = <<>> /\ vliw_insn' = vliw_insn /\ phase' = "line"
      BY <2>3 DEF NextLine
    <3>. QED
      BY <3>1, <3>2, NoneKnown DEF AsmInv
  <2>4. CASE EndOfLine
    BY <2>4, LineNext
  <2>5. CASE DefineLabel \/ SetAddr \/ EndOfInsn \/ EncodeInsns
    BY <1>1, <2>5 DEF DefineLabel, SetAddr, EndOfInsn, EncodeInsns, Sees
  <2>6. CASE StartInsn
    BY <2>1, <2>6, StartNext DEF StartInsn, Sees
  <2>7. CASE BadWord \/ BadOperand \/ NoBar \/ BadBranch \/ BadEncoding
    BY <1>1, <2>7 DEF BadWord, BadOperand, NoBar, BadBranch, BadEncoding, AsmFail
  <2>8. CASE Operand
    BY <2>8, OperandNext
  <2>9. CASE ResolveBranches
    BY <2>1, <2>9, ResolveNext DEF ResolveBranches
  <2>. QED
    BY <1>5, <2>2, <2>3, <2>4, <2>5, <2>6, <2>7, <2>8, <2>9 DEF AsmNext
<1>. QED
  BY <1>3, <1>4, <1>5 DEF ToolsNext

-----------------------------------------------------------------------------
(* What is assembled, when it is.                                          *)
Lane(k, j) == IF j <= atomPerInsn THEN asm[k][j] ELSE {}
AllRead ==
  phase = "done" =>
    \A k \in DOMAIN vliw_insn : \A j \in DOMAIN vliw_insn[k].insns :
      \A m \in entries : ReadBy(m, vliw_insn[k].insns[j], Lane(k, j))

LEMMA FileSame ==
  ASSUME UNCHANGED <<arguments, formats, pats, leaves>>
  PROVE  /\ entries' = entries /\ (Invertible' <=> Invertible)
         /\ \A m, i, x : ReadBy(m, i, x)' <=> ReadBy(m, i, x)
<1>1. entries' = entries
  BY DEF entries
<1>2. \A a : OwnFormat(a)' = OwnFormat(a)
  BY DEF OwnFormat, At
<1>3. Invertible' <=> Invertible
  <2>1. \A p : Suits(p)' <=> Suits(p)
    BY <1>2 DEF Suits
  <2>. QED
    BY <1>1, <2>1 DEF Invertible
<1>4. \A x, p : MatchesPat(x, p)' <=> MatchesPat(x, p)
  BY DEF MatchesPat
<1>5. \A p, n, x : Passed(p, n, x)' = Passed(p, n, x)
  BY DEF Passed, Source, At
<1>6. \A m, i, x : ReadBy(m, i, x)' <=> ReadBy(m, i, x)
  BY <1>4, <1>5 DEF ReadBy
<1>. QED
  BY <1>1, <1>3, <1>6

LEMMA EncodedReads ==
  ASSUME FileInv, Made, AsmInv, Invertible, EncodeInsns, UNCHANGED vars
  PROVE  AllRead'
<1>1. /\ stage = "built" /\ BackendOK(be) /\ be # NoBackend
      /\ UNCHANGED <<formats, pats, leaves, vliw_insn>>
      /\ \A k \in DOMAIN vliw_insn : EncodesLine(vliw_insn[k])
      /\ asm' = [k \in DOMAIN vliw_insn |-> Lanes(vliw_insn[k])]
  BY DEF EncodeInsns, Made, vars
<1>2. be.atomPerInsn = atomPerInsn
  BY <1>1 DEF BackendOK
<1>3. entries' = entries
  BY <1>1 DEF entries
<1>4. ASSUME NEW k \in DOMAIN vliw_insn, NEW j \in DOMAIN vliw_insn[k].insns, NEW m \in entries
      PROVE  ReadBy(m, vliw_insn[k].insns[j], IF j <= atomPerInsn THEN asm'[k][j] ELSE {})
  <2>1. PICK v : v = vliw_insn[k]
    OBVIOUS
  <2>2. PICK i : i = v.insns[j] /\ Known(be, i)
    BY <2>1 DEF AsmInv, Lined, AllKnown
  <2>3. EncodesLine(v) /\ asm'[k] = Lanes(v)
    BY <1>1, <2>1
  <2>4. EncodesInsn(i)
    BY <2>1, <2>2, <2>3 DEF EncodesLine
  <2>5. j \in Nat /\ j >= 1 /\ j <= Len(v.insns)
    BY <2>1, IsSeqLen DEF AsmInv, Lined, AllKnown
  <2>6. (IF j <= atomPerInsn THEN asm'[k][j] ELSE {}) = encode(i)
    <3>1. CASE j <= atomPerInsn
      <4>1. Lanes(v)[j] = encode(i)
        BY <1>2, <2>1, <2>2, <2>5, <3>1, ConfigAssumption DEF Lanes
      <4>. QED
        BY <2>3, <3>1, <4>1
    <3>2. CASE ~ (j <= atomPerInsn)
      <4>1. j > be.atomPerInsn
        BY <1>2, <2>5, <3>2, ConfigAssumption
      <4>2. encode(i) = {}
        BY <2>1, <2>2, <2>3, <4>1 DEF EncodesLine
      <4>. QED
        BY <3>2, <4>2
    <3>. QED
      BY <3>1, <3>2
  <2>7. ReadBy(m, i, encode(i))
    BY <1>1, <2>2, <2>4, OneReadsBack
  <2>. QED
    BY <2>1, <2>2, <2>6, <2>7
<1>5. \A m, i, x : ReadBy(m, i, x)' <=> ReadBy(m, i, x)
  BY <1>1, FileSame DEF vars
<1>. QED
  BY <1>1, <1>3, <1>4, <1>5 DEF AllRead, Lane

(* Nothing happens when everything is written.                             *)
LEMMA DoneStays ==
  ASSUME Made, phase = "done", [ToolsNext]_toolVars
  PROVE  UNCHANGED toolVars
<1>1. stage = "built" /\ hw # NoTable /\ be # NoBackend
  BY DEF Made
<1>2. ~ Generate
  BY <1>1, Finished
<1>3. ~ AsmNext
  BY DEF AsmNext, OpenSource, NextLine, EndOfLine, DefineLabel, SetAddr, StartInsn, BadWord,
     Operand, BadOperand, EndOfInsn, NoBar, ResolveBranches, BadBranch, EncodeInsns, BadEncoding,
     Sees
<1>. QED
  BY <1>1, <1>2, <1>3 DEF ToolsNext, output_hw, NoHw, output_asm_be, NoBe

LEMMA ReadsNext ==
  ASSUME FileInv, Made, AsmInv, Invertible => AllRead, [ToolsNext]_toolVars
  PROVE  (Invertible => AllRead)'
<1>1. CASE phase = "done"
  <2>1. UNCHANGED <<arguments, formats, pats, leaves, vliw_insn, asm, phase>>
    BY <1>1, DoneStays DEF toolVars, vars, asmVars
  <2>. QED
    BY <1>1, <2>1, FileSame DEF AllRead, Lane
<1>2. CASE EncodeInsns /\ UNCHANGED vars
  <2>1. Invertible' => Invertible
    BY <1>2, FileSame DEF vars
  <2>. QED
    BY <1>2, <2>1, EncodedReads
<1>3. CASE phase' # "done"
  BY <1>3 DEF AllRead
<1>4. phase # "done" /\ phase' = "done" => EncodeInsns /\ UNCHANGED vars
  BY DEF ToolsNext, toolVars, output_hw, NoHw, output_asm_be, NoBe, asmVars,
     AsmNext, OpenSource, NextLine, EndOfLine, DefineLabel, SetAddr, StartInsn, BadWord,
     Operand, BadOperand, EndOfInsn, NoBar, ResolveBranches, BadBranch, BadEncoding, AsmFail
<1>. QED
  BY <1>1, <1>2, <1>3, <1>4

(* The table is made of the tree's entries, and stays.                     *)
Row(i) == [name |-> pats[i].name, mask |-> pats[i].mask,
           bits |-> pats[i].bits \intersect pats[i].mask]

LEMMA TableMade ==
  ASSUME FileInv, output_hw
  PROVE  TableExact'
<1>1. /\ stage = "built" /\ pats' = pats /\ \A l \in entries : pats[l.pat].kind = "pattern"
      /\ hw'.bitpats = {[name |-> pats[l.pat].name, mask |-> l.mask,
                         bits |-> Labels(l.path)] : l \in entries}
  BY DEF output_hw, HasTable, Readable, vars, Labels
<1>2. ASSUME NEW l \in entries
      PROVE  [name |-> pats[l.pat].name, mask |-> l.mask, bits |-> Labels(l.path)] = Row(l.pat)
  <2>1. l.mask = pats[l.pat].mask /\ Labels(l.path) = pats[l.pat].bits \intersect pats[l.pat].mask
    BY DEF FileInv, GroupInv, IndInv, TreeInv, LeavesExact, GroupBits, entries
  <2>. QED
    BY <2>1 DEF Row
<1>3. hw'.bitpats = {Row(l.pat) : l \in entries}
  BY <1>1, <1>2
<1>4. {Row(l.pat) : l \in entries} = {Row(i) : i \in DOMAIN pats}
  BY <1>1, NoGroups DEF entries
<1>5. ASSUME NEW i \in DOMAIN pats, NEW j \in DOMAIN pats, i # j
      PROVE  \E b \in Row(i).mask \intersect Row(j).mask : (b \in Row(i).bits) # (b \in Row(j).bits)
  <2>1. PICK b \in pats[i].mask \intersect pats[j].mask :
          ~ (b \in pats[i].bits <=> b \in pats[j].bits)
    BY <1>1, <1>5, NoGroups DEF Apart
  <2>. QED
    BY <2>1 DEF Row
<1>6. hw'.bitpats = {Row(i) : i \in DOMAIN pats}
  BY <1>3, <1>4
<1>7. ASSUME NEW r \in hw'.bitpats, NEW s \in hw'.bitpats, r # s
      PROVE  \E b \in r.mask \intersect s.mask : (b \in r.bits) # (b \in s.bits)
  <2>1. PICK i \in DOMAIN pats, j \in DOMAIN pats : r = Row(i) /\ s = Row(j)
    BY <1>6
  <2>. QED
    BY <1>5, <1>7, <2>1
<1>8. (hw.bitpats = {[name |-> pats[i].name, mask |-> pats[i].mask,
                      bits |-> pats[i].bits \intersect pats[i].mask] : i \in DOMAIN pats})'
  BY <1>1, <1>6 DEF Row
<1>. QED
  BY <1>7, <1>8 DEF TableExact

LEMMA TableNext ==
  ASSUME FileInv, Made, TableExact, [ToolsNext]_toolVars
  PROVE  TableExact'
<1>1. CASE UNCHANGED <<pats, hw>>
  BY <1>1 DEF TableExact
<1>2. CASE output_hw
  BY <1>2, TableMade
<1>3. CASE Generate /\ hw' = hw
  <2>1. hw = NoTable
    BY <1>3, Finished DEF Made
  <2>. QED
    BY <1>3, <2>1 DEF TableExact
<1>. QED
  BY <1>1, <1>2, <1>3 DEF ToolsNext, toolVars, vars, parseVars, NoHw, NoBe, output_asm_be

(* What holds of the file, the backends, and the lines, together.          *)
ToolsInv == FileInv /\ Made /\ TableExact /\ AsmInv /\ (Invertible => AllRead)

LEMMA ToolsStart == ToolsInit => ToolsInv
<1>. SUFFICES ASSUME ToolsInit PROVE ToolsInv
  OBVIOUS
<1>1. stage = "read" /\ hw = NoTable /\ be = NoBackend /\ phase = "start"
  BY DEF ToolsInit, Init, AsmInit
<1>2. insns = <<>> /\ vliw_insn = <<>>
  BY DEF ToolsInit, AsmInit
<1>3. Made
  BY <1>1 DEF Made
<1>4. AsmInv
  BY <1>1, <1>2, NoFields DEF AsmInv, AllKnown
<1>5. AllRead
  BY <1>1 DEF AllRead
<1>6. TableExact
  BY <1>1 DEF TableExact
<1>. QED
  BY <1>3, <1>4, <1>5, <1>6, FileInit DEF ToolsInv

LEMMA ToolsStep == ToolsInv /\ [ToolsNext]_toolVars => ToolsInv'
BY FileNext, MadeNext, TableNext, AsmNextInv, ReadsNext DEF ToolsInv

(* Whatever the file, the table generated for the hardware decoder has one *)
(* row for each pattern, with exactly the bits that it fixes, and no       *)
(* instruction matches two.                                                *)
THEOREM TableCorrect == ToolsSpec => []TableExact
<1>1. ToolsInv => TableExact
  BY DEF ToolsInv
<1>. QED
  BY ToolsStart, ToolsStep, <1>1, PTL DEF ToolsSpec

(* Whatever the file and the source: if the file is as the generator takes *)
(* it to be without asking, what asm.py writes for a line is decoded to    *)
(* the instructions of the line, and to no others, with the operands as    *)
(* they were written, whatever parts their fields are put together from.   *)
(* Of pyke32.decode TLC finds that it is such a file.                      *)
THEOREM ReadsBackCorrect == ToolsSpec => [](Invertible => ReadsBack)
<1>1. ToolsInv => (Invertible => ReadsBack)
  BY DEF ToolsInv, AllRead, ReadBy, Lane, ReadsBack
<1>. QED
  BY ToolsStart, ToolsStep, <1>1, PTL DEF ToolsSpec
=============================================================================
