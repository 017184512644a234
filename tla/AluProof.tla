----------------------------- MODULE AluProof -----------------------------
(***************************************************************************)
(* Theorems about the ALU, for every width of a register and of a chunk,   *)
(* and about the decoder, for every instruction that can be encoded.       *)
(***************************************************************************)
EXTENDS MCAlu, WellFoundedInduction, TLAPS

----------------------------------------------------------------------------
(* Powers of two.                                                          *)

Below == {p \in Nat \X Nat : p[1] < p[2]}

\* A set of natural numbers that is not empty has a least one.
LEMMA Least ==
    ASSUME NEW T \in SUBSET Nat, T # {}
    PROVE  \E x \in T : \A y \in T : x <= y
<1>1. IsWellFoundedOn(Below, Nat)
    BY NatLessThanWellFounded DEF OpToRel, Below
<1>2. PICK x \in T : \A y \in T : ~(<<y, x>> \in Below)
    BY <1>1, WFMin
<1>3. ASSUME NEW y \in T PROVE x <= y
  <2>1. ~(<<y, x>> \in Below) /\ y \in Nat /\ x \in Nat
      BY <1>2
  <2> QED BY <2>1 DEF Below
<1> QED BY <1>3

\* f has the first powers of two.
Powers(f, n) == f = [k \in 0..n |-> IF k = 0 THEN 1 ELSE 2 * f[k - 1]]

\* As many powers as one wants.
LEMMA PowersExist == ASSUME NEW n \in Nat PROVE \E f : Powers(f, n)
<1> DEFINE T == {k \in Nat : ~\E f : Powers(f, k)}
<1> SUFFICES ASSUME T # {} PROVE FALSE
    OBVIOUS
<1>1. PICK x \in T : \A y \in T : x <= y
    BY Least
<1>2. x \in Nat /\ ~\E f : Powers(f, x)
    OBVIOUS
<1>3. CASE x = 0
  <2>1. Powers([k \in 0..0 |-> 1], 0)
      BY DEF Powers
  <2> QED BY <1>2, <1>3, <2>1
<1>4. CASE x # 0
  <2>1. x - 1 \in Nat /\ ~(x <= x - 1)
      BY <1>2, <1>4
  <2>2. x - 1 \notin T
      BY <1>1, <2>1
  <2>3. PICK f : Powers(f, x - 1)
      BY <2>1, <2>2
  <2> DEFINE g == [k \in 0..x |-> IF k < x THEN f[k] ELSE 2 * f[x - 1]]
  <2>4. ASSUME NEW k \in 0..x PROVE g[k] = IF k = 0 THEN 1 ELSE 2 * g[k - 1]
    <3>1. CASE k = x
        BY <1>2, <1>4, <3>1
    <3>2. CASE k < x
      <4>1. k \in 0..(x - 1)
          BY <1>2, <3>2
      <4>2. f[k] = IF k = 0 THEN 1 ELSE 2 * f[k - 1]
          BY <2>3, <4>1 DEF Powers
      <4>3. g[k] = f[k] /\ (k # 0 => g[k - 1] = f[k - 1])
          BY <1>2, <3>2
      <4> QED BY <4>2, <4>3
    <3> QED BY <1>2, <3>1, <3>2
  <2>5. Powers(g, x)
    <3>1. g = [k \in 0..x |-> g[k]]
        OBVIOUS
    <3> HIDE DEF g
    <3> QED BY <2>4, <3>1 DEF Powers
  <2> QED BY <1>2, <2>5
<1> QED BY <1>3, <1>4

\* Two tables agree as far as both go.
LEMMA PowersAgree ==
    ASSUME NEW i \in Nat, NEW j \in Nat, NEW f, NEW g,
           Powers(f, i), Powers(g, j), NEW n \in Nat, n <= i, n <= j
    PROVE  f[n] = g[n]
<1> DEFINE T == {k \in Nat : k <= i /\ k <= j /\ f[k] # g[k]}
<1> SUFFICES ASSUME T # {} PROVE FALSE
    OBVIOUS
<1>1. PICK x \in T : \A y \in T : x <= y
    BY Least
<1>2. x \in Nat /\ x \in 0..i /\ x \in 0..j /\ f[x] # g[x]
    OBVIOUS
<1>3. /\ f[x] = IF x = 0 THEN 1 ELSE 2 * f[x - 1]
      /\ g[x] = IF x = 0 THEN 1 ELSE 2 * g[x - 1]
    BY <1>2 DEF Powers
<1>4. x # 0 /\ f[x - 1] # g[x - 1]
    BY <1>2, <1>3
<1>5. x - 1 \in T /\ ~(x <= x - 1)
    BY <1>2, <1>4
<1> QED BY <1>1, <1>5

\* pow2 satisfies its definition.
LEMMA PowRecursion ==
    pow2 = [n \in Nat |-> IF n = 0 THEN 1 ELSE 2 * pow2[n - 1]]
<1> DEFINE upto(n) == CHOOSE f : Powers(f, n)
           all == [n \in Nat |-> upto(n)[n]]
<1>1. ASSUME NEW n \in Nat PROVE Powers(upto(n), n)
    BY PowersExist
<1>2. ASSUME NEW k \in Nat
      PROVE  all[k] = IF k = 0 THEN 1 ELSE 2 * all[k - 1]
  <2>1. Powers(upto(k), k)
      BY <1>1
  <2> HIDE DEF upto
  <2>2. upto(k)[k] = IF k = 0 THEN 1 ELSE 2 * upto(k)[k - 1]
      BY <2>1 DEF Powers
  <2>3. ASSUME k # 0 PROVE upto(k)[k - 1] = all[k - 1]
    <3>1. k - 1 \in Nat /\ k - 1 <= k
        BY <2>3
    <3>2. Powers(upto(k - 1), k - 1)
        BY <1>1, <3>1
    <3>3. upto(k)[k - 1] = upto(k - 1)[k - 1]
        BY <2>1, <3>1, <3>2, PowersAgree
    <3> QED BY <3>1, <3>3
  <2> QED BY <2>2, <2>3
<1>3. all = [n \in Nat |-> all[n]]
    OBVIOUS
<1> HIDE DEF all
<1>4. all = [n \in Nat |-> IF n = 0 THEN 1 ELSE 2 * all[n - 1]]
    BY <1>2, <1>3
<1> QED BY <1>4 DEF pow2

\* Powers of two are positive, and each is twice the one before.
LEMMA Pow ==
    /\ pow2[0] = 1
    /\ \A n \in Nat : pow2[n] \in Nat \ {0} /\ pow2[n + 1] = 2 * pow2[n]
<1>1. pow2[0] = 1
    BY PowRecursion
<1>2. \A n \in Nat : pow2[n + 1] = 2 * pow2[n]
    BY PowRecursion
<1> DEFINE T == {k \in Nat : pow2[k] \notin Nat \ {0}}
<1>3. ASSUME T # {} PROVE FALSE
  <2>1. PICK x \in T : \A y \in T : x <= y
      BY <1>3, Least
  <2>2. x \in Nat \ {0} /\ pow2[x] \notin Nat \ {0}
      BY <1>1
  <2>3. x - 1 \in Nat /\ ~(x <= x - 1)
      BY <2>2
  <2>4. pow2[x - 1] \in Nat \ {0}
      BY <2>1, <2>3
  <2>5. pow2[x] = 2 * pow2[x - 1]
      BY <1>2, <2>3
  <2> QED BY <2>2, <2>4, <2>5
<1> QED BY <1>1, <1>2, <1>3

\* The power of a sum is a product.
LEMMA PowSum ==
    ASSUME NEW m \in Nat, NEW n \in Nat
    PROVE  pow2[m + n] = pow2[m] * pow2[n]
<1> DEFINE T == {k \in Nat : pow2[m + k] # pow2[m] * pow2[k]}
<1> SUFFICES ASSUME T # {} PROVE FALSE
    OBVIOUS
<1>1. PICK x \in T : \A y \in T : x <= y
    BY Least
<1>2. pow2[m] \in Nat /\ pow2[0] = 1
    BY Pow
<1>3. x \in Nat /\ pow2[m + x] # pow2[m] * pow2[x]
    OBVIOUS
<1>4. x # 0
    BY <1>2, <1>3
<1>5. x - 1 \in Nat /\ ~(x <= x - 1) /\ m + x = (m + (x - 1)) + 1
    BY <1>3, <1>4
<1>6. pow2[m + (x - 1)] = pow2[m] * pow2[x - 1]
    BY <1>1, <1>5
<1>7. pow2[m + x] = 2 * pow2[m + (x - 1)] /\ pow2[x] = 2 * pow2[x - 1]
    BY <1>5, Pow
<1>8. pow2[x - 1] \in Nat
    BY <1>5, Pow
<1>9. \A a, b \in Nat : 2 * (a * b) = a * (2 * b)
    BY Z3
<1> QED BY <1>2, <1>3, <1>6, <1>7, <1>8, <1>9

----------------------------------------------------------------------------
(* Division.                                                               *)

\* What division gives.
LEMMA Divide ==
    ASSUME NEW x \in Int, NEW d \in Nat \ {0}
    PROVE  /\ x \div d \in Int /\ x % d \in 0..(d - 1)
           /\ x = ((x \div d) * d) + (x % d)
BY Z3

\* A multiple of d that is smaller than d is zero.
LEMMA SmallMultiple ==
    ASSUME NEW q \in Int, NEW d \in Nat \ {0}, q * d < d, -d < q * d
    PROVE  q = 0
<1>1. q <= 0
  <2>1. ASSUME q >= 1 PROVE q * d >= d
      BY <2>1, Z3
  <2> QED BY <2>1
<1>2. q >= 0
  <2>1. ASSUME q <= -1 PROVE q * d <= -d
      BY <2>1, Z3
  <2> QED BY <2>1
<1> QED BY <1>1, <1>2

\* Quotient and remainder are determined.
LEMMA Division ==
    ASSUME NEW q \in Int, NEW d \in Nat \ {0}, NEW r \in 0..(d - 1)
    PROVE  /\ ((q * d) + r) \div d = q
           /\ ((q * d) + r) % d = r
<1> DEFINE x == (q * d) + r
           Q == x \div d
           R == x % d
<1>1. x \in Int
    OBVIOUS
<1>2. Q \in Int /\ R \in 0..(d - 1) /\ x = (Q * d) + R
    BY <1>1, Divide
<1>3. (Q * d) + R = (q * d) + r
    BY <1>2
<1> HIDE DEF x, Q, R
<1>4. (Q - q) * d = r - R
    BY <1>2, <1>3, Z3
<1>5. Q - q = 0
  <2>1. Q - q \in Int
      BY <1>2
  <2>2. (Q - q) * d < d /\ -d < (Q - q) * d
      BY <1>2, <1>4
  <2> QED BY <2>1, <2>2, SmallMultiple
<1>6. Q = q /\ R = r
    BY <1>2, <1>3, <1>5
<1> QED BY <1>6 DEF Q, R, x

\* A number modulo 2 p.
LEMMA Digit ==
    ASSUME NEW x \in Nat, NEW p \in Nat \ {0}
    PROVE  /\ (x \div p) % 2 \in {0, 1}
           /\ x % p \in 0..(p - 1)
           /\ x % (2 * p) = (x % p) + (((x \div p) % 2) * p)
<1>11. /\ x \div p \in Int /\ x % p \in 0..(p - 1)
      /\ x = ((x \div p) * p) + (x % p)
    BY Divide
<1>1. PICK q \in Int : q = x \div p
    BY <1>11
<1>2. PICK r \in 0..(p - 1) : r = x % p
    BY <1>11
<1>10. x = (q * p) + r
    BY <1>11, <1>1, <1>2
<1>3. PICK b \in {0, 1} : b = q % 2
    BY <1>1
<1>4. PICK h \in Int : q = (2 * h) + b
  <2>1. q \div 2 \in Int /\ q = (2 * (q \div 2)) + (q % 2)
      BY <1>1
  <2> QED BY <1>3, <2>1
<1>5. b * p \in Int /\ (b * p) + r \in 0..((2 * p) - 1) /\ 2 * p \in Nat \ {0}
    BY <1>2, <1>3
<1>6. x = (h * (2 * p)) + ((b * p) + r)
  <2>1. q * p = (h * (2 * p)) + (b * p)
      BY <1>4, Z3
  <2>2. q * p \in Int /\ h * (2 * p) \in Int
      BY <1>4
  <2>3. PICK u \in Int : u = q * p
      BY <2>2
  <2>4. PICK v \in Int : v = h * (2 * p)
      BY <2>2
  <2>5. PICK w \in Int : w = b * p
      BY <1>5
  <2>6. u + r = v + (w + r)
      BY <2>1, <2>3, <2>4, <2>5
  <2> QED BY <1>10, <2>3, <2>4, <2>5, <2>6
<1>7. x % (2 * p) = (b * p) + r
    BY <1>4, <1>5, <1>6, Division
<1>8. (x \div p) % 2 = b
    BY <1>1, <1>3
<1>9. x % (2 * p) = (x % p) + (((x \div p) % 2) * p)
    BY <1>2, <1>5, <1>7, <1>8
<1> QED BY <1>2, <1>8, <1>9

\* A number modulo 2^(n + 1) is bit n and the number modulo 2^n.
LEMMA Low ==
    ASSUME NEW x \in Nat, NEW n \in Nat
    PROVE  /\ bit(x, n) \in {0, 1}
           /\ x % pow2[n] \in 0..(pow2[n] - 1)
           /\ x % pow2[n + 1] = (x % pow2[n]) + (bit(x, n) * pow2[n])
<1>1. pow2[n] \in Nat \ {0} /\ pow2[n + 1] = 2 * pow2[n]
    BY Pow
<1> QED BY <1>1, Digit DEF bit

----------------------------------------------------------------------------
(* Words and their bits.                                                   *)

\* A number is its bits up to i, and a number whose parity is bit i.
LEMMA AtBit ==
    ASSUME NEW x \in Nat, NEW i \in Nat
    PROVE  \E q \in Int : \E r \in 0..(pow2[i] - 1) :
              x = (q * pow2[i]) + r /\ bit(x, i) = q % 2
<1>1. PICK p \in Nat \ {0} : p = pow2[i]
    BY Pow
<1>2. x \div p \in Int /\ x % p \in 0..(p - 1) /\ x = ((x \div p) * p) + (x % p)
    BY Divide
<1>3. bit(x, i) = (x \div p) % 2
    BY <1>1 DEF bit
<1> QED BY <1>1, <1>2, <1>3, Zenon

\* The parity of what is in front of bit i is bit i.
LEMMA BitIs ==
    ASSUME NEW i \in Nat, NEW q \in Int, NEW r \in 0..(pow2[i] - 1)
    PROVE  bit((q * pow2[i]) + r, i) = q % 2
<1>1. pow2[i] \in Nat \ {0}
    BY Pow
<1>2. ((q * pow2[i]) + r) \div pow2[i] = q
    BY <1>1, Division
<1> QED BY <1>2 DEF bit

\* A power of two is an even multiple of a smaller one.
LEMMA EvenMultiple ==
    ASSUME NEW n \in Nat, NEW i \in 0..(n - 1)
    PROVE  \E h \in Nat \ {0} : pow2[n] = (2 * h) * pow2[i]
<1>1. i \in Nat /\ n - i \in Nat /\ (n - i) - 1 \in Nat /\ i + (n - i) = n
    OBVIOUS
<1>2. pow2[n] = pow2[i] * pow2[n - i]
    BY <1>1, PowSum
<1>3. pow2[(n - i) - 1] \in Nat \ {0} /\ ((n - i) - 1) + 1 = n - i
    BY <1>1, Pow
<1>4. pow2[n - i] = 2 * pow2[(n - i) - 1]
    BY <1>1, <1>3, Pow
<1>5. pow2[i] \in Nat
    BY <1>1, Pow
<1>6. PICK h \in Nat \ {0} : h = pow2[(n - i) - 1]
    BY <1>3
<1>7. PICK p \in Nat : p = pow2[i]
    BY <1>5
<1>8. p * (2 * h) = (2 * h) * p
    BY Z3
<1> QED BY <1>2, <1>4, <1>6, <1>7, <1>8

\* A multiple of 2^n more or less does not change the bits below n.
LEMMA BitsBelow ==
    ASSUME NEW x \in Nat, NEW n \in Nat, NEW i \in 0..(n - 1), NEW m \in Int
    PROVE  bit((m * pow2[n]) + x, i) = bit(x, i)
<1>1. i \in Nat
    OBVIOUS
<1>2. PICK q \in Int, r \in 0..(pow2[i] - 1) :
          x = (q * pow2[i]) + r /\ bit(x, i) = q % 2
    BY <1>1, AtBit
<1>3. PICK h \in Nat \ {0} : pow2[n] = (2 * h) * pow2[i]
    BY EvenMultiple
<1>4. PICK p \in Nat \ {0} : p = pow2[i]
    BY <1>1, Pow
<1>5. (m * pow2[n]) + x = (((2 * (m * h)) + q) * p) + r
  <2>1. m * ((2 * h) * p) = (2 * (m * h)) * p
      BY Z3
  <2>2. ((2 * (m * h)) + q) * p = ((2 * (m * h)) * p) + (q * p)
      BY Z3
  <2>3. (2 * (m * h)) * p \in Int /\ q * p \in Int
      BY Z3
  <2>4. PICK u \in Int : u = (2 * (m * h)) * p
      BY <2>3
  <2>5. PICK v \in Int : v = q * p
      BY <2>3
  <2>6. m * pow2[n] = u /\ x = v + r /\ ((2 * (m * h)) + q) * p = u + v
      BY <1>2, <1>3, <1>4, <2>1, <2>2, <2>4, <2>5
  <2> QED BY <1>4, <2>6
<1>6. m * h \in Int
    BY Z3
<1>7. PICK k \in Int : k = m * h
    BY <1>6
<1>8. bit((((2 * k) + q) * p) + r, i) = ((2 * k) + q) % 2
  <2>1. PICK s \in Int : s = (2 * k) + q
      OBVIOUS
  <2>2. bit((s * pow2[i]) + r, i) = s % 2
      BY <1>1, BitIs
  <2> QED BY <1>4, <2>1, <2>2
<1>9. ((2 * k) + q) % 2 = q % 2
    OBVIOUS
<1> QED BY <1>2, <1>5, <1>7, <1>8, <1>9

\* A number below 2^n is its own remainder.
LEMMA Small ==
    ASSUME NEW n \in Nat, NEW x \in 0..(pow2[n] - 1)
    PROVE  x \in Nat /\ x % pow2[n] = x /\ x < pow2[n]
<1>1. PICK p \in Nat \ {0} : p = pow2[n]
    BY Pow
<1> QED BY <1>1

\* The bits of zero.
LEMMA ZeroBits == \A i \in Nat : bit(0, i) = 0
<1> SUFFICES ASSUME NEW i \in Nat PROVE bit(0, i) = 0
    OBVIOUS
<1>1. PICK p \in Nat \ {0} : p = pow2[i]
    BY Pow
<1>2. 0 \in 0..(pow2[i] - 1)
    BY <1>1
<1>3. bit((0 * pow2[i]) + 0, i) = 0 % 2
    BY <1>2, BitIs
<1>4. (0 * p) + 0 = 0
    OBVIOUS
<1> QED BY <1>1, <1>3, <1>4

\* Every pattern of n bits is that of a number below 2^n.
LEMMA PatternExists ==
    ASSUME NEW b, NEW n \in Nat
    PROVE  \E x \in 0..(pow2[n] - 1) :
              \A i \in 0..(n - 1) : bit(x, i) = (IF b[i] THEN 1 ELSE 0)
<1> DEFINE Fits(x, k) == /\ x \in 0..(pow2[k] - 1)
                         /\ \A i \in 0..(k - 1) : bit(x, i) = (IF b[i] THEN 1 ELSE 0)
           T == {k \in Nat : ~\E x : Fits(x, k)}
<1> SUFFICES ASSUME T # {} PROVE FALSE
    OBVIOUS
<1>1. PICK k \in T : \A y \in T : k <= y
    BY Least
<1>2. k \in Nat /\ ~\E x : Fits(x, k)
    OBVIOUS
<1>3. CASE k = 0
  <2>1. Fits(0, 0)
      BY Pow
  <2> QED BY <1>2, <1>3, <2>1
<1>4. CASE k # 0
  <2>1. PICK n1 \in Nat : k = n1 + 1
    <3>1. k - 1 \in Nat /\ k = (k - 1) + 1
        BY <1>2, <1>4
    <3> QED BY <3>1
  <2>2. n1 \notin T
      BY <1>1, <2>1
  <2>3. PICK x : Fits(x, n1)
      BY <2>2
  <2>4. PICK p \in Nat \ {0} : p = pow2[n1] /\ pow2[k] = 2 * p
      BY <2>1, Pow
  <2>5. PICK c \in {0, 1} : c = IF b[n1] THEN 1 ELSE 0
      OBVIOUS
  <2>6. x \in Nat /\ x < p
      BY <2>3, <2>4
  <2>7. PICK y \in Nat : y = (c * p) + x
      BY <2>4, <2>6
  <2>8. y \in 0..(pow2[k] - 1)
      BY <2>4, <2>6, <2>7
  <2>9. ASSUME NEW i \in 0..(k - 1) PROVE bit(y, i) = (IF b[i] THEN 1 ELSE 0)
    <3>1. CASE i = n1
      <4>1. bit((c * pow2[n1]) + x, n1) = c % 2
        <5>1. c \in Int /\ x \in 0..(pow2[n1] - 1)
            BY <2>3
        <5> QED BY <5>1, BitIs
      <4>2. c % 2 = c
          OBVIOUS
      <4> QED BY <2>4, <2>5, <2>7, <3>1, <4>1, <4>2
    <3>2. CASE i # n1
      <4>1. i \in 0..(n1 - 1)
          BY <2>1, <3>2
      <4>2. bit((c * pow2[n1]) + x, i) = bit(x, i)
        <5>1. c \in Int
            OBVIOUS
        <5> QED BY <2>6, <4>1, <5>1, BitsBelow
      <4>3. bit(x, i) = (IF b[i] THEN 1 ELSE 0)
          BY <2>3, <4>1
      <4> QED BY <2>4, <2>7, <4>2, <4>3
    <3> QED BY <3>1, <3>2
  <2>10. Fits(y, k)
      BY <2>8, <2>9
  <2> QED BY <1>2, <2>10
<1> QED BY <1>3, <1>4

\* WordOf returns the word it describes.
LEMMA WordOfBits ==
    ASSUME NEW b
    PROVE  /\ WordOf(b) \in Words
           /\ \A i \in BitPos : bit(WordOf(b), i) = (IF b[i] THEN 1 ELSE 0)
<1>1. \E x \in Words : \A i \in BitPos : bit(x, i) = (IF b[i] THEN 1 ELSE 0)
  <2>1. WIDTH \in Nat
      BY WidthAssumption
  <2>2. \E x \in 0..(pow2[WIDTH] - 1) :
           \A i \in 0..(WIDTH - 1) : bit(x, i) = (IF b[i] THEN 1 ELSE 0)
      BY <2>1, PatternExists
  <2> QED BY <2>2, Zenon DEF Words, BitPos
<1> QED BY <1>1 DEF WordOf

\* Numbers whose bits add up the same add up the same.
LEMMA AddBits ==
    ASSUME NEW n \in Nat, NEW x \in Nat, NEW y \in Nat, NEW u \in Nat, NEW v \in Nat,
           \A i \in 0..(n - 1) : bit(x, i) + bit(y, i) = bit(u, i) + bit(v, i)
    PROVE  (x % pow2[n]) + (y % pow2[n]) = (u % pow2[n]) + (v % pow2[n])
<1> DEFINE T == {k \in 0..n :
                   (x % pow2[k]) + (y % pow2[k]) # (u % pow2[k]) + (v % pow2[k])}
<1> SUFFICES ASSUME T # {} PROVE FALSE
    OBVIOUS
<1>1. PICK k \in T : \A j \in T : k <= j
  <2>1. T \in SUBSET Nat
      OBVIOUS
  <2> HIDE DEF T
  <2> QED BY <2>1, Least
<1>2. k \in 0..n /\ (x % pow2[k]) + (y % pow2[k]) # (u % pow2[k]) + (v % pow2[k])
    OBVIOUS
<1>3. k # 0
  <2>1. x % 1 = 0 /\ y % 1 = 0 /\ u % 1 = 0 /\ v % 1 = 0
      OBVIOUS
  <2> QED BY <1>2, <2>1, Pow
<1>4. PICK m \in Nat : k = m + 1
  <2>1. k - 1 \in Nat /\ k = (k - 1) + 1
      BY <1>2, <1>3
  <2> QED BY <2>1
<1>5. m \in 0..(n - 1) /\ m \in 0..n /\ ~(k <= m)
    BY <1>2, <1>4
<1>6. (x % pow2[m]) + (y % pow2[m]) = (u % pow2[m]) + (v % pow2[m])
    BY <1>1, <1>5
<1>7. bit(x, m) + bit(y, m) = bit(u, m) + bit(v, m)
    BY <1>5
<1>8. PICK p \in Nat \ {0} : p = pow2[m]
    BY Pow
<1>9. ASSUME NEW z \in Nat
      PROVE  bit(z, m) \in {0, 1} /\ z % pow2[m] \in Nat
             /\ z % pow2[k] = (z % pow2[m]) + (IF bit(z, m) = 1 THEN p ELSE 0)
  <2>1. /\ bit(z, m) \in {0, 1} /\ z % pow2[m] \in 0..(p - 1)
        /\ z % pow2[k] = (z % pow2[m]) + (bit(z, m) * p)
      BY <1>4, <1>8, Low
  <2>2. 0 * p = 0 /\ 1 * p = p
      OBVIOUS
  <2> QED BY <2>1, <2>2
<1> QED BY <1>2, <1>6, <1>7, <1>9

\* Words are numbers below 2^WIDTH, of zeros and ones.
LEMMA WordFacts ==
    ASSUME NEW x \in Words
    PROVE  /\ x \in Nat /\ x < pow2[WIDTH] /\ x % pow2[WIDTH] = x
           /\ \A i \in BitPos : i \in Nat /\ bit(x, i) \in {0, 1}
<1>1. WIDTH \in Nat /\ x \in 0..(pow2[WIDTH] - 1)
    BY WidthAssumption DEF Words
<1>2. x \in Nat /\ x < pow2[WIDTH] /\ x % pow2[WIDTH] = x
    BY <1>1, Small
<1>3. \A i \in BitPos : i \in Nat
    BY WidthAssumption DEF BitPos
<1> QED BY <1>2, <1>3, Low

\* Words whose bits add up the same add up the same.
LEMMA AddWords ==
    ASSUME NEW x \in Words, NEW y \in Words, NEW u \in Words, NEW v \in Words,
           \A i \in BitPos : bit(x, i) + bit(y, i) = bit(u, i) + bit(v, i)
    PROVE  x + y = u + v
<1>1. /\ WIDTH \in Nat
      /\ \A i \in 0..(WIDTH - 1) : bit(x, i) + bit(y, i) = bit(u, i) + bit(v, i)
    BY WidthAssumption DEF BitPos
<1>2. x \in Nat /\ y \in Nat /\ u \in Nat /\ v \in Nat
    BY WordFacts
<1>3. (x % pow2[WIDTH]) + (y % pow2[WIDTH]) = (u % pow2[WIDTH]) + (v % pow2[WIDTH])
    BY <1>1, <1>2, AddBits
<1> QED BY <1>3, WordFacts

\* Zero is a word.
LEMMA ZeroIsWord == 0 \in Words /\ \A i \in BitPos : bit(0, i) = 0
<1>1. 0 \in Words
    BY WidthAssumption, Pow DEF Words
<1> QED BY <1>1, ZeroBits, WordFacts

\* Words with the same bits are the same.
LEMMA SameWord ==
    ASSUME NEW x \in Words, NEW y \in Words, \A i \in BitPos : bit(x, i) = bit(y, i)
    PROVE  x = y
<1>1. x + 0 = y + 0
    BY AddWords, ZeroIsWord
<1> QED BY <1>1, WordFacts

\* The bits of the bitwise operations.
LEMMA BitwiseBits ==
    ASSUME NEW x \in Words, NEW y \in Words
    PROVE  /\ BitAnd(x, y) \in Words /\ BitOr(x, y) \in Words /\ BitXor(x, y) \in Words
           /\ \A i \in BitPos :
                /\ bit(BitAnd(x, y), i) = IF bit(x, i) = 1 /\ bit(y, i) = 1 THEN 1 ELSE 0
                /\ bit(BitOr(x, y), i) = IF bit(x, i) = 1 \/ bit(y, i) = 1 THEN 1 ELSE 0
                /\ bit(BitXor(x, y), i) = IF bit(x, i) # bit(y, i) THEN 1 ELSE 0
<1> DEFINE a == [i \in BitPos |-> bit(x, i) = 1 /\ bit(y, i) = 1]
           o == [i \in BitPos |-> bit(x, i) = 1 \/ bit(y, i) = 1]
           e == [i \in BitPos |-> bit(x, i) # bit(y, i)]
<1>1. BitAnd(x, y) = WordOf(a) /\ BitOr(x, y) = WordOf(o) /\ BitXor(x, y) = WordOf(e)
    BY DEF BitAnd, BitOr, BitXor
<1>2. ASSUME NEW i \in BitPos
      PROVE  /\ a[i] <=> bit(x, i) = 1 /\ bit(y, i) = 1
             /\ o[i] <=> bit(x, i) = 1 \/ bit(y, i) = 1
             /\ e[i] <=> bit(x, i) # bit(y, i)
    BY <1>2, Zenon
<1> HIDE DEF a, o, e
<1>3. /\ WordOf(a) \in Words /\ WordOf(o) \in Words /\ WordOf(e) \in Words
      /\ \A i \in BitPos : /\ bit(WordOf(a), i) = (IF a[i] THEN 1 ELSE 0)
                           /\ bit(WordOf(o), i) = (IF o[i] THEN 1 ELSE 0)
                           /\ bit(WordOf(e), i) = (IF e[i] THEN 1 ELSE 0)
    BY WordOfBits
<1> QED BY <1>1, <1>2, <1>3

\* The bits of the complement.
LEMMA NotBits ==
    ASSUME NEW x \in Words
    PROVE  /\ BitNot(x) \in Words
           /\ \A i \in BitPos : bit(BitNot(x), i) = 1 - bit(x, i)
<1>1. pow2[WIDTH] \in Nat \ {0} /\ x \in 0..(pow2[WIDTH] - 1)
    BY WidthAssumption, Pow DEF Words
<1>2. BitNot(x) \in Words
    BY <1>1 DEF BitNot, Words
<1>3. ASSUME NEW i \in BitPos PROVE bit(BitNot(x), i) = 1 - bit(x, i)
  <2>1. x \in Nat /\ i \in Nat /\ WIDTH \in Nat /\ i \in 0..(WIDTH - 1)
      BY WidthAssumption, WordFacts DEF BitPos
  <2>2. PICK q \in Int, r \in 0..(pow2[i] - 1) :
            x = (q * pow2[i]) + r /\ bit(x, i) = q % 2
      BY <2>1, AtBit
  <2>3. PICK h \in Nat \ {0} : pow2[WIDTH] = (2 * h) * pow2[i]
      BY <2>1, EvenMultiple
  <2>4. PICK p \in Nat \ {0} : p = pow2[i]
      BY <2>1, Pow
  <2>5. PICK s \in Int : s = ((2 * h) - 1) - q
      OBVIOUS
  <2>6. PICK t \in 0..(p - 1) : t = (p - 1) - r
      BY <2>2, <2>4
  <2>7. BitNot(x) = (s * p) + t
    <3>1. s * p = ((2 * h) * p) - (p + (q * p))
        BY <2>5, Z3
    <3>2. (2 * h) * p \in Int /\ q * p \in Int /\ s * p \in Int
        BY Z3
    <3>3. PICK u \in Int : u = (2 * h) * p
        BY <3>2
    <3>4. PICK v \in Int : v = q * p
        BY <3>2
    <3>5. PICK w \in Int : w = s * p
        BY <3>2
    <3>6. w = u - (p + v) /\ x = v + r /\ pow2[WIDTH] = u
        BY <2>2, <2>3, <2>4, <3>1, <3>3, <3>4, <3>5
    <3>7. BitNot(x) = w + t
        BY <2>6, <3>6 DEF BitNot
    <3> QED BY <3>5, <3>7
  <2>8. bit((s * pow2[i]) + t, i) = s % 2
      BY <2>1, <2>4, BitIs
  <2>9. s % 2 = 1 - (q % 2)
      BY <2>5
  <2> QED BY <2>2, <2>4, <2>7, <2>8, <2>9
<1> QED BY <1>2, <1>3

----------------------------------------------------------------------------
(* Chunks.                                                                 *)

\* Powers of two grow.
LEMMA PowGrows ==
    ASSUME NEW m \in Nat, NEW n \in Nat, m <= n
    PROVE  pow2[m] <= pow2[n]
<1>1. n - m \in Nat /\ m + (n - m) = n
    OBVIOUS
<1>2. PICK k \in Nat : k = n - m
    BY <1>1
<1>3. pow2[n] = pow2[m] * pow2[k]
    BY <1>1, <1>2, PowSum
<1>4. PICK p \in Nat \ {0} : p = pow2[m]
    BY Pow
<1>5. PICK q \in Nat \ {0} : q = pow2[k]
    BY Pow
<1>6. p <= p * q
    BY Z3
<1> QED BY <1>3, <1>4, <1>5, <1>6

\* A product of two parts, each below a power of two.
LEMMA Compose ==
    ASSUME NEW j \in Nat, NEW k \in Nat, NEW r \in 0..(pow2[j] - 1),
           NEW t \in 0..(pow2[k] - 1)
    PROVE  (r * pow2[k]) + t \in 0..(pow2[j + k] - 1)
<1>1. PICK p \in Nat \ {0} : p = pow2[j]
    BY Pow
<1>2. PICK q \in Nat \ {0} : q = pow2[k]
    BY Pow
<1>3. pow2[j + k] = p * q
    BY <1>1, <1>2, PowSum
<1>4. r * q <= (p - 1) * q /\ 0 <= r * q
  <2>1. r \in Nat /\ (p - 1) - r \in Nat
      BY <1>1
  <2>2. ((p - 1) - r) * q >= 0 /\ r * q >= 0
      BY <2>1, Z3
  <2>3. ((p - 1) - r) * q = ((p - 1) * q) - (r * q)
      BY <2>1, Z3
  <2>4. r * q \in Int /\ (p - 1) * q \in Int
      BY <2>1, Z3
  <2>5. PICK u \in Int : u = r * q
      BY <2>4
  <2>6. PICK v \in Int : v = (p - 1) * q
      BY <2>4
  <2>7. v - u >= 0 /\ u >= 0
      BY <2>2, <2>3, <2>5, <2>6
  <2> QED BY <2>5, <2>6, <2>7
<1>5. (p - 1) * q = (p * q) - q /\ p * q \in Int /\ r * q \in Int
    BY Z3
<1>6. PICK a \in Int : a = r * q
    BY <1>5
<1>7. PICK b \in Int : b = p * q
    BY <1>5
<1>8. a <= b - q /\ 0 <= a /\ t \in 0..(q - 1)
    BY <1>2, <1>4, <1>5, <1>6, <1>7
<1>9. a + t \in 0..(b - 1)
    BY <1>8
<1> QED BY <1>2, <1>3, <1>6, <1>7, <1>9

\* Bit j in front of k bits is bit k + j.
LEMMA BitsAbove ==
    ASSUME NEW y \in Nat, NEW k \in Nat, NEW t \in 0..(pow2[k] - 1), NEW j \in Nat
    PROVE  bit((y * pow2[k]) + t, j + k) = bit(y, j)
<1>1. PICK q \in Int, r \in 0..(pow2[j] - 1) :
          y = (q * pow2[j]) + r /\ bit(y, j) = q % 2
    BY AtBit
<1>2. PICK p \in Nat \ {0} : p = pow2[j]
    BY Pow
<1>3. PICK s \in Nat \ {0} : s = pow2[k]
    BY Pow
<1>4. pow2[j + k] = p * s
    BY <1>2, <1>3, PowSum
<1>5. PICK e \in 0..(pow2[j + k] - 1) : e = (r * s) + t
    BY <1>3, Compose
<1>6. (y * s) + t = (q * (p * s)) + e
  <2>1. ((q * p) + r) * s = (q * (p * s)) + (r * s)
    <3>1. r \in Int
        BY <1>1, <1>2
    <3> QED BY <3>1, Z3
  <2>2. r \in Int /\ r * s \in Int /\ q * (p * s) \in Int
      BY <1>1, <1>2, Z3
  <2>3. PICK u \in Int : u = r * s
      BY <2>2
  <2>4. PICK v \in Int : v = q * (p * s)
      BY <2>2
  <2>5. y * s = v + u /\ e = u + t
      BY <1>1, <1>2, <1>5, <2>1, <2>3, <2>4
  <2> QED BY <2>4, <2>5
<1>7. bit((q * pow2[j + k]) + e, j + k) = q % 2
  <2>1. j + k \in Nat
      OBVIOUS
  <2> QED BY <2>1, BitIs
<1> QED BY <1>1, <1>3, <1>4, <1>6, <1>7

\* A number below 2^n has no bits from n on.
LEMMA NoBits ==
    ASSUME NEW n \in Nat, NEW x \in 0..(pow2[n] - 1), NEW i \in Nat, n <= i
    PROVE  bit(x, i) = 0
<1>1. PICK p \in Nat \ {0} : p = pow2[i] /\ x \in 0..(p - 1)
    BY Pow, PowGrows
<1>2. bit((0 * pow2[i]) + x, i) = 0 % 2
  <2>1. 0 \in Int /\ x \in 0..(pow2[i] - 1)
      BY <1>1
  <2> QED BY <2>1, BitIs
<1>3. (0 * p) + x = x
    BY <1>1
<1> QED BY <1>1, <1>2, <1>3

\* A chunk lies within the register, and bit i in chunk i \div CHUNK.
LEMMA ChunkFacts ==
    /\ WIDTH \in Nat /\ CHUNK \in Nat \ {0}
    /\ \A hw \in Chunks : HwShift(hw) \in Nat /\ HwShift(hw) + CHUNK <= WIDTH
    /\ \A i \in BitPos :
          /\ i \div CHUNK \in Chunks
          /\ \A hw \in Chunks :
                i \div CHUNK = hw <=> i \in HwShift(hw)..(HwShift(hw) + CHUNK - 1)
<1>1. WIDTH \in Nat \ {0} /\ CHUNK \in Nat \ {0} /\ WIDTH % CHUNK = 0
    BY WidthAssumption
<1>2. PICK c \in Nat \ {0} : c = CHUNK
    BY <1>1
<1>3. PICK n \in Int : n = WIDTH \div CHUNK /\ WIDTH = n * c
  <2>1. /\ WIDTH \div c \in Int
        /\ WIDTH = ((WIDTH \div c) * c) + (WIDTH % c)
      BY <1>1, Divide
  <2>2. PICK n \in Int : n = WIDTH \div c
      BY <2>1
  <2>3. n * c \in Int /\ WIDTH = (n * c) + 0
      BY <1>1, <1>2, <2>1, <2>2
  <2>4. WIDTH = n * c
      BY <2>3
  <2> QED BY <1>2, <2>2, <2>4
<1>4. Chunks = 0..(n - 1)
    BY <1>3 DEF Chunks
<1>5. ASSUME NEW hw \in Chunks
      PROVE  HwShift(hw) = hw * c /\ HwShift(hw) \in Nat /\ HwShift(hw) + CHUNK <= WIDTH
  <2>1. hw \in Nat /\ n - (hw + 1) \in Nat
      BY <1>4
  <2>2. HwShift(hw) = hw * c
      BY <1>2 DEF HwShift
  <2>3. (n - (hw + 1)) * c >= 0 /\ hw * c >= 0 /\ hw * c \in Int /\ n * c \in Int
      BY <2>1, Z3
  <2>4. (n - (hw + 1)) * c = (n * c) - ((hw * c) + c)
      BY <2>1, Z3
  <2>5. PICK u \in Int : u = hw * c
      BY <2>3
  <2>6. PICK v \in Int : v = n * c
      BY <2>3
  <2>7. u >= 0 /\ u + c <= v
      BY <2>3, <2>4, <2>5, <2>6
  <2> QED BY <1>2, <1>3, <2>2, <2>5, <2>6, <2>7
<1>6. ASSUME NEW i \in BitPos
      PROVE  /\ i \div CHUNK \in Chunks
             /\ \A hw \in Chunks :
                   i \div CHUNK = hw <=> i \in HwShift(hw)..(HwShift(hw) + CHUNK - 1)
  <2>1. i \in Nat /\ i < WIDTH
      BY <1>1 DEF BitPos
  <2>2. PICK q \in Int : q = i \div c
    <3>1. i \in Int
        BY <2>1
    <3>2. i \div c \in Int
        BY <3>1, Divide
    <3> QED BY <3>2
  <2>3. PICK r \in 0..(c - 1) : i = (q * c) + r
    <3>1. i % c \in 0..(c - 1) /\ i = ((i \div c) * c) + (i % c)
        BY <2>1, Divide
    <3> QED BY <2>2, <3>1
  <2>4. q \in 0..(n - 1)
    <3>1. ASSUME q < 0 PROVE FALSE
      <4>1. q * c <= -c
          BY <3>1, Z3
      <4>2. PICK u \in Int : u = q * c
          BY Z3
      <4> QED BY <2>1, <2>3, <4>1, <4>2
    <3>2. ASSUME q >= n PROVE FALSE
      <4>1. q * c >= n * c
          BY <3>2, Z3
      <4>2. PICK u \in Int : u = q * c
          BY Z3
      <4> QED BY <1>3, <2>1, <2>3, <4>1, <4>2
    <3> QED BY <3>1, <3>2
  <2>5. ASSUME NEW hw \in Chunks
        PROVE  q = hw <=> i \in HwShift(hw)..(HwShift(hw) + CHUNK - 1)
    <3>1. hw \in Nat /\ HwShift(hw) = hw * c /\ HwShift(hw) \in Nat
        BY <1>4, <1>5
    <3>2. ASSUME q = hw PROVE i \in HwShift(hw)..(HwShift(hw) + CHUNK - 1)
      <4>1. i = HwShift(hw) + r
          BY <2>3, <3>1, <3>2
      <4> QED BY <1>2, <3>1, <4>1
    <3>3. ASSUME i \in HwShift(hw)..(HwShift(hw) + CHUNK - 1) PROVE q = hw
      <4>1. PICK s \in 0..(c - 1) : i = HwShift(hw) + s
        <5>1. i - HwShift(hw) \in 0..(c - 1) /\ i = HwShift(hw) + (i - HwShift(hw))
            BY <1>2, <3>1, <3>3
        <5> QED BY <5>1
      <4>2. hw \in Int /\ i = (hw * c) + s
          BY <3>1, <4>1
      <4>3. ((hw * c) + s) \div c = hw
          BY <4>2, Division
      <4> QED BY <2>2, <4>2, <4>3
    <3> QED BY <3>2, <3>3
  <2> QED BY <1>2, <1>4, <2>2, <2>4, <2>5
<1> QED BY <1>1, <1>5, <1>6

\* Moving w, a chunk's value, to a chunk: its bits are there, and zeros elsewhere.
LEMMA ShiftedChunk ==
    ASSUME NEW w \in 0..(pow2[CHUNK] - 1), NEW hw \in Chunks
    PROVE  /\ ShiftLeft(w, HwShift(hw)) \in Words
           /\ \A i \in BitPos :
                /\ i \div CHUNK = hw =>
                      bit(ShiftLeft(w, HwShift(hw)), i) = bit(w, i - HwShift(hw))
                /\ i \div CHUNK # hw => bit(ShiftLeft(w, HwShift(hw)), i) = 0
<1>1. PICK k \in Nat : k = HwShift(hw)
    BY ChunkFacts
<1>2. /\ CHUNK \in Nat /\ WIDTH \in Nat /\ k + CHUNK <= WIDTH
      /\ \A i \in BitPos : i \div CHUNK = hw <=> i \in k..(k + CHUNK - 1)
    BY <1>1, ChunkFacts
<1>3. PICK p \in Nat \ {0} : p = pow2[k]
    BY Pow
<1>4. w \in Nat
    BY <1>2, Pow
<1>5. PICK s \in Nat : s = w * p
    BY <1>4
<1>6. s \in 0..(pow2[CHUNK + k] - 1)
  <2>1. 0 \in 0..(pow2[k] - 1)
      BY <1>3
  <2>2. (w * pow2[k]) + 0 \in 0..(pow2[CHUNK + k] - 1)
      BY <1>2, <2>1, Compose
  <2> QED BY <1>3, <1>5, <2>2
<1>7. s \in 0..(pow2[WIDTH] - 1)
  <2>1. CHUNK + k \in Nat /\ CHUNK + k <= WIDTH
      BY <1>2
  <2>2. pow2[CHUNK + k] <= pow2[WIDTH] /\ pow2[CHUNK + k] \in Nat /\ pow2[WIDTH] \in Nat
      BY <1>2, <2>1, Pow, PowGrows
  <2> QED BY <1>6, <2>2
<1>8. s \in Words /\ ShiftLeft(w, HwShift(hw)) = s
  <2>1. s % pow2[WIDTH] = s
      BY <1>2, <1>7, Small
  <2>2. s \in Words
      BY <1>7 DEF Words
  <2> QED BY <1>1, <1>3, <1>5, <2>1, <2>2 DEF ShiftLeft
<1>9. ASSUME NEW i \in BitPos, i \in k..(k + CHUNK - 1) PROVE bit(s, i) = bit(w, i - k)
  <2>1. PICK j \in Nat : j = i - k
      BY <1>9
  <2>2. 0 \in 0..(pow2[k] - 1)
      BY <1>3
  <2>3. bit((w * pow2[k]) + 0, j + k) = bit(w, j)
      BY <1>4, <2>2, BitsAbove
  <2>4. (w * p) + 0 = s /\ j + k = i
      BY <1>5, <1>9, <2>1
  <2> QED BY <1>3, <2>1, <2>3, <2>4
<1>10. ASSUME NEW i \in BitPos, i \notin k..(k + CHUNK - 1) PROVE bit(s, i) = 0
  <2>1. i \in Nat
      BY <1>2 DEF BitPos
  <2>2. CASE i < k
    <3>1. i \in 0..(k - 1) /\ 0 \in Nat /\ w \in Int
        BY <1>4, <2>1, <2>2
    <3>2. bit((w * pow2[k]) + 0, i) = bit(0, i)
        BY <3>1, BitsBelow
    <3>3. (w * p) + 0 = s
        BY <1>5
    <3> QED BY <1>3, <2>1, <3>2, <3>3, ZeroBits
  <2>3. CASE i >= k
    <3>1. CHUNK + k \in Nat /\ CHUNK + k <= i
        BY <1>2, <1>10, <2>1, <2>3
    <3> QED BY <1>6, <2>1, <3>1, NoBits
  <2> QED BY <2>1, <2>2, <2>3
<1> QED BY <1>1, <1>2, <1>8, <1>9, <1>10

\* The value of a chunk, and its bits.
LEMMA ChunkBits ==
    ASSUME NEW x \in Words, NEW hw \in Chunks
    PROVE  /\ ChunkOf(x, hw) \in 0..(pow2[CHUNK] - 1)
           /\ \A j \in 0..(CHUNK - 1) : bit(ChunkOf(x, hw), j) = bit(x, j + HwShift(hw))
<1>1. PICK k \in Nat : k = HwShift(hw)
    BY ChunkFacts
<1>2. CHUNK \in Nat /\ x \in Nat
    BY ChunkFacts, WordFacts
<1>3. PICK p \in Nat \ {0} : p = pow2[k]
    BY Pow
<1>4. PICK y \in Nat : y = x \div p
  <2>1. x \div p \in Nat
      BY <1>2
  <2> QED BY <2>1
<1>5. PICK t \in 0..(p - 1) : x = (y * p) + t
  <2>1. x % p \in 0..(p - 1) /\ x = ((x \div p) * p) + (x % p)
      BY <1>2, Divide
  <2> QED BY <1>4, <2>1
<1>6. PICK c \in Nat \ {0} : c = pow2[CHUNK]
    BY <1>2, Pow
<1>7. PICK w \in 0..(c - 1) : w = y % c
    BY Divide
<1>8. PICK m \in Int : y = (m * c) + w
  <2>1. y \div c \in Int /\ y = ((y \div c) * c) + (y % c)
      BY Divide
  <2> QED BY <1>7, <2>1
<1>9. ChunkOf(x, hw) = w
    BY <1>1, <1>3, <1>4, <1>6, <1>7 DEF ChunkOf, ShiftRight
<1>10. ASSUME NEW j \in 0..(CHUNK - 1) PROVE bit(w, j) = bit(x, j + k)
  <2>1. bit((m * pow2[CHUNK]) + w, j) = bit(w, j)
    <3>1. w \in Nat
        BY <1>7
    <3> QED BY <1>2, <3>1, BitsBelow
  <2>2. bit((y * pow2[k]) + t, j + k) = bit(y, j)
    <3>1. j \in Nat /\ t \in 0..(pow2[k] - 1)
        BY <1>3
    <3> QED BY <3>1, BitsAbove
  <2> QED BY <1>3, <1>5, <1>6, <1>8, <2>1, <2>2
<1> QED BY <1>1, <1>6, <1>7, <1>9, <1>10

\* The mask of a chunk is all ones.
LEMMA MaskBits ==
    /\ pow2[CHUNK] - 1 \in 0..(pow2[CHUNK] - 1)
    /\ \A j \in 0..(CHUNK - 1) : bit(pow2[CHUNK] - 1, j) = 1
<1>1. PICK c \in Nat \ {0} : c = pow2[CHUNK]
    BY ChunkFacts, Pow
<1>2. ASSUME NEW j \in 0..(CHUNK - 1) PROVE bit(c - 1, j) = 1
  <2>1. CHUNK \in Nat /\ j \in Nat
      BY ChunkFacts
  <2>2. PICK h \in Nat \ {0} : pow2[CHUNK] = (2 * h) * pow2[j]
      BY <2>1, EvenMultiple
  <2>3. PICK p \in Nat \ {0} : p = pow2[j]
      BY <2>1, Pow
  <2>4. PICK s \in Int : s = (2 * h) - 1
      OBVIOUS
  <2>5. PICK t \in 0..(p - 1) : t = p - 1
      OBVIOUS
  <2>6. c - 1 = (s * p) + t
    <3>1. s * p = ((2 * h) * p) - p /\ s * p \in Int /\ (2 * h) * p \in Int
        BY <2>4, Z3
    <3>2. PICK u \in Int : u = s * p
        BY <3>1
    <3>3. PICK v \in Int : v = (2 * h) * p
        BY <3>1
    <3>4. u = v - p /\ c = v
        BY <1>1, <2>2, <2>3, <3>1, <3>2, <3>3
    <3> QED BY <2>5, <3>2, <3>4
  <2>7. bit((s * pow2[j]) + t, j) = s % 2
    <3>1. t \in 0..(pow2[j] - 1)
        BY <2>3
    <3> QED BY <2>1, <3>1, BitIs
  <2>8. s % 2 = 1
      BY <2>4
  <2> QED BY <2>3, <2>6, <2>7, <2>8
<1> QED BY <1>1, <1>2

\* ClearChunk clears a chunk and leaves the others.
LEMMA ClearBits ==
    ASSUME NEW a \in Words, NEW hw \in Chunks
    PROVE  /\ ClearChunk(a, hw) \in Words
           /\ \A i \in BitPos :
                bit(ClearChunk(a, hw), i) = IF i \div CHUNK = hw THEN 0 ELSE bit(a, i)
<1>1. PICK m : m = ShiftLeft(pow2[CHUNK] - 1, HwShift(hw))
    OBVIOUS
<1>2. /\ m \in Words
      /\ \A i \in BitPos : /\ i \div CHUNK = hw =>
                                 bit(m, i) = bit(pow2[CHUNK] - 1, i - HwShift(hw))
                           /\ i \div CHUNK # hw => bit(m, i) = 0
    BY <1>1, MaskBits, ShiftedChunk
<1>3. ASSUME NEW i \in BitPos, i \div CHUNK = hw PROVE bit(m, i) = 1
  <2>1. i \in HwShift(hw)..(HwShift(hw) + CHUNK - 1) /\ HwShift(hw) \in Nat /\ CHUNK \in Nat
      BY <1>3, ChunkFacts
  <2>2. i - HwShift(hw) \in 0..(CHUNK - 1)
      BY <2>1
  <2> QED BY <1>2, <1>3, <2>2, MaskBits
<1>4. /\ BitNot(m) \in Words
      /\ \A i \in BitPos : bit(BitNot(m), i) = 1 - bit(m, i)
    BY <1>2, NotBits
<1>5. ClearChunk(a, hw) = BitAnd(a, BitNot(m))
    BY <1>1 DEF ClearChunk
<1>6. /\ BitAnd(a, BitNot(m)) \in Words
      /\ \A i \in BitPos : bit(BitAnd(a, BitNot(m)), i)
                              = IF bit(a, i) = 1 /\ bit(BitNot(m), i) = 1 THEN 1 ELSE 0
    BY <1>4, BitwiseBits
<1>7. \A i \in BitPos : bit(a, i) \in {0, 1}
    BY WordFacts
<1> QED BY <1>2, <1>3, <1>4, <1>5, <1>6, <1>7

----------------------------------------------------------------------------
(* What the registers of MCAlu hold.                                       *)

Single == {"PLUS", "MINUS", "INV", "OR", "EOR", "AND"}

Operated ==
    last \in Single =>
        /\ acc = AluResult(last, old, target, 0)
        /\ cc = AluCC(last, old, target, acc)

\* Every chunk that has been moved is the constant's.
Moved ==
    last = "MOV" =>
        /\ acc \in Words /\ chunks \subseteq Chunks
        /\ \A i \in BitPos : i \div CHUNK \notin chunks => bit(acc, i) = bit(target, i)

AluInv ==
    /\ old \in Words /\ target \in Words
    /\ last = "none" => chunks = Chunks
    /\ last = "DECODE" => insn \in Instructions
    /\ Operated /\ Moved

\* OR of a chunk of the constant into a word that has none of its bits.
LEMMA MoveChunk ==
    ASSUME NEW a \in Words, NEW x \in Words, NEW hw \in Chunks,
           \A i \in BitPos : i \div CHUNK = hw => bit(a, i) = 0
    PROVE  LET r == AluResult("MOV", a, ChunkOf(x, hw), hw)
           IN /\ r \in Words
              /\ \A i \in BitPos :
                   bit(r, i) = IF i \div CHUNK = hw THEN bit(x, i) ELSE bit(a, i)
<1>1. PICK w \in 0..(pow2[CHUNK] - 1) : w = ChunkOf(x, hw)
    BY ChunkBits
<1>2. PICK m : m = ShiftLeft(w, HwShift(hw))
    OBVIOUS
<1>3. /\ m \in Words
      /\ \A i \in BitPos : /\ i \div CHUNK = hw => bit(m, i) = bit(w, i - HwShift(hw))
                           /\ i \div CHUNK # hw => bit(m, i) = 0
    BY <1>2, ShiftedChunk
<1>4. ASSUME NEW i \in BitPos, i \div CHUNK = hw PROVE bit(m, i) = bit(x, i)
  <2>1. i \in HwShift(hw)..(HwShift(hw) + CHUNK - 1) /\ HwShift(hw) \in Nat /\ CHUNK \in Nat
      BY <1>4, ChunkFacts
  <2>2. PICK j \in 0..(CHUNK - 1) : j = i - HwShift(hw)
      BY <2>1
  <2>3. bit(w, j) = bit(x, j + HwShift(hw))
      BY <1>1, ChunkBits
  <2>4. j + HwShift(hw) = i
      BY <2>1, <2>2
  <2> QED BY <1>3, <1>4, <2>2, <2>3, <2>4
<1>5. AluResult("MOV", a, ChunkOf(x, hw), hw) = BitOr(a, m)
    BY <1>1, <1>2 DEF AluResult
<1>6. /\ BitOr(a, m) \in Words
      /\ \A i \in BitPos :
            bit(BitOr(a, m), i) = IF bit(a, i) = 1 \/ bit(m, i) = 1 THEN 1 ELSE 0
    BY <1>3, BitwiseBits
<1>7. \A i \in BitPos : bit(a, i) \in {0, 1} /\ bit(x, i) \in {0, 1}
    BY WordFacts
<1>8. ASSUME NEW i \in BitPos
      PROVE  bit(BitOr(a, m), i) = IF i \div CHUNK = hw THEN bit(x, i) ELSE bit(a, i)
    BY <1>3, <1>4, <1>6, <1>7
<1> QED BY <1>5, <1>6, <1>8

\* AluInv is inductive.
LEMMA AluInductive == AluSpec => []AluInv
<1>1. AluInit => AluInv
    BY DEF AluInit, AluInv, Operated, Moved, Single
<1>2. AluInv /\ [AluNext]_aluVars => AluInv'
  <2> SUFFICES ASSUME AluInv, [AluNext]_aluVars PROVE AluInv'
      OBVIOUS
  <2>1. CASE compute
    <3>1. PICK op \in Single : last = "none" /\ Set(op, AluOut(op, old, target, 0))
        BY <2>1 DEF compute, Single
    <3>2. /\ last' = op /\ old' = old /\ target' = target
          /\ acc' = AluResult(op, old, target, 0)
          /\ cc' = AluCC(op, old, target, acc')
        BY <3>1 DEF Set, AluOut
    <3>3. op # "MOV" /\ op # "none" /\ op # "DECODE"
        BY DEF Single
    <3> QED BY <3>2, <3>3 DEF AluInv, Operated, Moved
  <2>2. CASE movz
    <3>1. PICK hw \in Chunks : /\ last = "none"
                               /\ Set("MOV", AluOut("MOV", 0, ChunkOf(target, hw), hw))
                               /\ chunks' = chunks \ {hw}
        BY <2>2 DEF movz
    <3>2. /\ last' = "MOV" /\ old' = old /\ target' = target
          /\ acc' = AluResult("MOV", 0, ChunkOf(target, hw), hw)
        BY <3>1 DEF Set, AluOut
    <3>3. target \in Words /\ old \in Words /\ chunks = Chunks
        BY <3>1 DEF AluInv
    <3>4. /\ acc' \in Words
          /\ \A i \in BitPos :
               bit(acc', i) = IF i \div CHUNK = hw THEN bit(target, i) ELSE bit(0, i)
        BY <3>2, <3>3, ZeroIsWord, MoveChunk
    <3>5. ASSUME NEW i \in BitPos, i \div CHUNK \notin chunks'
          PROVE  bit(acc', i) = bit(target, i)
        BY <3>1, <3>3, <3>4, <3>5, ChunkFacts
    <3>6. Moved'
        BY <3>1, <3>2, <3>3, <3>4, <3>5 DEF Moved
    <3> QED BY <3>2, <3>3, <3>6 DEF AluInv, Operated, Single
  <2>3. CASE movk
    <3>1. PICK hw \in chunks :
              /\ last = "MOV"
              /\ Set("MOV", AluOut("MOV", ClearChunk(acc, hw), ChunkOf(target, hw), hw))
              /\ chunks' = chunks \ {hw}
        BY <2>3 DEF movk
    <3>2. /\ last' = "MOV" /\ old' = old /\ target' = target
          /\ acc' = AluResult("MOV", ClearChunk(acc, hw), ChunkOf(target, hw), hw)
        BY <3>1 DEF Set, AluOut
    <3>3. /\ target \in Words /\ old \in Words /\ acc \in Words /\ chunks \subseteq Chunks
          /\ \A i \in BitPos : i \div CHUNK \notin chunks => bit(acc, i) = bit(target, i)
        BY <3>1 DEF AluInv, Moved
    <3>4. PICK a \in Words : /\ a = ClearChunk(acc, hw)
                             /\ \A i \in BitPos :
                                  bit(a, i) = IF i \div CHUNK = hw THEN 0 ELSE bit(acc, i)
        BY <3>1, <3>3, ClearBits
    <3>5. /\ acc' \in Words
          /\ \A i \in BitPos :
               bit(acc', i) = IF i \div CHUNK = hw THEN bit(target, i) ELSE bit(a, i)
        BY <3>2, <3>3, <3>4, MoveChunk
    <3>6. ASSUME NEW i \in BitPos, i \div CHUNK \notin chunks'
          PROVE  bit(acc', i) = bit(target, i)
        BY <3>1, <3>3, <3>4, <3>5, <3>6
    <3>7. Moved'
        BY <3>1, <3>2, <3>3, <3>5, <3>6 DEF Moved
    <3> QED BY <3>2, <3>3, <3>7 DEF AluInv, Operated, Single
  <2>4. CASE decode
      BY <2>4 DEF decode, AluInv, Operated, Moved, Single
  <2>5. CASE UNCHANGED aluVars
      BY <2>5 DEF aluVars, AluInv, Operated, Moved
  <2> QED BY <2>1, <2>2, <2>3, <2>4, <2>5 DEF AluNext
<1> QED BY <1>1, <1>2, PTL DEF AluSpec

\* A MOVZ and a MOVK for every other chunk, in any order, load the constant, for
\* every width and every constant.
THEOREM MovesBuild == AluSpec => []MovBuildsConstant
<1>1. AluInv => MovBuildsConstant
  <2> SUFFICES ASSUME AluInv, last = "MOV", chunks = {} PROVE acc = target
      BY DEF MovBuildsConstant
  <2>1. /\ acc \in Words /\ target \in Words
        /\ \A i \in BitPos : bit(acc, i) = bit(target, i)
      BY DEF AluInv, Moved
  <2> QED BY <2>1, SameWord
<1> QED BY <1>1, AluInductive, PTL

----------------------------------------------------------------------------
(* Sums, differences and flags.                                            *)

\* The first chunk is not shifted.
LEMMA Unshifted == \A x \in Words : ShiftLeft(x, HwShift(0)) = x
<1> SUFFICES ASSUME NEW x \in Words PROVE ShiftLeft(x, HwShift(0)) = x
    OBVIOUS
<1>1. HwShift(0) = 0
    BY WidthAssumption DEF HwShift
<1>2. x \in Nat /\ x % pow2[WIDTH] = x /\ pow2[0] = 1
    BY WordFacts, Pow
<1>3. x * 1 = x
    BY <1>2
<1> QED BY <1>1, <1>2, <1>3 DEF ShiftLeft

\* The sum and the difference of two words.
LEMMA SumAndDifference ==
    ASSUME NEW x \in Words, NEW y \in Words
    PROVE  /\ AluResult("PLUS", x, y, 0) = (x + y) % pow2[WIDTH]
           /\ AluResult("MINUS", x, y, 0) = (x - y) % pow2[WIDTH]
BY Unshifted DEF AluResult

\* The modulus is even, and the upper half of the words is negative.
LEMMA Halves ==
    \E H \in Nat \ {0} :
       /\ pow2[WIDTH] = 2 * H
       /\ \A x \in Words : msb(x) \in {0, 1} /\ (msb(x) = 1 <=> x >= H)
<1>1. PICK n \in Nat : n = WIDTH - 1 /\ WIDTH = n + 1
    BY WidthAssumption
<1>2. PICK H \in Nat \ {0} : H = pow2[n] /\ pow2[WIDTH] = 2 * H
    BY <1>1, Pow
<1>3. ASSUME NEW x \in Words
      PROVE  msb(x) \in {0, 1} /\ (msb(x) = 1 <=> x >= H)
  <2>1. x \in Nat /\ x % pow2[n + 1] = x
      BY <1>1, WordFacts
  <2>2. PICK b \in {0, 1} : b = bit(x, n)
      BY <2>1, Low
  <2>3. PICK r \in 0..(H - 1) : r = x % H
      BY <1>2, <2>1
  <2>4. x = r + (b * H)
      BY <1>2, <2>1, <2>2, <2>3, Low
  <2>5. msb(x) = b
      BY <1>1, <2>2 DEF msb
  <2>6. 0 * H = 0 /\ 1 * H = H
      OBVIOUS
  <2> QED BY <2>3, <2>4, <2>5, <2>6
<1> QED BY <1>2, <1>3

\* After a subtraction, C, Z and the unsigned conditions order the operands, for
\* words of every width.
THEOREM SubtractionOrders == AluSpec => []UnsignedOrder
<1>1. AluInv => UnsignedOrder
  <2> SUFFICES ASSUME AluInv, last = "MINUS" PROVE UnsignedOrder
      BY DEF UnsignedOrder
  <2>1. PICK M \in Nat : M = pow2[WIDTH]
      BY WidthAssumption, Pow
  <2>2. old \in Nat /\ target \in Nat /\ old < M /\ target < M
      BY <2>1, WordFacts DEF AluInv
  <2>3. acc = (old - target) % M /\ cc = AluCC("MINUS", old, target, acc)
      BY <2>1, SumAndDifference DEF AluInv, Operated, Single
  <2>4. acc = 0 <=> old = target
    <3>1. CASE old >= target
      <4>1. PICK d \in 0..(M - 1) : d = old - target
          BY <2>2, <3>1
      <4>2. d % M = d
          BY <2>2
      <4> QED BY <2>2, <2>3, <4>1, <4>2
    <3>2. CASE old < target
      <4>1. PICK d \in 1..(M - 1) : d = (old - target) + M
          BY <2>2, <3>2
      <4>2. (((-1) * M) + d) % M = d
          BY Division
      <4>3. ((-1) * M) + d = old - target
          BY <2>2, <4>1
      <4> QED BY <2>2, <2>3, <3>2, <4>2, <4>3
    <3> QED BY <2>2, <3>1, <3>2
  <2>5. cc.z = (IF old = target THEN 1 ELSE 0) /\ cc.c = (IF old >= target THEN 1 ELSE 0)
      BY <2>3, <2>4 DEF AluCC
  <2> QED BY <2>2, <2>5 DEF UnsignedOrder, cond_holds
<1> QED BY <1>1, AluInductive, PTL

\* An addition sets C and V exactly when the unsigned and the signed sum do not
\* fit, for words of every width.
THEOREM AdditionFlags == AluSpec => []AddFlags
<1>1. AluInv => AddFlags
  <2> SUFFICES ASSUME AluInv, last = "PLUS" PROVE AddFlags
      BY DEF AddFlags
  <2>1. PICK H \in Nat \ {0} :
            /\ pow2[WIDTH] = 2 * H
            /\ \A x \in Words : msb(x) \in {0, 1} /\ (msb(x) = 1 <=> x >= H)
      BY Halves
  <2>2. /\ old \in Words /\ target \in Words
        /\ old \in 0..((2 * H) - 1) /\ target \in 0..((2 * H) - 1)
      BY <2>1 DEF AluInv, Words
  <2>3. acc = (old + target) % (2 * H) /\ cc = AluCC("PLUS", old, target, acc)
      BY <2>1, <2>2, SumAndDifference DEF AluInv, Operated, Single
  <2>4. acc = IF old + target >= 2 * H THEN (old + target) - (2 * H) ELSE old + target
    <3>1. CASE old + target < 2 * H
        BY <2>2, <2>3, <3>1
    <3>2. CASE old + target >= 2 * H
      <4>1. PICK M \in Nat \ {0} : M = 2 * H
          OBVIOUS
      <4>2. PICK d \in 0..(M - 1) : d = (old + target) - M
          BY <2>2, <3>2, <4>1
      <4>3. ((1 * M) + d) % M = d
          BY Division
      <4>4. (1 * M) + d = old + target
          BY <2>2, <4>2
      <4> QED BY <2>3, <3>2, <4>1, <4>2, <4>3, <4>4
    <3> QED BY <2>2, <3>1, <3>2
  <2>5. acc \in Words /\ acc \in 0..((2 * H) - 1)
      BY <2>1, <2>2, <2>4 DEF Words
  <2>6. /\ cc.c = (IF acc < old \/ acc < target THEN 1 ELSE 0)
        /\ cc.v = (IF msb(old) = msb(target) /\ msb(acc) # msb(old) THEN 1 ELSE 0)
      BY <2>3 DEF AluCC
  <2>7. cc.c = 1 <=> old + target >= pow2[WIDTH]
      BY <2>1, <2>2, <2>4, <2>6
  <2>8. ASSUME NEW x \in Words
        PROVE  Signed(x) = IF x >= H THEN x - (2 * H) ELSE x
      BY <2>1 DEF Signed
  <2>9. /\ msb(old) \in {0, 1} /\ msb(target) \in {0, 1} /\ msb(acc) \in {0, 1}
        /\ msb(old) = 1 <=> old >= H
        /\ msb(target) = 1 <=> target >= H
        /\ msb(acc) = 1 <=> acc >= H
      BY <2>1, <2>2, <2>5
  <2>10. cc.v = 1 <=> ((old >= H <=> target >= H) /\ ~(acc >= H <=> old >= H))
      BY <2>6, <2>9
  <2>11. cc.v = 1 <=> Signed(old) + Signed(target) # Signed(acc)
    <3>1. /\ Signed(old) = IF old >= H THEN old - (2 * H) ELSE old
          /\ Signed(target) = IF target >= H THEN target - (2 * H) ELSE target
          /\ Signed(acc) = IF acc >= H THEN acc - (2 * H) ELSE acc
        BY <2>2, <2>5, <2>8
    <3> QED BY <2>2, <2>4, <2>5, <2>10, <3>1
  <2> QED BY <2>7, <2>11 DEF AddFlags
<1> QED BY <1>1, AluInductive, PTL

\* The bitwise operations agree with the adder, for words of every width.
THEOREM LogicAgrees == AluSpec => []LogicAgreesWithAdder
<1>1. AluInv => LogicAgreesWithAdder
  <2> SUFFICES ASSUME AluInv PROVE LogicAgreesWithAdder
      OBVIOUS
  <2>1. old \in Words /\ target \in Words
      BY DEF AluInv
  <2>2. PICK a, o, e \in Words :
            /\ a = BitAnd(old, target) /\ o = BitOr(old, target) /\ e = BitXor(old, target)
      BY <2>1, BitwiseBits
  <2>3. \A i \in BitPos :
           /\ bit(a, i) = IF bit(old, i) = 1 /\ bit(target, i) = 1 THEN 1 ELSE 0
           /\ bit(o, i) = IF bit(old, i) = 1 \/ bit(target, i) = 1 THEN 1 ELSE 0
           /\ bit(e, i) = IF bit(old, i) # bit(target, i) THEN 1 ELSE 0
      BY <2>1, <2>2, BitwiseBits
  <2>4. \A i \in BitPos : bit(old, i) \in {0, 1} /\ bit(target, i) \in {0, 1}
      BY <2>1, WordFacts
  <2>5. old + target = o + a
    <3>1. \A i \in BitPos : bit(old, i) + bit(target, i) = bit(o, i) + bit(a, i)
        BY <2>3, <2>4
    <3> QED BY <2>1, <3>1, AddWords
  <2>6. o + 0 = e + a
    <3>1. \A i \in BitPos : bit(o, i) + bit(0, i) = bit(e, i) + bit(a, i)
        BY <2>3, <2>4, ZeroIsWord
    <3> QED BY <3>1, ZeroIsWord, AddWords
  <2>7. PICK n \in Words :
            n = BitNot(target) /\ \A i \in BitPos : bit(n, i) = 1 - bit(target, i)
      BY <2>1, NotBits
  <2>8. PICK r \in Words :
            /\ r = BitOr(old, n)
            /\ \A i \in BitPos : bit(r, i) = IF bit(old, i) = 1 \/ bit(n, i) = 1 THEN 1 ELSE 0
      BY <2>1, <2>7, BitwiseBits
  <2>9. r + 0 = n + a
    <3>1. \A i \in BitPos : bit(r, i) + bit(0, i) = bit(n, i) + bit(a, i)
        BY <2>3, <2>4, <2>7, <2>8, ZeroIsWord
    <3> QED BY <3>1, ZeroIsWord, AddWords
  <2>10. o = e + a /\ e + (2 * a) = old + target /\ r = n + a
    <3>1. a \in Nat /\ o \in Nat /\ e \in Nat /\ r \in Nat /\ n \in Nat
          /\ old \in Nat /\ target \in Nat
        BY <2>1, WordFacts
    <3> QED BY <2>5, <2>6, <2>9, <3>1
  <2>11. /\ AluResult("AND", old, target, 0) = a /\ AluResult("EOR", old, target, 0) = e
         /\ AluResult("OR", old, target, 0) = o /\ AluResult("INV", old, target, 0) = r
         /\ AluResult("PLUS", old, target, 0) = (old + target) % pow2[WIDTH]
      BY <2>1, <2>2, <2>7, <2>8, SumAndDifference DEF AluResult
  <2>12. last \in Single => acc = AluResult(last, old, target, 0)
      BY DEF AluInv, Operated
  <2>13. last = "EOR" => (acc + (2 * AluResult("AND", old, target, 0))) % pow2[WIDTH]
                            = AluResult("PLUS", old, target, 0)
      BY <2>10, <2>11, <2>12 DEF Single
  <2>14. last = "OR" => acc = AluResult("EOR", old, target, 0)
                                 + AluResult("AND", old, target, 0)
      BY <2>10, <2>11, <2>12 DEF Single
  <2>15. last = "INV" => acc = BitNot(target) + AluResult("AND", old, target, 0)
      BY <2>7, <2>10, <2>11, <2>12 DEF Single
  <2> QED BY <2>13, <2>14, <2>15 DEF LogicAgreesWithAdder
<1> QED BY <1>1, AluInductive, PTL

----------------------------------------------------------------------------
(* The decoder: words as sequences of fields.                              *)

\* The powers of the widths and positions of fields.
LEMMA PowTable ==
    /\ pow2[0] = 1 /\ pow2[1] = 2 /\ pow2[2] = 4 /\ pow2[3] = 8 /\ pow2[4] = 16
    /\ pow2[5] = 32 /\ pow2[6] = 64 /\ pow2[7] = 128 /\ pow2[8] = 256
    /\ pow2[9] = 512 /\ pow2[10] = 1024 /\ pow2[11] = 2048 /\ pow2[12] = 4096
    /\ pow2[15] = 32768 /\ pow2[16] = 65536 /\ pow2[18] = 262144
    /\ pow2[19] = 524288 /\ pow2[20] = 1048576 /\ pow2[21] = 2097152
    /\ pow2[25] = 33554432 /\ pow2[26] = 67108864
<1>1. /\ pow2[0] = 1 /\ pow2[1] = 2 /\ pow2[2] = 4 /\ pow2[3] = 8 /\ pow2[4] = 16
  <2>1. pow2[0] = 1 /\ pow2[0 + 1] = 2 * pow2[0] /\ pow2[1 + 1] = 2 * pow2[1]
        /\ pow2[2 + 1] = 2 * pow2[2] /\ pow2[3 + 1] = 2 * pow2[3]
      BY Pow
  <2> QED BY <2>1
<1>2. \A m \in Nat, n \in Nat : pow2[m + n] = pow2[m] * pow2[n]
    BY PowSum
<1>3. pow2[5] = 32 /\ pow2[6] = 64 /\ pow2[7] = 128 /\ pow2[8] = 256
  <2>1. /\ pow2[4 + 1] = pow2[4] * pow2[1] /\ pow2[4 + 2] = pow2[4] * pow2[2]
        /\ pow2[4 + 3] = pow2[4] * pow2[3] /\ pow2[4 + 4] = pow2[4] * pow2[4]
      BY PowSum
  <2> QED BY <1>1, <2>1
<1>4. /\ pow2[9] = 512 /\ pow2[10] = 1024 /\ pow2[11] = 2048 /\ pow2[12] = 4096
      /\ pow2[15] = 32768 /\ pow2[16] = 65536
  <2>1. /\ pow2[8 + 1] = pow2[8] * pow2[1] /\ pow2[8 + 2] = pow2[8] * pow2[2]
        /\ pow2[8 + 3] = pow2[8] * pow2[3] /\ pow2[8 + 4] = pow2[8] * pow2[4]
        /\ pow2[8 + 7] = pow2[8] * pow2[7] /\ pow2[8 + 8] = pow2[8] * pow2[8]
      BY PowSum
  <2> QED BY <1>1, <1>3, <2>1
<1>5. /\ pow2[18] = 262144 /\ pow2[19] = 524288 /\ pow2[20] = 1048576
      /\ pow2[21] = 2097152 /\ pow2[25] = 33554432 /\ pow2[26] = 67108864
  <2>1. /\ pow2[16 + 2] = pow2[16] * pow2[2] /\ pow2[16 + 3] = pow2[16] * pow2[3]
        /\ pow2[16 + 4] = pow2[16] * pow2[4] /\ pow2[16 + 5] = pow2[16] * pow2[5]
        /\ pow2[16 + 9] = pow2[16] * pow2[9] /\ pow2[16 + 10] = pow2[16] * pow2[10]
      BY PowSum
  <2> QED BY <1>1, <1>3, <1>4, <2>1
<1> QED BY <1>1, <1>3, <1>4, <1>5

\* The n-th bit of w and those above it are a's bits.
InFront(a, w, n) ==
    \A p \in Nat, k \in Nat : bitfield_u32(w, n + p, k) = bitfield_u32(a, p, k)

\* A word with a field behind it: the field, and what was in front of it.
LEMMA Field ==
    ASSUME NEW a \in Int, NEW v \in Int, NEW n \in Nat
    PROVE  /\ a ## <<v, n>> \in Int
           /\ bitfield_u32(a ## <<v, n>>, 0, n) = v % pow2[n]
           /\ InFront(a, a ## <<v, n>>, n)
<1>1. PICK s \in Nat \ {0} : s = pow2[n]
    BY Pow
<1>2. PICK r \in 0..(s - 1) : r = v % s
    OBVIOUS
<1>3. PICK w \in Int : w = a ## <<v, n>> /\ w = (a * s) + r
  <2>1. a ## <<v, n>> = (a * s) + r
      BY <1>1, <1>2 DEF ##
  <2>2. (a * s) + r \in Int
      BY <1>2
  <2> QED BY <2>1, <2>2
<1>4. w \div s = a /\ w % s = r
  <2>1. r \in 0..(s - 1)
      OBVIOUS
  <2>2. ((a * s) + r) \div s = a /\ ((a * s) + r) % s = r
      BY <2>1, Division
  <2> QED BY <1>3, <2>2
<1>5. bitfield_u32(w, 0, n) = r
  <2>1. w \div 1 = w
      OBVIOUS
  <2> QED BY <1>1, <1>4, <2>1, Pow DEF bitfield_u32
<1>6. ASSUME NEW p \in Nat, NEW k \in Nat
      PROVE  bitfield_u32(w, n + p, k) = bitfield_u32(a, p, k)
  <2>1. PICK u \in Nat \ {0} : u = pow2[p]
      BY Pow
  <2>2. pow2[n + p] = s * u
      BY <1>1, <2>1, PowSum
  <2>3. PICK q \in Int : q = a \div u
      BY Divide
  <2>4. PICK t \in 0..(u - 1) : a = (q * u) + t
    <3>1. a % u \in 0..(u - 1) /\ a = ((a \div u) * u) + (a % u)
        BY Divide
    <3> QED BY <2>3, <3>1
  <2>5. PICK e \in 0..((s * u) - 1) : e = (t * s) + r
    <3>1. t \in 0..(pow2[p] - 1) /\ r \in 0..(pow2[n] - 1)
        BY <1>1, <2>1
    <3>2. (t * pow2[n]) + r \in 0..(pow2[p + n] - 1)
        BY <3>1, Compose
    <3>3. p + n = n + p
        OBVIOUS
    <3> QED BY <1>1, <2>2, <3>2, <3>3
  <2>6. w = (q * (s * u)) + e
    <3>1. ((q * u) + t) * s = (q * (s * u)) + (t * s)
      <4>1. t \in Int
          OBVIOUS
      <4> QED BY <4>1, Z3
    <3>2. t * s \in Int /\ q * (s * u) \in Int
      <4>1. t \in Int
          OBVIOUS
      <4> QED BY <4>1, Z3
    <3>3. PICK x \in Int : x = t * s
        BY <3>2
    <3>4. PICK y \in Int : y = q * (s * u)
        BY <3>2
    <3>5. a * s = y + x /\ e = x + r
        BY <2>4, <2>5, <3>1, <3>3, <3>4
    <3> QED BY <1>3, <3>4, <3>5
  <2>7. PICK m \in Nat \ {0} : m = s * u
    <3>1. s * u \in Nat \ {0}
        BY Z3
    <3> QED BY <3>1
  <2>8. w \div m = q
      BY <2>5, <2>6, <2>7, Division
  <2> QED BY <2>1, <2>2, <2>3, <2>7, <2>8 DEF bitfield_u32
<1>7. InFront(a, w, n)
    BY <1>6 DEF InFront
<1> QED BY <1>1, <1>2, <1>3, <1>5, <1>7

\* A field in two parts.
LEMMA SplitField ==
    ASSUME NEW a \in Int, NEW v \in Int, NEW m \in Nat, NEW n \in Nat
    PROVE  a ## <<v, m + n>> = (a ## <<v \div pow2[n], m>>) ## <<v, n>>
<1>1. PICK s \in Nat \ {0} : s = pow2[n]
    BY Pow
<1>2. PICK u \in Nat \ {0} : u = pow2[m]
    BY Pow
<1>3. pow2[m + n] = u * s
    BY <1>1, <1>2, PowSum
<1>4. PICK q \in Int : q = v \div s
    BY Divide
<1>5. PICK r \in 0..(s - 1) : r = v % s /\ v = (q * s) + r
  <2>1. v % s \in 0..(s - 1) /\ v = ((v \div s) * s) + (v % s)
      BY Divide
  <2>2. PICK r \in 0..(s - 1) : r = v % s
      BY <2>1
  <2>3. v = (q * s) + r
      BY <1>4, <2>1, <2>2
  <2> QED BY <2>2, <2>3
<1>6. PICK h \in Int : h = q \div u
    BY Divide
<1>7. PICK t \in 0..(u - 1) : t = q % u /\ q = (h * u) + t
  <2>1. q % u \in 0..(u - 1) /\ q = ((q \div u) * u) + (q % u)
      BY Divide
  <2>2. PICK t \in 0..(u - 1) : t = q % u
      BY <2>1
  <2>3. q = (h * u) + t
      BY <1>6, <2>1, <2>2
  <2> QED BY <2>2, <2>3
<1>8. PICK e \in 0..((u * s) - 1) : e = (t * s) + r
  <2>1. t \in 0..(pow2[m] - 1) /\ r \in 0..(pow2[n] - 1)
      BY <1>1, <1>2
  <2>2. (t * pow2[n]) + r \in 0..(pow2[m + n] - 1)
      BY <2>1, Compose
  <2> QED BY <1>1, <1>3, <2>2
<1>9. t \in Int /\ r \in Int
    OBVIOUS
<1>10. v = (h * (u * s)) + e
  <2>1. ((h * u) + t) * s = (h * (u * s)) + (t * s)
      BY <1>9, Z3
  <2>2. t * s \in Int /\ h * (u * s) \in Int
      BY <1>9, Z3
  <2>3. PICK x \in Int : x = t * s
      BY <2>2
  <2>4. PICK y \in Int : y = h * (u * s)
      BY <2>2
  <2>5. q * s = y + x /\ e = x + r
      BY <1>7, <1>8, <2>1, <2>3, <2>4
  <2>6. PICK z \in Int : z = q * s
      BY <2>5
  <2>7. v = z + r
      BY <1>5, <2>6
  <2>8. v = y + e
      BY <1>9, <2>5, <2>6, <2>7
  <2> QED BY <2>4, <2>8
<1>11. PICK k \in Nat \ {0} : k = u * s
  <2>1. u * s \in Nat \ {0}
      BY Z3
  <2> QED BY <2>1
<1>12. v % k = e
  <2>1. e \in 0..(k - 1) /\ v = (h * k) + e
      BY <1>8, <1>10, <1>11
  <2> QED BY <2>1, Division
<1>13. a ## <<v, m + n>> = (a * (u * s)) + e
    BY <1>3, <1>11, <1>12 DEF ##
<1>14. (a ## <<v \div pow2[n], m>>) ## <<v, n>> = (((a * u) + t) * s) + r
    BY <1>1, <1>2, <1>4, <1>5, <1>7 DEF ##
<1>15. ((a * u) + t) * s = (a * (u * s)) + (t * s)
    BY <1>9, Z3
<1>16. (a * (u * s)) + e = (((a * u) + t) * s) + r
  <2>1. t * s \in Int /\ a * (u * s) \in Int
      BY <1>9, Z3
  <2>2. PICK x \in Int : x = t * s
      BY <2>1
  <2>3. PICK y \in Int : y = a * (u * s)
      BY <2>1
  <2>4. ((a * u) + t) * s = y + x /\ e = x + r
      BY <1>8, <1>15, <2>2, <2>3
  <2> QED BY <1>9, <2>3, <2>4
<1> QED BY <1>13, <1>14, <1>16

\* Words with fields behind them are words.
LEMMA Joined == \A a \in Int, v \in Int, n \in Nat : a ## <<v, n>> \in Int
  BY Field

\* Taking bits that lie in front of a word's last field.
LEMMA Skip ==
    \A a \in Int, v \in Int, n \in Nat :
        \A i \in Nat, k \in Nat :
            i >= n => bitfield_u32(a ## <<v, n>>, i, k) = bitfield_u32(a, i - n, k)
<1> SUFFICES ASSUME NEW a \in Int, NEW v \in Int, NEW n \in Nat, NEW i \in Nat,
                    NEW k \in Nat, i >= n
             PROVE  bitfield_u32(a ## <<v, n>>, i, k) = bitfield_u32(a, i - n, k)
    OBVIOUS
<1>1. PICK p \in Nat : p = i - n
    OBVIOUS
<1>2. \A q \in Nat, l \in Nat :
         bitfield_u32(a ## <<v, n>>, n + q, l) = bitfield_u32(a, q, l)
  <2>1. InFront(a, a ## <<v, n>>, n)
      BY Field
  <2> QED BY <2>1 DEF InFront
<1>3. bitfield_u32(a ## <<v, n>>, n + p, k) = bitfield_u32(a, p, k)
    BY <1>2
<1>4. n + p = i
    BY <1>1
<1> QED BY <1>1, <1>3, <1>4

\* Two's complement in n bits.
Wrap(v, n) == IF v < 0 THEN v + pow2[n] ELSE v

\* Taking a word's last field.
LEMMA Take ==
    \A a \in Int, n \in Nat :
        \A v \in -pow2[n]..(pow2[n] - 1) :
            bitfield_u32(a ## <<v, n>>, 0, n) = Wrap(v, n)
<1> SUFFICES ASSUME NEW a \in Int, NEW n \in Nat,
                    NEW v \in -pow2[n]..(pow2[n] - 1)
             PROVE  bitfield_u32(a ## <<v, n>>, 0, n) = Wrap(v, n)
    OBVIOUS
<1>1. PICK s \in Nat \ {0} : s = pow2[n]
    BY Pow
<1>2. v \in Int /\ -s <= v /\ v < s
    BY <1>1
<1>3. bitfield_u32(a ## <<v, n>>, 0, n) = v % s
    BY <1>1, <1>2, Field
<1>4. CASE v < 0
  <2>1. v + s \in 0..(s - 1)
      BY <1>2, <1>4
  <2>2. PICK r \in 0..(s - 1) : r = v + s
      BY <2>1
  <2>3. (((-1) * s) + r) % s = r
    <3>1. -1 \in Int /\ r \in 0..(s - 1)
        OBVIOUS
    <3>2. \A q \in Int : ((q * s) + r) % s = r
        BY <3>1, Division
    <3> QED BY <3>1, <3>2
  <2>4. ((-1) * s) + r = v
      BY <1>2, <2>2
  <2>5. v % s = v + s
      BY <2>2, <2>3, <2>4
  <2> QED BY <1>1, <1>3, <1>4, <2>5 DEF Wrap
<1>5. CASE ~(v < 0)
  <2>1. v \in 0..(s - 1)
      BY <1>2, <1>5
  <2>2. ((0 * s) + v) % s = v
      BY <2>1, Division
  <2>3. (0 * s) + v = v
      BY <1>2
  <2>4. v % s = v
      BY <2>2, <2>3
  <2> QED BY <1>3, <1>5, <2>4 DEF Wrap
<1> QED BY <1>4, <1>5

\* Taking a field with its sign.
LEMMA TakeSigned ==
    \A w \in Int, i \in Nat, n \in Nat \ {0} :
        \A v \in SignedField(n) :
            bitfield_u32(w, i, n) = Wrap(v, n) => bitfield_s64(w, i, n) = v
<1> SUFFICES ASSUME NEW w \in Int, NEW i \in Nat, NEW n \in Nat \ {0}, NEW v \in SignedField(n),
                    bitfield_u32(w, i, n) = Wrap(v, n)
             PROVE  bitfield_s64(w, i, n) = v
    OBVIOUS
<1>1. PICK h \in Nat \ {0} : h = pow2[n - 1]
  <2>1. n - 1 \in Nat
      OBVIOUS
  <2> QED BY <2>1, Pow
<1>2. pow2[n] = 2 * h
  <2>1. n - 1 \in Nat /\ (n - 1) + 1 = n
      OBVIOUS
  <2>2. pow2[(n - 1) + 1] = 2 * pow2[n - 1]
      BY <2>1, Pow
  <2> QED BY <1>1, <2>1, <2>2
<1>3. v \in Int /\ -h <= v /\ v < h
    BY <1>1 DEF SignedField
<1> QED BY <1>1, <1>2, <1>3 DEF bitfield_s64, Wrap

\* A signed field's values are among those a field of its width takes.
LEMMA SignedRange ==
    \A n \in Nat \ {0} :
        \A v \in SignedField(n) : v \in Int /\ v \in -pow2[n]..(pow2[n] - 1)
<1> SUFFICES ASSUME NEW n \in Nat \ {0}, NEW v \in SignedField(n)
             PROVE  v \in Int /\ v \in -pow2[n]..(pow2[n] - 1)
    OBVIOUS
<1>1. n - 1 \in Nat /\ (n - 1) + 1 = n
    OBVIOUS
<1>2. PICK h \in Nat \ {0} : h = pow2[n - 1]
    BY <1>1, Pow
<1>3. pow2[(n - 1) + 1] = 2 * pow2[n - 1]
    BY <1>1, Pow
<1>4. pow2[n] = 2 * h
    BY <1>1, <1>2, <1>3
<1>5. v \in Int /\ -h <= v /\ v < h
    BY <1>2 DEF SignedField
<1> QED BY <1>4, <1>5

\* A field that is not negative.
LEMMA TakeNat ==
    \A a \in Int, n \in Nat :
        \A v \in 0..(pow2[n] - 1) : bitfield_u32(a ## <<v, n>>, 0, n) = v
<1> SUFFICES ASSUME NEW a \in Int, NEW n \in Nat, NEW v \in 0..(pow2[n] - 1)
             PROVE  bitfield_u32(a ## <<v, n>>, 0, n) = v
    OBVIOUS
<1>1. pow2[n] \in Nat
    BY Pow
<1>2. v \in -pow2[n]..(pow2[n] - 1) /\ ~(v < 0)
    BY <1>1
<1> QED BY <1>2, Take DEF Wrap

\* A register.
LEMMA TakeReg ==
    \A a \in Int, v \in 0..31 : bitfield_u32(a ## <<v, 5>>, 0, 5) = v
<1> SUFFICES ASSUME NEW a \in Int, NEW v \in 0..31
             PROVE  bitfield_u32(a ## <<v, 5>>, 0, 5) = v
    OBVIOUS
<1>1. v \in 0..(pow2[5] - 1)
    BY PowTable
<1> QED BY <1>1, TakeNat

\* A chunk.
LEMMA TakeChunk ==
    \A a \in Int, v \in 0..3 : bitfield_u32(a ## <<v, 2>>, 0, 2) = v
<1> SUFFICES ASSUME NEW a \in Int, NEW v \in 0..3
             PROVE  bitfield_u32(a ## <<v, 2>>, 0, 2) = v
    OBVIOUS
<1>1. v \in 0..(pow2[2] - 1)
    BY PowTable
<1> QED BY <1>1, TakeNat

\* The last five bits of a longer field.
LEMMA TakeLow ==
    \A a \in Int, v \in Int, m \in Nat :
        bitfield_u32(a ## <<v, m + 5>>, 0, 5) = v % 32
<1> SUFFICES ASSUME NEW a \in Int, NEW v \in Int, NEW m \in Nat
             PROVE  bitfield_u32(a ## <<v, m + 5>>, 0, 5) = v % 32
    OBVIOUS
<1>1. pow2[5] = 32
    BY PowTable
<1>2. PICK h \in Int : h = v \div pow2[5]
    BY <1>1
<1>3. PICK b \in Int : b = a ## <<h, m>>
    BY Joined
<1>4. a ## <<v, m + 5>> = b ## <<v, 5>>
    BY <1>2, <1>3, SplitField
<1>5. bitfield_u32(b ## <<v, 5>>, 0, 5) = v % pow2[5]
    BY Field
<1> QED BY <1>1, <1>4, <1>5

\* STUR and LDUR.
MemFields(w, e, v, n, d) ==
    /\ bitfield_u32(w, 21, 11) = bitfield_u32(e, 0, 11)
    /\ bitfield_s64(w, 12, 9) = v
    /\ bitfield_u32(w, 5, 5) = n
    /\ bitfield_u32(w, 0, 5) = d

\* The fields of a load or store lie where the decoder looks for them.
LEMMA MemWord ==
    ASSUME NEW e \in Int, NEW v \in SignedField(9), NEW n \in 0..31,
           NEW d \in 0..31, NEW w,
           w = e ## <<v, 9>> ## <<0, 2>> ## <<n, 5>> ## <<d, 5>>
    PROVE  MemFields(w, e, v, n, d)
<1>1. v \in Int /\ v \in -pow2[9]..(pow2[9] - 1) /\ pow2[5] = 32
  <2>1. v \in Int /\ v \in -pow2[9]..(pow2[9] - 1)
      BY SignedRange
  <2> QED BY <2>1, PowTable
<1>2. w \in Int
    BY <1>1, Joined
<1>3. bitfield_u32(w, 21, 11) = bitfield_u32(e, 0, 11)
    BY <1>1, Skip, Joined
<1>4. bitfield_s64(w, 12, 9) = v
  <2>1. bitfield_u32(w, 12, 9) = bitfield_u32(e ## <<v, 9>>, 0, 9)
      BY <1>1, Skip, Joined
  <2>2. bitfield_u32(e ## <<v, 9>>, 0, 9) = Wrap(v, 9)
      BY <1>1, Take
  <2> QED BY <1>2, <2>1, <2>2, TakeSigned
<1>5. bitfield_u32(w, 5, 5) = n
  <2>1. bitfield_u32(w, 5, 5)
           = bitfield_u32(e ## <<v, 9>> ## <<0, 2>> ## <<n, 5>>, 0, 5)
      BY <1>1, Skip, Joined
  <2>2. e ## <<v, 9>> ## <<0, 2>> \in Int
      BY <1>1, Joined
  <2> QED BY <2>1, <2>2, TakeReg
<1>6. bitfield_u32(w, 0, 5) = d
  <2>1. e ## <<v, 9>> ## <<0, 2>> ## <<n, 5>> \in Int
      BY <1>1, Joined
  <2> QED BY <2>1, TakeReg
<1> QED BY <1>3, <1>4, <1>5, <1>6 DEF MemFields

\* The entry an index falls into is the only one.
LEMMA Entry ==
    \A op, lo, hi : <<op, lo, hi>> \in Entries =>
        \A idx \in lo..hi : itable(idx) = op
<1> SUFFICES ASSUME NEW op, NEW lo, NEW hi, <<op, lo, hi>> \in Entries,
                    NEW idx \in lo..hi
             PROVE  itable(idx) = op
    OBVIOUS
<1> DEFINE e == <<op, lo, hi>>
<1>1. \A f \in Entries : f[2] \in Int /\ f[3] \in Int
    BY DEF Entries
<1>2. \A f \in Entries \ {e} : ~(idx \in f[2]..f[3])
    BY <1>1, EntriesAreDisjoint
<1>3. {f \in Entries : idx \in f[2]..f[3]} = {e}
    BY <1>2
<1> QED BY <1>3 DEF itable

\* The entries, one by one.
LEMMA Indices ==
    /\ itable(1986) = "LDUR" /\ itable(1984) = "STUR"
    /\ \A i \in 1940..1943 : itable(i) = "MOVK"
    /\ \A i \in 1684..1687 : itable(i) = "MOVZ"
    /\ \A i \in 1152..1159 : itable(i) = "ADRP"
    /\ \A i \in 1408..1415 : itable(i) = "ADRP"
    /\ \A i \in 1664..1671 : itable(i) = "ADRP"
    /\ \A i \in 1920..1927 : itable(i) = "ADRP"
    /\ \A i \in 1160..1161 : itable(i) = "ADD_RI"
    /\ \A i \in 1672..1673 : itable(i) = "SUB_RI"
    /\ itable(1368) = "ADDS_RR" /\ itable(1880) = "SUBS_RR"
    /\ itable(1361) = "MVN" /\ itable(1360) = "ORR_RR"
    /\ itable(1616) = "EOR_RR" /\ itable(1872) = "ANDS_RR"
    /\ \A i \in 1690..1691 : itable(i) = "UBFM"
    /\ \A i \in 1178..1179 : itable(i) = "ASR"
    /\ \A i \in 160..191 : itable(i) = "B"
    /\ \A i \in 672..679 : itable(i) = "B_COND"
    /\ \A i \in 1184..1215 : itable(i) = "BL"
    /\ itable(1714) = "RET" /\ itable(1712) = "BR" /\ itable(1713) = "BLR"
    /\ itable(1704) = "NOP" /\ itable(1698) = "HLT"
    /\ itable(1236) = "CSEL" /\ itable(1748) = "CSNEG"
    /\ \A i \in 1440..1447 : itable(i) = "CBZ"
    /\ \A i \in 1448..1455 : itable(i) = "CBNZ"
<1>1. /\ <<"LDUR", 1986, 1986>> \in Entries /\ <<"STUR", 1984, 1984>> \in Entries
      /\ <<"MOVK", 1940, 1943>> \in Entries /\ <<"MOVZ", 1684, 1687>> \in Entries
      /\ <<"ADRP", 1152, 1159>> \in Entries /\ <<"ADRP", 1408, 1415>> \in Entries
      /\ <<"ADRP", 1664, 1671>> \in Entries /\ <<"ADRP", 1920, 1927>> \in Entries
      /\ <<"ADD_RI", 1160, 1161>> \in Entries
      /\ <<"SUB_RI", 1672, 1673>> \in Entries
      /\ <<"ADDS_RR", 1368, 1368>> \in Entries
      /\ <<"SUBS_RR", 1880, 1880>> \in Entries
      /\ <<"MVN", 1361, 1361>> \in Entries /\ <<"ORR_RR", 1360, 1360>> \in Entries
      /\ <<"EOR_RR", 1616, 1616>> \in Entries
      /\ <<"ANDS_RR", 1872, 1872>> \in Entries
    BY DEF Entries
<1>2. /\ <<"UBFM", 1690, 1691>> \in Entries /\ <<"ASR", 1178, 1179>> \in Entries
      /\ <<"B", 160, 191>> \in Entries /\ <<"B_COND", 672, 679>> \in Entries
      /\ <<"BL", 1184, 1215>> \in Entries /\ <<"RET", 1714, 1714>> \in Entries
      /\ <<"BR", 1712, 1712>> \in Entries /\ <<"BLR", 1713, 1713>> \in Entries
      /\ <<"NOP", 1704, 1704>> \in Entries /\ <<"HLT", 1698, 1698>> \in Entries
      /\ <<"CSEL", 1236, 1236>> \in Entries
      /\ <<"CSNEG", 1748, 1748>> \in Entries
      /\ <<"CBZ", 1440, 1447>> \in Entries /\ <<"CBNZ", 1448, 1455>> \in Entries
    BY DEF Entries
<1>3. /\ itable(1986) = "LDUR" /\ itable(1984) = "STUR"
      /\ itable(1368) = "ADDS_RR" /\ itable(1880) = "SUBS_RR"
      /\ itable(1361) = "MVN" /\ itable(1360) = "ORR_RR"
      /\ itable(1616) = "EOR_RR" /\ itable(1872) = "ANDS_RR"
    BY <1>1, Entry
<1>4. /\ itable(1714) = "RET" /\ itable(1712) = "BR" /\ itable(1713) = "BLR"
      /\ itable(1704) = "NOP" /\ itable(1698) = "HLT"
      /\ itable(1236) = "CSEL" /\ itable(1748) = "CSNEG"
    BY <1>2, Entry
<1>5. /\ \A i \in 1940..1943 : itable(i) = "MOVK"
      /\ \A i \in 1684..1687 : itable(i) = "MOVZ"
      /\ \A i \in 1152..1159 : itable(i) = "ADRP"
      /\ \A i \in 1408..1415 : itable(i) = "ADRP"
      /\ \A i \in 1664..1671 : itable(i) = "ADRP"
      /\ \A i \in 1920..1927 : itable(i) = "ADRP"
      /\ \A i \in 1160..1161 : itable(i) = "ADD_RI"
      /\ \A i \in 1672..1673 : itable(i) = "SUB_RI"
    BY <1>1, Entry
<1>6. /\ \A i \in 1690..1691 : itable(i) = "UBFM"
      /\ \A i \in 1178..1179 : itable(i) = "ASR"
    BY <1>2, Entry
<1>7. /\ \A i \in 160..191 : itable(i) = "B"
      /\ \A i \in 672..679 : itable(i) = "B_COND"
    BY <1>2, Entry
<1>8. /\ \A i \in 1184..1215 : itable(i) = "BL"
      /\ \A i \in 1440..1447 : itable(i) = "CBZ"
      /\ \A i \in 1448..1455 : itable(i) = "CBNZ"
    BY <1>2, Entry
<1> QED BY <1>3, <1>4, <1>5, <1>6, <1>7, <1>8

\* The index i ends with the first m bits of a field behind a.
IndexEnds(a, m, i) ==
    \E h \in 0..(pow2[m] - 1) : bitfield_u32(a ## <<h, m>>, 0, 11) = i

\* A field of m + n bits, of which m belong to the index.
LEMMA SkipPart ==
    \A a \in Int, v \in Int, m \in Nat, n \in Nat, l \in Nat :
        l = m + n => IndexEnds(a, m, bitfield_u32(a ## <<v, l>>, n, 11))
<1> SUFFICES ASSUME NEW a \in Int, NEW v \in Int, NEW m \in Nat, NEW n \in Nat,
                    NEW l \in Nat, l = m + n
             PROVE  IndexEnds(a, m, bitfield_u32(a ## <<v, l>>, n, 11))
    OBVIOUS
<1>1. PICK s \in Nat \ {0} : s = pow2[n]
    BY Pow
<1>2. PICK u \in Nat \ {0} : u = pow2[m]
    BY Pow
<1>3. PICK q \in Int : q = v \div s
    BY Divide
<1>4. a ## <<v, l>> = (a ## <<q, m>>) ## <<v, n>>
    BY <1>1, <1>3, SplitField
<1>5. bitfield_u32((a ## <<q, m>>) ## <<v, n>>, n, 11)
         = bitfield_u32(a ## <<q, m>>, 0, 11)
  <2>1. PICK b \in Int : b = a ## <<q, m>>
      BY Joined
  <2>2. PICK z \in Nat : z = 0 /\ n = n + z
      OBVIOUS
  <2>3. bitfield_u32(b ## <<v, n>>, n, 11) = bitfield_u32(b, n - n, 11)
      BY Skip
  <2>4. n - n = 0
      OBVIOUS
  <2> QED BY <2>1, <2>3, <2>4
<1>6. PICK h \in 0..(u - 1) : h = q % u
    OBVIOUS
<1>7. a ## <<q, m>> = a ## <<h, m>>
  <2>1. h % u = h
      BY <1>6
  <2>2. q % u = h % u
      BY <1>6, <2>1
  <2> QED BY <1>2, <2>2 DEF ##
<1>8. h \in 0..(pow2[m] - 1)
    BY <1>2
<1> QED BY <1>4, <1>5, <1>7, <1>8 DEF IndexEnds

\* ADDS, SUBS and the logical operations; BR, BLR and RET.
RegsFields(w, e, m, n, d) ==
    /\ bitfield_u32(w, 21, 11) = bitfield_u32(e, 0, 11)
    /\ bitfield_u32(w, 16, 5) = m
    /\ bitfield_u32(w, 5, 5) = n
    /\ bitfield_u32(w, 0, 5) = d

\* So do those of an instruction with three registers.
LEMMA RegsWord ==
    ASSUME NEW e \in Int, NEW m \in 0..31, NEW n \in 0..31, NEW d \in 0..31,
           NEW w, w = e ## <<m, 5>> ## <<0, 6>> ## <<n, 5>> ## <<d, 5>>
    PROVE  RegsFields(w, e, m, n, d)
<1>1. pow2[5] = 32
    BY PowTable
<1>2. bitfield_u32(w, 21, 11) = bitfield_u32(e, 0, 11)
    BY Skip, Joined
<1>3. bitfield_u32(w, 16, 5) = m
  <2>1. bitfield_u32(w, 16, 5) = bitfield_u32(e ## <<m, 5>>, 0, 5)
      BY Skip, Joined
  <2> QED BY <2>1, TakeReg
<1>4. bitfield_u32(w, 5, 5) = n
  <2>1. bitfield_u32(w, 5, 5)
           = bitfield_u32(e ## <<m, 5>> ## <<0, 6>> ## <<n, 5>>, 0, 5)
      BY Skip, Joined
  <2>2. e ## <<m, 5>> ## <<0, 6>> \in Int
      BY Joined
  <2> QED BY <2>1, <2>2, TakeReg
<1>5. bitfield_u32(w, 0, 5) = d
  <2>1. e ## <<m, 5>> ## <<0, 6>> ## <<n, 5>> \in Int
      BY Joined
  <2> QED BY <2>1, TakeReg
<1> QED BY <1>2, <1>3, <1>4, <1>5 DEF RegsFields

\* The conditional selects; c is the condition.
SelectFields(w, e, n, d) ==
    /\ bitfield_u32(w, 21, 11) = bitfield_u32(e, 0, 11)
    /\ bitfield_u32(w, 5, 5) = n
    /\ bitfield_u32(w, 0, 5) = d

\* So do those of a conditional select.
LEMMA SelectWord ==
    ASSUME NEW e \in Int, NEW m \in 0..31, NEW c \in 0..15, NEW o \in 0..3,
           NEW n \in 0..31, NEW d \in 0..31, NEW w,
           w = e ## <<m, 5>> ## <<c, 4>> ## <<o, 2>> ## <<n, 5>> ## <<d, 5>>
    PROVE  SelectFields(w, e, n, d)
<1>1. pow2[5] = 32
    BY PowTable
<1>2. bitfield_u32(w, 21, 11) = bitfield_u32(e, 0, 11)
    BY Skip, Joined
<1>3. bitfield_u32(w, 5, 5) = n
  <2>1. bitfield_u32(w, 5, 5)
           = bitfield_u32(e ## <<m, 5>> ## <<c, 4>> ## <<o, 2>> ## <<n, 5>>, 0, 5)
      BY Skip, Joined
  <2>2. e ## <<m, 5>> ## <<c, 4>> ## <<o, 2>> \in Int
      BY Joined
  <2> QED BY <2>1, <2>2, TakeReg
<1>4. bitfield_u32(w, 0, 5) = d
  <2>1. e ## <<m, 5>> ## <<c, 4>> ## <<o, 2>> ## <<n, 5>> \in Int
      BY Joined
  <2> QED BY <2>1, TakeReg
<1> QED BY <1>2, <1>3, <1>4 DEF SelectFields

\* ADD and SUB with an immediate.
AddImmFields(w, e, v, n, d) ==
    /\ IndexEnds(e, 1, bitfield_u32(w, 21, 11))
    /\ bitfield_u32(w, 10, 12) = v
    /\ bitfield_u32(w, 5, 5) = n
    /\ bitfield_u32(w, 0, 5) = d

\* So do those of an addition or subtraction of an immediate.
LEMMA AddImmWord ==
    ASSUME NEW e \in Int, NEW v \in 0..(pow2[12] - 1), NEW n \in 0..31,
           NEW d \in 0..31, NEW w, w = e ## <<v, 12>> ## <<n, 5>> ## <<d, 5>>
    PROVE  AddImmFields(w, e, v, n, d)
<1>0. v \in Int
    BY Pow
<1>1. pow2[5] = 32
    BY PowTable
<1>2. IndexEnds(e, 1, bitfield_u32(w, 21, 11))
  <2>1. bitfield_u32(w, 21, 11) = bitfield_u32(e ## <<v, 12>>, 11, 11)
      BY <1>0, Skip, Joined
  <2>2. IndexEnds(e, 1, bitfield_u32(e ## <<v, 12>>, 11, 11))
      BY <1>0, SkipPart
  <2> QED BY <2>1, <2>2
<1>3. bitfield_u32(w, 10, 12) = v
  <2>1. bitfield_u32(w, 10, 12) = bitfield_u32(e ## <<v, 12>>, 0, 12)
      BY <1>0, Skip, Joined
  <2> QED BY <2>1, TakeNat
<1>4. bitfield_u32(w, 5, 5) = n
  <2>1. bitfield_u32(w, 5, 5) = bitfield_u32(e ## <<v, 12>> ## <<n, 5>>, 0, 5)
      BY <1>0, Skip, Joined
  <2>2. e ## <<v, 12>> \in Int
      BY <1>0, Joined
  <2> QED BY <2>1, <2>2, TakeReg
<1>5. bitfield_u32(w, 0, 5) = d
  <2>1. e ## <<v, 12>> ## <<n, 5>> \in Int
      BY <1>0, Joined
  <2> QED BY <2>1, TakeReg
<1> QED BY <1>2, <1>3, <1>4, <1>5 DEF AddImmFields

\* MOVZ and MOVK; c is the chunk.
MovFields(w, e, c, v, d) ==
    /\ bitfield_u32(w, 21, 11) = bitfield_u32(e ## <<c, 2>>, 0, 11)
    /\ bitfield_u32(w, 21, 2) = c
    /\ bitfield_u32(w, 5, 16) = v
    /\ bitfield_u32(w, 0, 5) = d

\* So do those of a move; its opcode ends in the chunk.
LEMMA MovWord ==
    ASSUME NEW e \in Int, NEW c \in 0..3, NEW v \in 0..(pow2[16] - 1),
           NEW d \in 0..31, NEW w, w = e ## <<c, 2>> ## <<v, 16>> ## <<d, 5>>
    PROVE  MovFields(w, e, c, v, d)
<1>0. v \in Int
    BY Pow
<1>1. bitfield_u32(w, 21, 11) = bitfield_u32(e ## <<c, 2>>, 0, 11)
    BY <1>0, Skip, Joined
<1>2. bitfield_u32(w, 21, 2) = c
  <2>1. bitfield_u32(w, 21, 2) = bitfield_u32(e ## <<c, 2>>, 0, 2)
      BY <1>0, Skip, Joined
  <2> QED BY <2>1, TakeChunk
<1>3. bitfield_u32(w, 5, 16) = v
  <2>1. bitfield_u32(w, 5, 16) = bitfield_u32(e ## <<c, 2>> ## <<v, 16>>, 0, 16)
      BY <1>0, Skip, Joined
  <2> QED BY <2>1, Joined, TakeNat
<1>4. bitfield_u32(w, 0, 5) = d
  <2>1. e ## <<c, 2>> ## <<v, 16>> \in Int
      BY <1>0, Joined
  <2> QED BY <2>1, TakeReg
<1> QED BY <1>1, <1>2, <1>3, <1>4 DEF MovFields

\* CBZ, CBNZ and ADRP (whose 19 bits are the immediate's upper ones).
Imm19Fields(w, e, v, d) ==
    /\ IndexEnds(e, 3, bitfield_u32(w, 21, 11))
    /\ bitfield_s64(w, 5, 19) = v
    /\ bitfield_u32(w, 5, 5) = v % 32
    /\ bitfield_u32(w, 0, 5) = d

\* So do those behind 19 bits of immediate and a register.
LEMMA Imm19Word ==
    ASSUME NEW e \in Int, NEW v \in SignedField(19), NEW d \in 0..31,
           NEW w, w = e ## <<v, 19>> ## <<d, 5>>
    PROVE  Imm19Fields(w, e, v, d)
<1>1. v \in Int /\ v \in -pow2[19]..(pow2[19] - 1)
    BY SignedRange
<1>2. e ## <<v, 19>> \in Int /\ w \in Int
    BY <1>1, Joined
<1>3. IndexEnds(e, 3, bitfield_u32(w, 21, 11))
  <2>1. bitfield_u32(w, 21, 11) = bitfield_u32(e ## <<v, 19>>, 16, 11)
      BY <1>2, Skip
  <2>2. IndexEnds(e, 3, bitfield_u32(e ## <<v, 19>>, 16, 11))
      BY <1>1, SkipPart
  <2> QED BY <2>1, <2>2
<1>4. bitfield_s64(w, 5, 19) = v
  <2>1. bitfield_u32(w, 5, 19) = bitfield_u32(e ## <<v, 19>>, 0, 19)
      BY <1>2, Skip
  <2>2. bitfield_u32(e ## <<v, 19>>, 0, 19) = Wrap(v, 19)
      BY <1>1, Take
  <2> QED BY <1>2, <2>1, <2>2, TakeSigned
<1>5. bitfield_u32(w, 0, 5) = d
  <2>1. pow2[5] = 32
      BY PowTable
  <2> QED BY <1>2, <2>1, TakeNat
<1>6. bitfield_u32(w, 5, 5) = v % 32
  <2>1. bitfield_u32(w, 5, 5) = bitfield_u32(e ## <<v, 19>>, 0, 5)
      BY <1>2, Skip
  <2>2. bitfield_u32(e ## <<v, 14 + 5>>, 0, 5) = v % 32
      BY <1>1, TakeLow
  <2> QED BY <2>1, <2>2
<1> QED BY <1>3, <1>4, <1>5, <1>6 DEF Imm19Fields

\* B_COND; c is the condition.
CondFields(w, e, v, c) ==
    /\ IndexEnds(e, 3, bitfield_u32(w, 21, 11))
    /\ bitfield_s64(w, 5, 19) = v
    /\ bitfield_u32(w, 0, 4) = c

\* So do those of a conditional branch.
LEMMA CondWord ==
    ASSUME NEW e \in Int, NEW v \in SignedField(19), NEW c \in 0..15,
           NEW w, w = e ## <<v, 19>> ## <<0, 1>> ## <<c, 4>>
    PROVE  CondFields(w, e, v, c)
<1>1. v \in Int /\ v \in -pow2[19]..(pow2[19] - 1)
    BY SignedRange
<1>2. e ## <<v, 19>> \in Int /\ e ## <<v, 19>> ## <<0, 1>> \in Int /\ w \in Int
    BY <1>1, Joined
<1>3. IndexEnds(e, 3, bitfield_u32(w, 21, 11))
  <2>1. bitfield_u32(w, 21, 11) = bitfield_u32(e ## <<v, 19>>, 16, 11)
      BY <1>2, Skip
  <2>2. IndexEnds(e, 3, bitfield_u32(e ## <<v, 19>>, 16, 11))
      BY <1>1, SkipPart
  <2> QED BY <2>1, <2>2
<1>4. bitfield_s64(w, 5, 19) = v
  <2>1. bitfield_u32(w, 5, 19) = bitfield_u32(e ## <<v, 19>>, 0, 19)
      BY <1>2, Skip
  <2>2. bitfield_u32(e ## <<v, 19>>, 0, 19) = Wrap(v, 19)
      BY <1>1, Take
  <2> QED BY <1>2, <2>1, <2>2, TakeSigned
<1>5. bitfield_u32(w, 0, 4) = c
  <2>1. pow2[4] = 16
      BY PowTable
  <2> QED BY <1>2, <2>1, TakeNat
<1> QED BY <1>3, <1>4, <1>5 DEF CondFields

\* B and BL.
JumpFields(w, e, v) ==
    /\ IndexEnds(e, 5, bitfield_u32(w, 21, 11))
    /\ bitfield_s64(w, 0, 26) = v
    /\ bitfield_u32(w, 0, 5) = v % 32

\* So does the immediate of a branch.
LEMMA JumpWord ==
    ASSUME NEW e \in Int, NEW v \in SignedField(26), NEW w, w = e ## <<v, 26>>
    PROVE  JumpFields(w, e, v)
<1>1. v \in Int /\ v \in -pow2[26]..(pow2[26] - 1)
    BY SignedRange
<1>2. w \in Int
    BY <1>1, Joined
<1>3. IndexEnds(e, 5, bitfield_u32(w, 21, 11))
    BY <1>1, SkipPart
<1>4. bitfield_s64(w, 0, 26) = v
  <2>1. bitfield_u32(w, 0, 26) = Wrap(v, 26)
      BY <1>1, Take
  <2> QED BY <1>2, <2>1, TakeSigned
<1>5. bitfield_u32(w, 0, 5) = v % 32
  <2>1. bitfield_u32(e ## <<v, 21 + 5>>, 0, 5) = v % 32
      BY <1>1, TakeLow
  <2> QED BY <2>1
<1> QED BY <1>3, <1>4, <1>5 DEF JumpFields

\* The shifts; r and t are immr and imms.
ShiftFields(w, e, r, t, n, d) ==
    /\ IndexEnds(e, 1, bitfield_u32(w, 21, 11))
    /\ bitfield_u32(w, 16, 6) = r
    /\ bitfield_u32(w, 16, 5) = r % 32
    /\ bitfield_u32(w, 10, 6) = t
    /\ bitfield_u32(w, 10, 12) = (r * 64) + t
    /\ bitfield_u32(w, 5, 5) = n
    /\ bitfield_u32(w, 0, 5) = d

\* A shift's 5 and 12 bit fields hold a part of immr, and immr with imms.
LEMMA ShiftWord ==
    ASSUME NEW e \in Int, NEW r \in 0..63, NEW t \in 0..63, NEW n \in 0..31,
           NEW d \in 0..31, NEW w,
           w = e ## <<r, 6>> ## <<t, 6>> ## <<n, 5>> ## <<d, 5>>
    PROVE  ShiftFields(w, e, r, t, n, d)
<1>1. PICK f \in Int : f = e ## <<r, 6>> /\ f = (e * 64) + r
  <2>1. r % 64 = r /\ pow2[6] = 64
      BY PowTable
  <2>2. PICK f \in Int : f = e ## <<r, 6>>
      BY Joined
  <2>3. f = (e * 64) + r
      BY <2>1, <2>2 DEF ##
  <2> QED BY <2>2, <2>3
<1>2. PICK g \in Int : g = f ## <<t, 6>> /\ g = (f * 64) + t
  <2>1. t % 64 = t /\ pow2[6] = 64
      BY PowTable
  <2>2. PICK g \in Int : g = f ## <<t, 6>>
      BY Joined
  <2>3. g = (f * 64) + t
      BY <2>1, <2>2 DEF ##
  <2> QED BY <2>2, <2>3
<1>3. PICK h \in Int : h = g ## <<n, 5>>
    BY Joined
<1>4. w = h ## <<d, 5>>
    BY <1>1, <1>2, <1>3
<1>5. pow2[5] = 32
    BY PowTable
<1>6. bitfield_u32(w, 0, 5) = d
    BY <1>4, <1>5, TakeNat
<1>7. bitfield_u32(w, 5, 5) = n
  <2>1. bitfield_u32(w, 5, 5) = bitfield_u32(h, 0, 5)
      BY <1>4, Skip
  <2> QED BY <1>3, <1>5, <2>1, TakeNat
<1>8. \A i \in Nat, k \in Nat :
         i >= 10 => bitfield_u32(w, i, k) = bitfield_u32(g, i - 10, k)
  <2> SUFFICES ASSUME NEW i \in Nat, NEW k \in Nat, i >= 10
               PROVE  bitfield_u32(w, i, k) = bitfield_u32(g, i - 10, k)
      OBVIOUS
  <2>1. PICK j \in Nat : j = i - 5 /\ j >= 5 /\ j - 5 = i - 10
      OBVIOUS
  <2>2. bitfield_u32(h ## <<d, 5>>, i, k) = bitfield_u32(h, j, k)
      BY <2>1, Skip
  <2>3. bitfield_u32(g ## <<n, 5>>, j, k) = bitfield_u32(g, j - 5, k)
      BY <2>1, Skip
  <2> QED BY <1>3, <1>4, <2>1, <2>2, <2>3
<1>9. /\ bitfield_u32(w, 10, 6) = bitfield_u32(g, 0, 6)
      /\ bitfield_u32(w, 10, 12) = bitfield_u32(g, 0, 12)
      /\ bitfield_u32(w, 16, 6) = bitfield_u32(g, 6, 6)
      /\ bitfield_u32(w, 16, 5) = bitfield_u32(g, 6, 5)
      /\ bitfield_u32(w, 21, 11) = bitfield_u32(g, 11, 11)
    BY <1>8
<1>10. bitfield_u32(g, 0, 6) = t /\ bitfield_u32(g, 0, 12) = (r * 64) + t
    BY <1>1, <1>2, PowTable DEF bitfield_u32
<1>11. bitfield_u32(g, 6, 6) = r /\ bitfield_u32(g, 6, 5) = r % 32
  <2>1. /\ bitfield_u32(f ## <<t, 6>>, 6, 6) = bitfield_u32(f, 0, 6)
        /\ bitfield_u32(f ## <<t, 6>>, 6, 5) = bitfield_u32(f, 0, 5)
      BY Skip
  <2>2. bitfield_u32(f, 0, 6) = r
      BY <1>1, PowTable DEF bitfield_u32
  <2>3. bitfield_u32(f, 0, 5) = r % 32
      BY <1>1, PowTable DEF bitfield_u32
  <2> QED BY <1>2, <2>1, <2>2, <2>3
<1>12. IndexEnds(e, 1, bitfield_u32(w, 21, 11))
  <2>1. bitfield_u32(f ## <<t, 6>>, 11, 11) = bitfield_u32(f, 5, 11)
      BY Skip
  <2>2. IndexEnds(e, 1, bitfield_u32(e ## <<r, 6>>, 5, 11))
      BY SkipPart
  <2> QED BY <1>1, <1>2, <1>9, <2>1, <2>2
<1> QED BY <1>6, <1>7, <1>9, <1>10, <1>11, <1>12 DEF ShiftFields

\* A condition's number names it.
LEMMA Conditions ==
    \A c \in Conds : CondNum(c) \in 0..15 /\ CondAt[CondNum(c) + 1] = c
<1> SUFFICES ASSUME NEW c \in Conds
             PROVE  CondNum(c) \in 0..15 /\ CondAt[CondNum(c) + 1] = c
    OBVIOUS
<1>1. \E k \in 1..16 : CondAt[k] = c
    BY DEF Conds, CondAt
<1>2. DOMAIN CondAt = 1..16
    BY DEF CondAt
<1>3. PICK k \in 1..16 : k = (CHOOSE n \in DOMAIN CondAt : CondAt[n] = c)
                         /\ CondAt[k] = c
    BY <1>1, <1>2
<1>4. PICK m \in 0..15 : m = k - 1 /\ m + 1 = k
    OBVIOUS
<1>5. CondNum(c) = m
    BY <1>3, <1>4 DEF CondNum
<1>6. CondNum(c) + 1 = k
    BY <1>4, <1>5
<1> QED BY <1>3, <1>5, <1>6

----------------------------------------------------------------------------
(* The decoder: each format.                                               *)

\* What is read back from the word of x: what its operation looks at.
ReadBack(x) ==
    LET w == Insn(Assemble(x))
    IN /\ w.op = DecodedAs(x.op)
       /\ x.op \notin Src1Unused \cup {"MOVK"} \cup ZeroBranches => w.Rn = x.Rn
       /\ x.op \in ZeroBranches => w.Rn = x.imm % 32
       /\ x.op \in Src2Rm => w.Rm = x.Rm
       /\ x.op \notin {"B", "BL", "B_COND", "RET", "BR", "BLR", "NOP", "HLT"}
             => w.Rd = x.Rd
       /\ x.op \in {"BR", "BLR"} => w.Rd = 0
       /\ x.op = "BL" => w.Rd = x.imm % 32
       /\ x.op \in ImmOps \ (Shifts \cup {"ADRP"}) => w.imm = x.imm
       /\ x.op = "ADRP" => (w.imm = x.imm
                              <=> x.imm % 4 < 2 \/ x.imm \in {-2, -1})
       /\ x.op \in {"MOVZ", "MOVK"} => w.hw = x.hw
       /\ x.op = "B_COND" => w.cond = x.cond

\* What can be assembled has its parts in range.
LEMMA Parts ==
    ASSUME NEW x, Encodable(x)
    PROVE  /\ x.op \in Mnemonics /\ x.imm \in ImmRange(x.op) /\ x.imm \in Int
           /\ x.Rd \in 0..31 /\ x.Rn \in 0..31 /\ x.Rm \in 0..31
           /\ x.hw \in 0..3 /\ x.cond \in Conds
  BY DEF Encodable

\* Loads and stores.
LEMMA MemRead ==
    ASSUME NEW x, Encodable(x), x.op \in {"LDUR", "STUR"}
    PROVE  ReadBack(x)
<1>1. x.imm \in SignedField(9) /\ x.Rn \in 0..31 /\ x.Rd \in 0..31
  <2>1. ImmRange(x.op) = SignedField(9)
      BY DEF ImmRange
  <2> QED BY <2>1, Parts
<1>2. PICK e \in Int :
         /\ Assemble(x) = e ## <<x.imm, 9>> ## <<0, 2>> ## <<x.Rn, 5>> ## <<x.Rd, 5>>
         /\ itable(bitfield_u32(e, 0, 11)) = x.op
  <2>1. CASE x.op = "LDUR"
    <3> DEFINE e == (-1) ## <<120, 7>> ## <<1, 2>> ## <<0, 1>>
    <3>1. Assemble(x) = e ## <<x.imm, 9>> ## <<0, 2>> ## <<x.Rn, 5>> ## <<x.Rd, 5>>
        BY <2>1, SMT DEF Assemble
    <3>2. e = -62
        BY PowTable DEF ##
    <3>3. bitfield_u32(e, 0, 11) = 1986
        BY <3>2, PowTable DEF bitfield_u32
    <3> HIDE DEF e
    <3> QED BY <2>1, <3>1, <3>2, <3>3, Indices
  <2>2. CASE x.op = "STUR"
    <3> DEFINE e == (-1) ## <<120, 7>> ## <<0, 2>> ## <<0, 1>>
    <3>1. Assemble(x) = e ## <<x.imm, 9>> ## <<0, 2>> ## <<x.Rn, 5>> ## <<x.Rd, 5>>
        BY <2>2, SMT DEF Assemble
    <3>2. e = -64
        BY PowTable DEF ##
    <3>3. bitfield_u32(e, 0, 11) = 1984
        BY <3>2, PowTable DEF bitfield_u32
    <3> HIDE DEF e
    <3> QED BY <2>2, <3>1, <3>2, <3>3, Indices
  <2> QED BY <2>1, <2>2
<1> PICK w : w = Assemble(x)
    OBVIOUS
<1>3. PICK v \in SignedField(9), n \in 0..31, d \in 0..31 :
         /\ v = x.imm /\ n = x.Rn /\ d = x.Rd
         /\ w = e ## <<v, 9>> ## <<0, 2>> ## <<n, 5>> ## <<d, 5>>
    BY <1>1, <1>2
<1>4. /\ bitfield_u32(w, 21, 11) = bitfield_u32(e, 0, 11)
      /\ bitfield_s64(w, 12, 9) = v
      /\ bitfield_u32(w, 5, 5) = n /\ bitfield_u32(w, 0, 5) = d
  <2>1. MemFields(w, e, v, n, d)
      BY <1>3, MemWord
  <2> QED BY <2>1 DEF MemFields
<1>5. itable(bitfield_u32(w, 21, 11)) = x.op
    BY <1>2, <1>4
<1> QED BY <1>3, <1>4, <1>5
        DEF ReadBack, Insn, fix_instr_aliases, Immediate, DecodedAs, Shifts,
            ImmOps, Src1Unused, Src2Rm, ZeroBranches

\* The indices of an opcode whose last bit is its operands' ...
LEMMA Ends1 ==
    ASSUME NEW e \in Int, NEW i, IndexEnds(e, 1, i)
    PROVE  \E h \in 0..1 : i = ((e * 2) + h) % 2048
<1>1. PICK h \in 0..1 : bitfield_u32(e ## <<h, 1>>, 0, 11) = i
  <2>1. pow2[1] - 1 = 1
      BY PowTable
  <2> QED BY <2>1 DEF IndexEnds
<1>2. PICK f \in Int : f = e ## <<h, 1>> /\ f = (e * 2) + h
  <2>1. h % 2 = h /\ pow2[1] = 2
      BY PowTable
  <2>2. PICK f \in Int : f = e ## <<h, 1>>
      BY Joined
  <2>3. f = (e * 2) + h
      BY <2>1, <2>2 DEF ##
  <2> QED BY <2>2, <2>3
<1>3. bitfield_u32(f, 0, 11) = f % 2048
    BY PowTable DEF bitfield_u32
<1> QED BY <1>1, <1>2, <1>3

\* ... whose last three bits are ...
LEMMA Ends3 ==
    ASSUME NEW e \in Int, NEW i, IndexEnds(e, 3, i)
    PROVE  \E h \in 0..7 : i = ((e * 8) + h) % 2048
<1>1. PICK h \in 0..7 : bitfield_u32(e ## <<h, 3>>, 0, 11) = i
  <2>1. pow2[3] - 1 = 7
      BY PowTable
  <2> QED BY <2>1 DEF IndexEnds
<1>2. PICK f \in Int : f = e ## <<h, 3>> /\ f = (e * 8) + h
  <2>1. h % 8 = h /\ pow2[3] = 8
      BY PowTable
  <2>2. PICK f \in Int : f = e ## <<h, 3>>
      BY Joined
  <2>3. f = (e * 8) + h
      BY <2>1, <2>2 DEF ##
  <2> QED BY <2>2, <2>3
<1>3. bitfield_u32(f, 0, 11) = f % 2048
    BY PowTable DEF bitfield_u32
<1> QED BY <1>1, <1>2, <1>3

\* ... and whose last five bits are.
LEMMA Ends5 ==
    ASSUME NEW e \in Int, NEW i, IndexEnds(e, 5, i)
    PROVE  \E h \in 0..31 : i = ((e * 32) + h) % 2048
<1>1. PICK h \in 0..31 : bitfield_u32(e ## <<h, 5>>, 0, 11) = i
  <2>1. pow2[5] - 1 = 31
      BY PowTable
  <2> QED BY <2>1 DEF IndexEnds
<1>2. PICK f \in Int : f = e ## <<h, 5>> /\ f = (e * 32) + h
  <2>1. h % 32 = h /\ pow2[5] = 32
      BY PowTable
  <2>2. PICK f \in Int : f = e ## <<h, 5>>
      BY Joined
  <2>3. f = (e * 32) + h
      BY <2>1, <2>2 DEF ##
  <2> QED BY <2>2, <2>3
<1>3. bitfield_u32(f, 0, 11) = f % 2048
    BY PowTable DEF bitfield_u32
<1> QED BY <1>1, <1>2, <1>3

\* The index of a move, whose last two bits are its chunk.
LEMMA ChunkEnds ==
    \A e \in Int, c \in 0..3 :
        -512 <= e /\ e < 0
            => bitfield_u32(e ## <<c, 2>>, 0, 11) = 2048 + (4 * e) + c
<1> SUFFICES ASSUME NEW e \in Int, NEW c \in 0..3, -512 <= e, e < 0
             PROVE  bitfield_u32(e ## <<c, 2>>, 0, 11) = 2048 + (4 * e) + c
    OBVIOUS
<1>1. c % 4 = c /\ pow2[2] = 4
    BY PowTable
<1>2. PICK f \in Int : f = e ## <<c, 2>>
    BY Joined
<1>3. f = (e * 4) + c
    BY <1>1, <1>2 DEF ##
<1>4. bitfield_u32(f, 0, 11) = f % 2048
    BY PowTable DEF bitfield_u32
<1>5. f % 2048 = 2048 + f
    BY <1>3
<1> QED BY <1>2, <1>3, <1>4, <1>5

\* MOVZ and MOVK.
LEMMA MovRead ==
    ASSUME NEW x, Encodable(x), x.op \in {"MOVZ", "MOVK"}
    PROVE  ReadBack(x)
<1>1. x.imm \in 0..(pow2[16] - 1) /\ x.hw \in 0..3 /\ x.Rd \in 0..31
  <2>1. ImmRange(x.op) = 0..(pow2[16] - 1)
      BY DEF ImmRange
  <2> QED BY <2>1, Parts
<1>2. PICK e \in Int :
         /\ Assemble(x) = e ## <<x.hw, 2>> ## <<x.imm, 16>> ## <<x.Rd, 5>>
         /\ itable(bitfield_u32(e ## <<x.hw, 2>>, 0, 11)) = x.op
  <2>1. CASE x.op = "MOVZ"
    <3>1. PICK e \in Int : e = (-1) ## <<2, 2>> ## <<37, 6>> /\ e = -91
        BY PowTable DEF ##
    <3>2. Assemble(x) = e ## <<x.hw, 2>> ## <<x.imm, 16>> ## <<x.Rd, 5>>
        BY <2>1, <3>1, SMT DEF Assemble
    <3>3. bitfield_u32(e ## <<x.hw, 2>>, 0, 11) = 1684 + x.hw
      <4>1. PICK c \in 0..3 : c = x.hw
          BY <1>1
      <4>2. bitfield_u32(e ## <<c, 2>>, 0, 11) = 2048 + (4 * e) + c
          BY <3>1, ChunkEnds
      <4> QED BY <3>1, <4>1, <4>2
    <3> QED BY <1>1, <2>1, <3>1, <3>2, <3>3, Indices
  <2>2. CASE x.op = "MOVK"
    <3>1. PICK e \in Int : e = (-1) ## <<3, 2>> ## <<37, 6>> /\ e = -27
        BY PowTable DEF ##
    <3>2. Assemble(x) = e ## <<x.hw, 2>> ## <<x.imm, 16>> ## <<x.Rd, 5>>
        BY <2>2, <3>1, SMT DEF Assemble
    <3>3. bitfield_u32(e ## <<x.hw, 2>>, 0, 11) = 1940 + x.hw
      <4>1. PICK c \in 0..3 : c = x.hw
          BY <1>1
      <4>2. bitfield_u32(e ## <<c, 2>>, 0, 11) = 2048 + (4 * e) + c
          BY <3>1, ChunkEnds
      <4> QED BY <3>1, <4>1, <4>2
    <3> QED BY <1>1, <2>2, <3>1, <3>2, <3>3, Indices
  <2> QED BY <2>1, <2>2
<1> PICK w : w = Assemble(x)
    OBVIOUS
<1>3. PICK c \in 0..3, v \in 0..(pow2[16] - 1), d \in 0..31 :
         /\ c = x.hw /\ v = x.imm /\ d = x.Rd
         /\ w = e ## <<c, 2>> ## <<v, 16>> ## <<d, 5>>
    BY <1>1, <1>2
<1>4. MovFields(w, e, c, v, d)
    BY <1>3, MovWord
<1>5. itable(bitfield_u32(w, 21, 11)) = x.op
    BY <1>2, <1>3, <1>4 DEF MovFields
<1> QED
    BY <1>3, <1>4, <1>5
        DEF MovFields, ReadBack, Insn, fix_instr_aliases, Immediate,
            DecodedAs, Shifts, ImmOps, Src1Unused, Src2Rm, ZeroBranches

\* ADD and SUB with an immediate.
LEMMA AddImmRead ==
    ASSUME NEW x, Encodable(x), x.op \in {"ADD_RI", "SUB_RI"}
    PROVE  ReadBack(x)
<1>1. x.imm \in 0..(pow2[12] - 1) /\ x.Rn \in 0..31 /\ x.Rd \in 0..31
  <2>1. ImmRange(x.op) = 0..(pow2[12] - 1)
      BY DEF ImmRange
  <2> QED BY <2>1, Parts
<1>2. PICK e \in Int :
         /\ Assemble(x) = e ## <<x.imm, 12>> ## <<x.Rn, 5>> ## <<x.Rd, 5>>
         /\ \A i : IndexEnds(e, 1, i) => itable(i) = x.op
  <2>1. CASE x.op = "ADD_RI"
    <3>1. PICK e \in Int : e = (-1) ## <<0, 1>> ## <<0, 1>> ## <<34, 6>> ## <<0, 1>> /\ e = -444
        BY PowTable DEF ##
    <3>2. Assemble(x) = e ## <<x.imm, 12>> ## <<x.Rn, 5>> ## <<x.Rd, 5>>
        BY <2>1, <3>1, SMT DEF Assemble
    <3>3. ASSUME NEW i, IndexEnds(e, 1, i) PROVE i \in 1160..1161
        BY <3>1, <3>3, Ends1
    <3> QED BY <2>1, <3>1, <3>2, <3>3, Indices
  <2>2. CASE x.op = "SUB_RI"
    <3>1. PICK e \in Int : e = (-1) ## <<1, 1>> ## <<0, 1>> ## <<34, 6>> ## <<0, 1>> /\ e = -188
        BY PowTable DEF ##
    <3>2. Assemble(x) = e ## <<x.imm, 12>> ## <<x.Rn, 5>> ## <<x.Rd, 5>>
        BY <2>2, <3>1, SMT DEF Assemble
    <3>3. ASSUME NEW i, IndexEnds(e, 1, i) PROVE i \in 1672..1673
        BY <3>1, <3>3, Ends1
    <3> QED BY <2>2, <3>1, <3>2, <3>3, Indices
  <2> QED BY <2>1, <2>2
<1> PICK w : w = Assemble(x)
    OBVIOUS
<1>3. PICK v \in 0..(pow2[12] - 1), n \in 0..31, d \in 0..31 :
         /\ v = x.imm /\ n = x.Rn /\ d = x.Rd
         /\ w = e ## <<v, 12>> ## <<n, 5>> ## <<d, 5>>
    BY <1>1, <1>2
<1>4. AddImmFields(w, e, v, n, d)
    BY <1>3, AddImmWord
<1>5. itable(bitfield_u32(w, 21, 11)) = x.op
    BY <1>2, <1>3, <1>4 DEF AddImmFields
<1> QED
    BY <1>3, <1>4, <1>5
        DEF AddImmFields, ReadBack, Insn, fix_instr_aliases, Immediate,
            DecodedAs, Shifts, ImmOps, Src1Unused, Src2Rm, ZeroBranches

\* The operations on two registers.
LEMMA RegsRead ==
    ASSUME NEW x, Encodable(x), x.op \in {"ADDS_RR", "SUBS_RR", "ANDS_RR",
                                "ORR_RR", "MVN", "EOR_RR"}
    PROVE  ReadBack(x)
<1>1. x.Rm \in 0..31 /\ x.Rn \in 0..31 /\ x.Rd \in 0..31
    BY Parts
<1>2. PICK e \in Int :
         /\ Assemble(x) = e ## <<x.Rm, 5>> ## <<0, 6>> ## <<x.Rn, 5>> ## <<x.Rd, 5>>
         /\ itable(bitfield_u32(e, 0, 11)) = x.op
  <2>1. CASE x.op = "ADDS_RR"
    <3>1. PICK e \in Int : e = (-1) ## <<43, 7>> ## <<0, 2>> ## <<0, 1>> /\ e = -680
        BY PowTable DEF ##
    <3>2. Assemble(x) = e ## <<x.Rm, 5>> ## <<0, 6>> ## <<x.Rn, 5>> ## <<x.Rd, 5>>
        BY <2>1, <3>1, SMT DEF Assemble
    <3>3. bitfield_u32(e, 0, 11) = 1368
        BY <3>1, PowTable DEF bitfield_u32
    <3> QED BY <2>1, <3>1, <3>2, <3>3, Indices
  <2>2. CASE x.op = "SUBS_RR"
    <3>1. PICK e \in Int : e = (-1) ## <<107, 7>> ## <<0, 2>> ## <<0, 1>> /\ e = -168
        BY PowTable DEF ##
    <3>2. Assemble(x) = e ## <<x.Rm, 5>> ## <<0, 6>> ## <<x.Rn, 5>> ## <<x.Rd, 5>>
        BY <2>2, <3>1, SMT DEF Assemble
    <3>3. bitfield_u32(e, 0, 11) = 1880
        BY <3>1, PowTable DEF bitfield_u32
    <3> QED BY <2>2, <3>1, <3>2, <3>3, Indices
  <2>3. CASE x.op = "ANDS_RR"
    <3>1. PICK e \in Int : e = (-1) ## <<106, 7>> ## <<0, 2>> ## <<0, 1>> /\ e = -176
        BY PowTable DEF ##
    <3>2. Assemble(x) = e ## <<x.Rm, 5>> ## <<0, 6>> ## <<x.Rn, 5>> ## <<x.Rd, 5>>
        BY <2>3, <3>1, SMT DEF Assemble
    <3>3. bitfield_u32(e, 0, 11) = 1872
        BY <3>1, PowTable DEF bitfield_u32
    <3> QED BY <2>3, <3>1, <3>2, <3>3, Indices
  <2>4. CASE x.op = "ORR_RR"
    <3>1. PICK e \in Int : e = (-1) ## <<42, 7>> ## <<0, 2>> ## <<0, 1>> /\ e = -688
        BY PowTable DEF ##
    <3>2. Assemble(x) = e ## <<x.Rm, 5>> ## <<0, 6>> ## <<x.Rn, 5>> ## <<x.Rd, 5>>
        BY <2>4, <3>1, SMT DEF Assemble
    <3>3. bitfield_u32(e, 0, 11) = 1360
        BY <3>1, PowTable DEF bitfield_u32
    <3> QED BY <2>4, <3>1, <3>2, <3>3, Indices
  <2>5. CASE x.op = "MVN"
    <3>1. PICK e \in Int : e = (-1) ## <<42, 7>> ## <<0, 2>> ## <<1, 1>> /\ e = -687
        BY PowTable DEF ##
    <3>2. Assemble(x) = e ## <<x.Rm, 5>> ## <<0, 6>> ## <<x.Rn, 5>> ## <<x.Rd, 5>>
        BY <2>5, <3>1, SMT DEF Assemble
    <3>3. bitfield_u32(e, 0, 11) = 1361
        BY <3>1, PowTable DEF bitfield_u32
    <3> QED BY <2>5, <3>1, <3>2, <3>3, Indices
  <2>6. CASE x.op = "EOR_RR"
    <3>1. PICK e \in Int : e = (-1) ## <<74, 7>> ## <<0, 2>> ## <<0, 1>> /\ e = -432
        BY PowTable DEF ##
    <3>2. Assemble(x) = e ## <<x.Rm, 5>> ## <<0, 6>> ## <<x.Rn, 5>> ## <<x.Rd, 5>>
        BY <2>6, <3>1, SMT DEF Assemble
    <3>3. bitfield_u32(e, 0, 11) = 1616
        BY <3>1, PowTable DEF bitfield_u32
    <3> QED BY <2>6, <3>1, <3>2, <3>3, Indices
  <2> QED BY <2>1, <2>2, <2>3, <2>4, <2>5, <2>6
<1> PICK w : w = Assemble(x)
    OBVIOUS
<1>3. PICK m \in 0..31, n \in 0..31, d \in 0..31 :
         /\ m = x.Rm /\ n = x.Rn /\ d = x.Rd
         /\ w = e ## <<m, 5>> ## <<0, 6>> ## <<n, 5>> ## <<d, 5>>
    BY <1>1, <1>2
<1>4. RegsFields(w, e, m, n, d)
    BY <1>3, RegsWord
<1>5. itable(bitfield_u32(w, 21, 11)) = x.op
    BY <1>2, <1>3, <1>4 DEF RegsFields
<1> QED
    BY <1>3, <1>4, <1>5
        DEF RegsFields, ReadBack, Insn, fix_instr_aliases, Immediate,
            DecodedAs, Shifts, ImmOps, Src1Unused, Src2Rm, ZeroBranches

\* RET, BR and BLR.
LEMMA BranchRead ==
    ASSUME NEW x, Encodable(x), x.op \in {"RET", "BR", "BLR"}
    PROVE  ReadBack(x)
<1>1. x.Rn \in 0..31
    BY Parts
<1>2. PICK e \in Int :
         /\ Assemble(x) = e ## <<31, 5>> ## <<0, 6>> ## <<x.Rn, 5>> ## <<0, 5>>
         /\ itable(bitfield_u32(e, 0, 11)) = x.op
  <2>1. CASE x.op = "RET"
    <3>1. PICK e \in Int : e = (-1) ## <<86, 7>> ## <<0, 1>> ## <<2, 2>> /\ e = -334
        BY PowTable DEF ##
    <3>2. Assemble(x) = e ## <<31, 5>> ## <<0, 6>> ## <<x.Rn, 5>> ## <<0, 5>>
        BY <2>1, <3>1, SMT DEF Assemble
    <3>3. bitfield_u32(e, 0, 11) = 1714
        BY <3>1, PowTable DEF bitfield_u32
    <3> QED BY <2>1, <3>1, <3>2, <3>3, Indices
  <2>2. CASE x.op = "BR"
    <3>1. PICK e \in Int : e = (-1) ## <<86, 7>> ## <<0, 1>> ## <<0, 2>> /\ e = -336
        BY PowTable DEF ##
    <3>2. Assemble(x) = e ## <<31, 5>> ## <<0, 6>> ## <<x.Rn, 5>> ## <<0, 5>>
        BY <2>2, <3>1, SMT DEF Assemble
    <3>3. bitfield_u32(e, 0, 11) = 1712
        BY <3>1, PowTable DEF bitfield_u32
    <3> QED BY <2>2, <3>1, <3>2, <3>3, Indices
  <2>3. CASE x.op = "BLR"
    <3>1. PICK e \in Int : e = (-1) ## <<86, 7>> ## <<0, 1>> ## <<1, 2>> /\ e = -335
        BY PowTable DEF ##
    <3>2. Assemble(x) = e ## <<31, 5>> ## <<0, 6>> ## <<x.Rn, 5>> ## <<0, 5>>
        BY <2>3, <3>1, SMT DEF Assemble
    <3>3. bitfield_u32(e, 0, 11) = 1713
        BY <3>1, PowTable DEF bitfield_u32
    <3> QED BY <2>3, <3>1, <3>2, <3>3, Indices
  <2> QED BY <2>1, <2>2, <2>3
<1> PICK w : w = Assemble(x)
    OBVIOUS
<1>3. PICK m \in 0..31, n \in 0..31, d \in 0..31 :
         /\ m = 31 /\ n = x.Rn /\ d = 0
         /\ w = e ## <<m, 5>> ## <<0, 6>> ## <<n, 5>> ## <<d, 5>>
  <2>1. PICK n \in 0..31 : n = x.Rn
      BY <1>1
  <2>2. w = e ## <<31, 5>> ## <<0, 6>> ## <<n, 5>> ## <<0, 5>>
      BY <1>2, <2>1
  <2>3. 31 \in 0..31 /\ 0 \in 0..31
      OBVIOUS
  <2> QED BY <2>1, <2>2, <2>3
<1>4. RegsFields(w, e, m, n, d)
    BY <1>3, RegsWord
<1>5. itable(bitfield_u32(w, 21, 11)) = x.op
    BY <1>2, <1>3, <1>4 DEF RegsFields
<1> QED
    BY <1>3, <1>4, <1>5
        DEF RegsFields, ReadBack, Insn, fix_instr_aliases, Immediate,
            DecodedAs, Shifts, ImmOps, Src1Unused, Src2Rm, ZeroBranches

\* CBZ and CBNZ, whose offset is looked at for a register.
LEMMA Imm19Read ==
    ASSUME NEW x, Encodable(x), x.op \in {"CBZ", "CBNZ"}
    PROVE  ReadBack(x)
<1>1. x.imm \in SignedField(19) /\ x.Rd \in 0..31
  <2>1. ImmRange(x.op) = SignedField(19)
      BY DEF ImmRange
  <2> QED BY <2>1, Parts
<1>2. PICK e \in Int :
         /\ Assemble(x) = e ## <<x.imm, 19>> ## <<x.Rd, 5>>
         /\ \A i : IndexEnds(e, 3, i) => itable(i) = x.op
  <2>1. CASE x.op = "CBZ"
    <3>1. PICK e \in Int : e = (-1) ## <<26, 6>> ## <<0, 1>> /\ e = -76
        BY PowTable DEF ##
    <3>2. Assemble(x) = e ## <<x.imm, 19>> ## <<x.Rd, 5>>
        BY <2>1, <3>1, SMT DEF Assemble
    <3>3. ASSUME NEW i, IndexEnds(e, 3, i) PROVE i \in 1440..1447
        BY <3>1, <3>3, Ends3
    <3> QED BY <2>1, <3>1, <3>2, <3>3, Indices
  <2>2. CASE x.op = "CBNZ"
    <3>1. PICK e \in Int : e = (-1) ## <<26, 6>> ## <<1, 1>> /\ e = -75
        BY PowTable DEF ##
    <3>2. Assemble(x) = e ## <<x.imm, 19>> ## <<x.Rd, 5>>
        BY <2>2, <3>1, SMT DEF Assemble
    <3>3. ASSUME NEW i, IndexEnds(e, 3, i) PROVE i \in 1448..1455
        BY <3>1, <3>3, Ends3
    <3> QED BY <2>2, <3>1, <3>2, <3>3, Indices
  <2> QED BY <2>1, <2>2
<1> PICK w : w = Assemble(x)
    OBVIOUS
<1>3. PICK v \in SignedField(19), d \in 0..31 :
         /\ v = x.imm /\ d = x.Rd
         /\ w = e ## <<v, 19>> ## <<d, 5>>
    BY <1>1, <1>2
<1>4. Imm19Fields(w, e, v, d)
    BY <1>3, Imm19Word
<1>5. itable(bitfield_u32(w, 21, 11)) = x.op
    BY <1>2, <1>3, <1>4 DEF Imm19Fields
<1> QED
    BY <1>3, <1>4, <1>5
        DEF Imm19Fields, ReadBack, Insn, fix_instr_aliases, Immediate,
            DecodedAs, Shifts, ImmOps, Src1Unused, Src2Rm, ZeroBranches

\* B_COND.
LEMMA CondRead ==
    ASSUME NEW x, Encodable(x), x.op \in {"B_COND"}
    PROVE  ReadBack(x)
<1>1. x.imm \in SignedField(19) /\ CondNum(x.cond) \in 0..15
      /\ CondAt[CondNum(x.cond) + 1] = x.cond
  <2>1. ImmRange(x.op) = SignedField(19)
      BY DEF ImmRange
  <2> QED BY <2>1, Parts, Conditions
<1>2. PICK e \in Int :
         /\ Assemble(x) = e ## <<x.imm, 19>> ## <<0, 1>> ## <<CondNum(x.cond), 4>>
         /\ \A i : IndexEnds(e, 3, i) => itable(i) = x.op
  <2>1. CASE x.op = "B_COND"
    <3>1. PICK e \in Int : e = 0 ## <<84, 7>> /\ e = 84
        BY PowTable DEF ##
    <3>2. Assemble(x) = e ## <<x.imm, 19>> ## <<0, 1>> ## <<CondNum(x.cond), 4>>
        BY <2>1, <3>1, SMT DEF Assemble
    <3>3. ASSUME NEW i, IndexEnds(e, 3, i) PROVE i \in 672..679
        BY <3>1, <3>3, Ends3
    <3> QED BY <2>1, <3>1, <3>2, <3>3, Indices
  <2> QED BY <2>1
<1> PICK w : w = Assemble(x)
    OBVIOUS
<1>3. PICK v \in SignedField(19), c \in 0..15 :
         /\ v = x.imm /\ c = CondNum(x.cond)
         /\ w = e ## <<v, 19>> ## <<0, 1>> ## <<c, 4>>
    BY <1>1, <1>2
<1>4. CondFields(w, e, v, c)
    BY <1>3, CondWord
<1>5. itable(bitfield_u32(w, 21, 11)) = x.op
    BY <1>2, <1>3, <1>4 DEF CondFields
<1> QED
    BY <1>3, <1>4, <1>5, <1>1
        DEF CondFields, ReadBack, Insn, fix_instr_aliases, Immediate,
            DecodedAs, Shifts, ImmOps, Src1Unused, Src2Rm, ZeroBranches

\* B and BL.
LEMMA JumpRead ==
    ASSUME NEW x, Encodable(x), x.op \in {"B", "BL"}
    PROVE  ReadBack(x)
<1>1. x.imm \in SignedField(26)
  <2>1. ImmRange(x.op) = SignedField(26)
      BY DEF ImmRange
  <2> QED BY <2>1, Parts
<1>2. PICK e \in Int :
         /\ Assemble(x) = e ## <<x.imm, 26>>
         /\ \A i : IndexEnds(e, 5, i) => itable(i) = x.op
  <2>1. CASE x.op = "B"
    <3>1. PICK e \in Int : e = (-0) ## <<5, 5>> /\ e = 5
        BY PowTable DEF ##
    <3>2. Assemble(x) = e ## <<x.imm, 26>>
        BY <2>1, <3>1, SMT DEF Assemble
    <3>3. ASSUME NEW i, IndexEnds(e, 5, i) PROVE i \in 160..191
        BY <3>1, <3>3, Ends5
    <3> QED BY <2>1, <3>1, <3>2, <3>3, Indices
  <2>2. CASE x.op = "BL"
    <3>1. PICK e \in Int : e = (-1) ## <<5, 5>> /\ e = -27
        BY PowTable DEF ##
    <3>2. Assemble(x) = e ## <<x.imm, 26>>
        BY <2>2, <3>1, SMT DEF Assemble
    <3>3. ASSUME NEW i, IndexEnds(e, 5, i) PROVE i \in 1184..1215
        BY <3>1, <3>3, Ends5
    <3> QED BY <2>2, <3>1, <3>2, <3>3, Indices
  <2> QED BY <2>1, <2>2
<1> PICK w : w = Assemble(x)
    OBVIOUS
<1>3. PICK v \in SignedField(26) :
         /\ v = x.imm
         /\ w = e ## <<v, 26>>
    BY <1>1, <1>2
<1>4. JumpFields(w, e, v)
    BY <1>3, JumpWord
<1>5. itable(bitfield_u32(w, 21, 11)) = x.op
    BY <1>2, <1>3, <1>4 DEF JumpFields
<1> QED
    BY <1>3, <1>4, <1>5
        DEF JumpFields, ReadBack, Insn, fix_instr_aliases, Immediate,
            DecodedAs, Shifts, ImmOps, Src1Unused, Src2Rm, ZeroBranches

\* The conditional selects.
LEMMA SelectRead ==
    ASSUME NEW x, Encodable(x), x.op \in {"CSEL", "CSINC", "CSINV", "CSNEG"}
    PROVE  ReadBack(x)
<1>1. /\ x.Rm \in 0..31 /\ x.Rn \in 0..31 /\ x.Rd \in 0..31
      /\ CondNum(x.cond) \in 0..15
    BY Parts, Conditions
<1>2. PICK e \in Int, o \in 0..3 :
         /\ Assemble(x) = e ## <<x.Rm, 5>> ## <<CondNum(x.cond), 4>> ## <<o, 2>>
                            ## <<x.Rn, 5>> ## <<x.Rd, 5>>
         /\ itable(bitfield_u32(e, 0, 11)) = DecodedAs(x.op)
  <2>1. CASE x.op = "CSEL"
    <3>1. PICK e \in Int : e = (-1) ## <<0, 1>> ## <<0, 1>> ## <<212, 8>> /\ e = -812
        BY PowTable DEF ##
    <3>2. PICK o \in 0..3 : o = 0
        OBVIOUS
    <3>3. Assemble(x) = e ## <<x.Rm, 5>> ## <<CondNum(x.cond), 4>> ## <<o, 2>>
                          ## <<x.Rn, 5>> ## <<x.Rd, 5>>
        BY <2>1, <3>1, <3>2, SMT DEF Assemble
    <3>4. bitfield_u32(e, 0, 11) = 1236
        BY <3>1, PowTable DEF bitfield_u32
    <3> QED BY <2>1, <3>1, <3>3, <3>4, Indices DEF DecodedAs
  <2>2. CASE x.op = "CSINC"
    <3>1. PICK e \in Int : e = (-1) ## <<0, 1>> ## <<0, 1>> ## <<212, 8>> /\ e = -812
        BY PowTable DEF ##
    <3>2. PICK o \in 0..3 : o = 1
        OBVIOUS
    <3>3. Assemble(x) = e ## <<x.Rm, 5>> ## <<CondNum(x.cond), 4>> ## <<o, 2>>
                          ## <<x.Rn, 5>> ## <<x.Rd, 5>>
        BY <2>2, <3>1, <3>2, SMT DEF Assemble
    <3>4. bitfield_u32(e, 0, 11) = 1236
        BY <3>1, PowTable DEF bitfield_u32
    <3> QED BY <2>2, <3>1, <3>3, <3>4, Indices DEF DecodedAs
  <2>3. CASE x.op = "CSINV"
    <3>1. PICK e \in Int : e = (-1) ## <<1, 1>> ## <<0, 1>> ## <<212, 8>> /\ e = -300
        BY PowTable DEF ##
    <3>2. PICK o \in 0..3 : o = 0
        OBVIOUS
    <3>3. Assemble(x) = e ## <<x.Rm, 5>> ## <<CondNum(x.cond), 4>> ## <<o, 2>>
                          ## <<x.Rn, 5>> ## <<x.Rd, 5>>
        BY <2>3, <3>1, <3>2, SMT DEF Assemble
    <3>4. bitfield_u32(e, 0, 11) = 1748
        BY <3>1, PowTable DEF bitfield_u32
    <3> QED BY <2>3, <3>1, <3>3, <3>4, Indices DEF DecodedAs
  <2>4. CASE x.op = "CSNEG"
    <3>1. PICK e \in Int : e = (-1) ## <<1, 1>> ## <<0, 1>> ## <<212, 8>> /\ e = -300
        BY PowTable DEF ##
    <3>2. PICK o \in 0..3 : o = 1
        OBVIOUS
    <3>3. Assemble(x) = e ## <<x.Rm, 5>> ## <<CondNum(x.cond), 4>> ## <<o, 2>>
                          ## <<x.Rn, 5>> ## <<x.Rd, 5>>
        BY <2>4, <3>1, <3>2, SMT DEF Assemble
    <3>4. bitfield_u32(e, 0, 11) = 1748
        BY <3>1, PowTable DEF bitfield_u32
    <3> QED BY <2>4, <3>1, <3>3, <3>4, Indices DEF DecodedAs
  <2> QED BY <2>1, <2>2, <2>3, <2>4
<1> PICK w : w = Assemble(x)
    OBVIOUS
<1>3. PICK m \in 0..31, c \in 0..15, n \in 0..31, d \in 0..31 :
         /\ m = x.Rm /\ c = CondNum(x.cond) /\ n = x.Rn /\ d = x.Rd
         /\ w = e ## <<m, 5>> ## <<c, 4>> ## <<o, 2>> ## <<n, 5>> ## <<d, 5>>
    BY <1>1, <1>2
<1>4. SelectFields(w, e, n, d)
    BY <1>3, SelectWord
<1>5. itable(bitfield_u32(w, 21, 11)) = DecodedAs(x.op)
    BY <1>2, <1>3, <1>4 DEF SelectFields
<1> QED
    BY <1>3, <1>4, <1>5
        DEF SelectFields, ReadBack, Insn, fix_instr_aliases, Immediate,
            DecodedAs, Shifts, ImmOps, Src1Unused, Src2Rm, ZeroBranches

\* HLT, of which nothing is looked at.
LEMMA HltRead ==
    ASSUME NEW x, Encodable(x), x.op = "HLT"
    PROVE  ReadBack(x)
<1>1. PICK e \in Int : e = (-1) ## <<84, 7>> ## <<2, 3>> /\ e = -350
    BY PowTable DEF ##
<1>2. Assemble(x) = e ## <<x.imm, 16>> ## <<0, 5>>
    BY <1>1, SMT DEF Assemble
<1> PICK w : w = Assemble(x)
    OBVIOUS
<1>3. PICK v \in Int : v = x.imm /\ w = e ## <<v, 16>> ## <<0, 5>>
    BY <1>2, Parts
<1>4. bitfield_u32(w, 21, 11) = bitfield_u32(e, 0, 11)
    BY <1>3, Skip, Joined
<1>5. bitfield_u32(e, 0, 11) = 1698
    BY <1>1, PowTable DEF bitfield_u32
<1>6. itable(bitfield_u32(w, 21, 11)) = "HLT"
    BY <1>4, <1>5, Indices
<1> QED
    BY <1>6 DEF ReadBack, Insn, fix_instr_aliases, Immediate, DecodedAs,
                Shifts, ImmOps, Src1Unused, Src2Rm, ZeroBranches

\* NOP.
LEMMA NopRead ==
    ASSUME NEW x, Encodable(x), x.op = "NOP"
    PROVE  ReadBack(x)
<1>1. PICK e \in Int : e = (-1) ## <<85, 7>> /\ e = -43
    BY PowTable DEF ##
<1>2. PICK v \in Nat : v = 204831
    BY SMT
<1>3. Assemble(x) = e ## <<v, 24>>
    BY <1>1, <1>2, SMT DEF Assemble
<1> PICK w : w = Assemble(x)
    OBVIOUS
<1>4. pow2[24] = 16777216
  <2>1. pow2[16 + 8] = pow2[16] * pow2[8]
      BY PowSum
  <2> QED BY <2>1, PowTable, SMT
<1>5. w = (e * 16777216) + v
  <2>1. v % 16777216 = v
      BY <1>2, SMT
  <2> QED BY <1>3, <1>4, <2>1, SMT DEF ##
<1>6. bitfield_u32(w, 21, 11) = 1704
  <2>1. PICK d \in Nat \ {0}, q \in Int : d = 2097152 /\ q = -344
      BY SMT
  <2>2. v \in 0..(d - 1)
    <3>1. v < 2097152 /\ 0 <= v
        BY <1>2, SMT
    <3>2. v < d
        BY <2>1, <3>1, SMT
    <3> QED BY <3>1, <3>2, SMT
  <2>3. ((q * d) + v) \div d = q
      BY <2>2, Division
  <2>4. w = (q * d) + v
      BY <1>1, <1>5, <2>1, SMT
  <2>5. w \div d = q
      BY <2>3, <2>4
  <2> QED BY <2>1, <2>5, PowTable, SMT DEF bitfield_u32
<1>7. itable(bitfield_u32(w, 21, 11)) = "NOP"
    BY <1>6, Indices
<1> QED
    BY <1>7 DEF ReadBack, Insn, fix_instr_aliases, Immediate, DecodedAs,
                Shifts, ImmOps, Src1Unused, Src2Rm, ZeroBranches

\* ADRP.
LEMMA AdrpRead ==
    ASSUME NEW x, Encodable(x), x.op = "ADRP"
    PROVE  ReadBack(x)
<1>1. PICK lo \in 0..3, v \in SignedField(19), d \in 0..31 :
         /\ lo = x.imm % 4 /\ v = x.imm \div 4 /\ x.imm = (4 * v) + lo /\ d = x.Rd
  <2>1. x.imm \in SignedField(21)
    <3>1. ImmRange(x.op) = SignedField(21)
        BY DEF ImmRange
    <3> QED BY <3>1, Parts
  <2>2. x.imm \in Int /\ -1048576 <= x.imm /\ x.imm < 1048576
      BY <2>1, PowTable, SMT DEF SignedField
  <2>3. PICK j \in Int, lo \in 0..3, v \in Int :
           j = x.imm /\ lo = j % 4 /\ v = j \div 4 /\ j = (4 * v) + lo
      BY <2>2, SMT
  <2>4. -262144 <= v /\ v < 262144
      BY <2>2, <2>3, SMT
  <2>5. v \in SignedField(19)
      BY <2>4, PowTable, SMT DEF SignedField
  <2> QED BY <2>3, <2>5, Parts
<1>2. PICK e \in Int : e = (-1) ## <<lo, 2>> ## <<16, 5>> /\ e = ((lo - 4) * 32) + 16
  <2>1. pow2[2] = 4 /\ pow2[5] = 32 /\ lo % 4 = lo
      BY PowTable
  <2>2. PICK f \in Int : f = (-1) ## <<lo, 2>>
      BY Joined
  <2>3. f = lo - 4
      BY <2>1, <2>2 DEF ##
  <2>4. PICK e \in Int : e = f ## <<16, 5>>
      BY Joined
  <2>5. e = (f * 32) + 16
      BY <2>1, <2>4 DEF ##
  <2> QED BY <2>2, <2>3, <2>4, <2>5
<1> PICK w : w = Assemble(x)
    OBVIOUS
<1>3. w = e ## <<v, 19>> ## <<d, 5>>
  <2>1. w = (-1) ## <<x.imm % 4, 2>> ## <<16, 5>> ## <<x.imm \div 4, 19>>
              ## <<x.Rd, 5>>
      BY SMT DEF Assemble
  <2>2. lo = x.imm % 4 /\ v = x.imm \div 4 /\ d = x.Rd
      BY <1>1
  <2>3. w = (-1) ## <<lo, 2>> ## <<16, 5>> ## <<v, 19>> ## <<d, 5>>
      BY <2>1, <2>2
  <2> QED BY <1>2, <2>3
<1>4. Imm19Fields(w, e, v, d)
    BY <1>3, Imm19Word
<1>5. itable(bitfield_u32(w, 21, 11)) = "ADRP"
  <2>1. PICK i : i = bitfield_u32(w, 21, 11) /\ IndexEnds(e, 3, i)
      BY <1>4 DEF Imm19Fields
  <2>2. PICK h \in 0..7 : i = ((e * 8) + h) % 2048
      BY <2>1, Ends3
  <2>3. i = 1152 + (256 * lo) + h
      BY <1>2, <2>2
  <2> QED BY <2>1, <2>3, Indices
<1>6. bitfield_u32(w, 29, 2) = lo
  <2>1. v \in Int
      BY SignedRange
  <2>2. bitfield_u32(w, 29, 2) = bitfield_u32(e, 5, 2)
      BY <1>3, <2>1, Skip, Joined
  <2>3. bitfield_u32(e, 5, 2) = lo
      BY <1>2, PowTable DEF bitfield_u32
  <2> QED BY <2>2, <2>3
<1>7. bitfield_s64(w, 29, 2) = IF lo >= 2 THEN lo - 4 ELSE lo
    BY <1>6, PowTable DEF bitfield_s64
<1>8. bitfield_s64(w, 5, 19) = v
    BY <1>4 DEF Imm19Fields
<1>9. AdrpImm(w) = x.imm <=> lo < 2 \/ x.imm \in {-2, -1}
  <2>1. v \in Int
      BY SignedRange
  <2>2. AdrpImm(w) = IF lo >= 2 THEN lo - 4 ELSE (v * 4) + lo
      BY <1>7, <1>8 DEF AdrpImm
  <2>3. PICK j \in Int : j = x.imm /\ j = (4 * v) + lo
      BY <1>1, Parts
  <2>4. AdrpImm(w) = j <=> lo < 2 \/ j \in {-2, -1}
      BY <2>1, <2>2, <2>3
  <2> QED BY <2>3, <2>4
<1> QED
    BY <1>1, <1>4, <1>5, <1>9
        DEF Imm19Fields, ReadBack, Insn, fix_instr_aliases, Immediate,
            DecodedAs, Shifts, ImmOps, Src1Unused, Src2Rm, ZeroBranches

\* The amount read back from the word of a shift.
ShiftBack(x) ==
    LET w == Insn(Assemble(x))
    IN /\ x.op = "LSR" => w.imm = x.imm % 32
       /\ x.op = "LSL" => w.imm = (64 - x.imm) % 32
       /\ x.op = "ASR" => w.imm % 64 = 63

\* LSL, an UBFM whose imms is one below its immr.
LEMMA LslRead ==
    ASSUME NEW x, Encodable(x), x.op = "LSL"
    PROVE  ReadBack(x) /\ ShiftBack(x)
<1>1. PICK e \in Int : e = (-1) ## <<2, 2>> ## <<38, 6>> ## <<1, 1>> /\ e = -179
    BY PowTable DEF ##
<1> PICK w : w = Assemble(x)
    OBVIOUS
<1>2. PICK r \in 0..63, t \in 0..63, n \in 0..31, d \in 0..31 :
         /\ r = 64 - x.imm /\ t = 63 - x.imm /\ n = x.Rn /\ d = x.Rd
  <2>1. x.imm \in 1..63
      BY Parts DEF ImmRange
  <2>2. PICK r \in 0..63 : r = 64 - x.imm
      BY <2>1
  <2>3. PICK t \in 0..63 : t = 63 - x.imm
      BY <2>1
  <2>4. PICK n \in 0..31, d \in 0..31 : n = x.Rn /\ d = x.Rd
      BY Parts
  <2> WITNESS r \in 0..63, t \in 0..63, n \in 0..31, d \in 0..31
  <2> QED BY <2>2, <2>3, <2>4
<1>3. w = e ## <<r, 6>> ## <<t, 6>> ## <<n, 5>> ## <<d, 5>>
    BY <1>1, <1>2, SMT DEF Assemble
<1>4. ShiftFields(w, e, r, t, n, d)
    BY <1>3, ShiftWord
<1>5. bitfield_u32(w, 21, 11) \in 1690..1691
  <2>1. PICK i : i = bitfield_u32(w, 21, 11) /\ IndexEnds(e, 1, i)
      BY <1>4 DEF ShiftFields
  <2>2. i \in 1690..1691
      BY <1>1, <2>1, Ends1
  <2> QED BY <2>1, <2>2
<1>6. itable(bitfield_u32(w, 21, 11)) = "UBFM"
    BY <1>5, Indices
<1>7. fix_instr_aliases(w, "UBFM") = "LSL"
  <2>1. x.imm \in 1..63
      BY Parts DEF ImmRange
  <2> QED BY <1>2, <1>4, <2>1 DEF ShiftFields, fix_instr_aliases
<1> QED
    BY <1>2, <1>4, <1>6, <1>7
        DEF ShiftFields, ReadBack, ShiftBack, Insn, Immediate, DecodedAs, Shifts,
            ImmOps, Src1Unused, Src2Rm, ZeroBranches

\* LSR, an UBFM whose imms is 63.
LEMMA LsrRead ==
    ASSUME NEW x, Encodable(x), x.op = "LSR"
    PROVE  ReadBack(x) /\ ShiftBack(x)
<1>1. PICK e \in Int : e = (-1) ## <<2, 2>> ## <<38, 6>> ## <<1, 1>> /\ e = -179
    BY PowTable DEF ##
<1> PICK w : w = Assemble(x)
    OBVIOUS
<1>2. PICK r \in 0..63, t \in 0..63, n \in 0..31, d \in 0..31 :
         /\ r = x.imm /\ t = 63 /\ n = x.Rn /\ d = x.Rd
  <2>1. x.imm \in 1..63
      BY Parts DEF ImmRange
  <2>2. PICK r \in 0..63, t \in 0..63 : r = x.imm /\ t = 63
      BY <2>1
  <2>3. PICK n \in 0..31, d \in 0..31 : n = x.Rn /\ d = x.Rd
      BY Parts
  <2> WITNESS r \in 0..63, t \in 0..63, n \in 0..31, d \in 0..31
  <2> QED BY <2>2, <2>3
<1>3. w = e ## <<r, 6>> ## <<t, 6>> ## <<n, 5>> ## <<d, 5>>
    BY <1>1, <1>2, SMT DEF Assemble
<1>4. ShiftFields(w, e, r, t, n, d)
    BY <1>3, ShiftWord
<1>5. bitfield_u32(w, 21, 11) \in 1690..1691
  <2>1. PICK i : i = bitfield_u32(w, 21, 11) /\ IndexEnds(e, 1, i)
      BY <1>4 DEF ShiftFields
  <2>2. i \in 1690..1691
      BY <1>1, <2>1, Ends1
  <2> QED BY <2>1, <2>2
<1>6. itable(bitfield_u32(w, 21, 11)) = "UBFM"
    BY <1>5, Indices
<1>7. fix_instr_aliases(w, "UBFM") = "LSR"
    BY <1>2, <1>4 DEF ShiftFields, fix_instr_aliases
<1> QED
    BY <1>2, <1>4, <1>6, <1>7
        DEF ShiftFields, ReadBack, ShiftBack, Insn, Immediate, DecodedAs, Shifts,
            ImmOps, Src1Unused, Src2Rm, ZeroBranches

\* ASR.
LEMMA AsrRead ==
    ASSUME NEW x, Encodable(x), x.op = "ASR"
    PROVE  ReadBack(x) /\ ShiftBack(x)
<1>1. PICK e \in Int : e = (-1) ## <<0, 2>> ## <<38, 6>> ## <<1, 1>> /\ e = -435
    BY PowTable DEF ##
<1> PICK w : w = Assemble(x)
    OBVIOUS
<1>2. PICK r \in 0..63, t \in 0..63, n \in 0..31, d \in 0..31 :
         /\ r = x.imm /\ t = 63 /\ n = x.Rn /\ d = x.Rd
  <2>1. x.imm \in 1..63
      BY Parts DEF ImmRange
  <2>2. PICK r \in 0..63, t \in 0..63 : r = x.imm /\ t = 63
      BY <2>1
  <2>3. PICK n \in 0..31, d \in 0..31 : n = x.Rn /\ d = x.Rd
      BY Parts
  <2> WITNESS r \in 0..63, t \in 0..63, n \in 0..31, d \in 0..31
  <2> QED BY <2>2, <2>3
<1>3. w = e ## <<r, 6>> ## <<t, 6>> ## <<n, 5>> ## <<d, 5>>
    BY <1>1, <1>2, SMT DEF Assemble
<1>4. ShiftFields(w, e, r, t, n, d)
    BY <1>3, ShiftWord
<1>5. bitfield_u32(w, 21, 11) \in 1178..1179
  <2>1. PICK i : i = bitfield_u32(w, 21, 11) /\ IndexEnds(e, 1, i)
      BY <1>4 DEF ShiftFields
  <2>2. i \in 1178..1179
      BY <1>1, <2>1, Ends1
  <2> QED BY <2>1, <2>2
<1>6. itable(bitfield_u32(w, 21, 11)) = "ASR"
    BY <1>5, Indices
<1>7. fix_instr_aliases(w, "ASR") = "ASR" /\ ((r * 64) + t) % 64 = 63
    BY <1>2 DEF fix_instr_aliases
<1> QED
    BY <1>2, <1>4, <1>6, <1>7
        DEF ShiftFields, ReadBack, ShiftBack, Insn, Immediate, DecodedAs, Shifts,
            ImmOps, Src1Unused, Src2Rm, ZeroBranches

\* Every instruction that can be assembled is read back from its word.
LEMMA ReadsBack ==
    ASSUME NEW x, Encodable(x)
    PROVE  ReadBack(x)
<1>1. x.op \in Mnemonics
    BY Parts
<1>2. CASE x.op \in {"LDUR", "STUR", "MOVZ", "MOVK", "ADD_RI", "SUB_RI"}
    BY <1>2, MemRead, MovRead, AddImmRead
<1>3. CASE x.op \in {"ADDS_RR", "SUBS_RR", "ANDS_RR", "ORR_RR", "EOR_RR", "MVN"}
    BY <1>3, RegsRead
<1>4. CASE x.op \in {"RET", "BR", "BLR", "B", "BL", "B_COND", "CBZ", "CBNZ"}
    BY <1>4, BranchRead, JumpRead, CondRead, Imm19Read
<1>5. CASE x.op \in {"CSEL", "CSINC", "CSINV", "CSNEG", "NOP", "HLT", "ADRP"}
    BY <1>5, SelectRead, NopRead, HltRead, AdrpRead
<1>6. CASE x.op \in {"LSL", "LSR", "ASR"}
    BY <1>6, LslRead, LsrRead, AsrRead
<1> QED BY <1>1, <1>2, <1>3, <1>4, <1>5, <1>6 DEF Mnemonics

\* The instruction decoded is one that can be assembled.
LEMMA DecodesEncodable == AluInv /\ last = "DECODE" => Encodable(insn)
  BY InstructionsAssumption DEF AluInv

\* For every instruction there is, whatever its operands: which of them the
\* decoder reads from its word as the A64 encoding has them, and which not.
THEOREM DecoderInverts == AluSpec => []DecodesAsAssembled
<1>1. AluInv => DecodesAsAssembled
  <2> SUFFICES ASSUME AluInv, last = "DECODE" PROVE DecodesAsAssembled
      BY DEF DecodesAsAssembled
  <2>1. Encodable(insn)
      BY DecodesEncodable
  <2>2. PICK x : x = insn
      OBVIOUS
  <2>3. PICK op \in Mnemonics : op = x.op
      BY <2>1, <2>2, Parts
  <2>4. /\ x.Rd \in 0..31 /\ x.Rn \in 0..31 /\ x.Rm \in 0..31
        /\ x.imm \in Int /\ x.cond \in Conds
      BY <2>1, <2>2, Parts
  <2>5. PICK w : w = Decoded
      OBVIOUS
  <2>6. /\ w.op = DecodedAs(op)
        /\ op \notin Src1Unused \cup {"MOVK"} \cup ZeroBranches => w.Rn = x.Rn
        /\ op \in ZeroBranches => w.Rn = x.imm % 32
        /\ op \in Src2Rm => w.Rm = x.Rm
        /\ op \notin {"B", "BL", "B_COND", "RET", "BR", "BLR", "NOP", "HLT"}
              => w.Rd = x.Rd
        /\ op \in {"BR", "BLR"} => w.Rd = 0
        /\ op = "BL" => w.Rd = x.imm % 32
        /\ op \in ImmOps \ (Shifts \cup {"ADRP"}) => w.imm = x.imm
        /\ op = "ADRP" => (w.imm = x.imm
                             <=> x.imm % 4 < 2 \/ x.imm \in {-2, -1})
        /\ op \in {"MOVZ", "MOVK"} => w.hw = x.hw
        /\ op = "B_COND" => w.cond = x.cond
      BY <2>1, <2>2, <2>3, <2>5, ReadsBack DEF ReadBack, Decoded
  <2> DEFINE a64 == A64Operands(x)
             got == DecodedOperands(w)
  <2>7. got.src1 = a64.src1 <=> (op \in ZeroBranches => x.Rd = x.imm % 32)
      BY <2>3, <2>4, <2>6
         DEF A64Operands, DecodedOperands, A64Src1, Src1, RawSrc1, Src1Unused,
             ZeroIf31, SpOps, SP_NUM, XZR_NUM, NoReg, DecodedAs, Mnemonics,
             ZeroBranches
  <2>8. got.src2 = a64.src2 <=> op \notin Selects
    <3>1. CASE op \in Src2Rm \cup {"STUR"}
      <4>1. w.op = op /\ got.src2 = Src2(w, op)
          BY <2>3, <2>6, <3>1
             DEF DecodedOperands, DecodedAs, Src2Rm, Mnemonics, XControl,
                 MControl, ValbRegOps
      <4>2. Src2(w, op) = A64Src2(x) /\ op \notin Selects
          BY <2>3, <2>6, <3>1
             DEF A64Src2, Src2, RawSrc2, Src2Rm, ZeroIf31, Mnemonics, Selects
      <4> QED BY <4>1, <4>2 DEF A64Operands
    <3>2. CASE op \notin Src2Rm \cup {"STUR"}
      <4>1. got.src2 = NoReg
          BY <2>3, <2>6, <3>2
             DEF DecodedOperands, DecodedAs, Src2Rm, Mnemonics, XControl,
                 MControl, ValbRegOps
      <4>2. A64Src2(x) = NoReg <=> op \notin Selects
          BY <2>3, <2>4, <3>2
             DEF A64Src2, Src2Rm, ZeroIf31, XZR_NUM, NoReg, Mnemonics, Selects
      <4> QED BY <4>1, <4>2 DEF A64Operands
    <3> QED BY <3>1, <3>2
  <2>9. got.cond = a64.cond <=> op \notin Selects
      BY <2>3, <2>4, <2>6
         DEF A64Operands, DecodedOperands, DecodedAs, Mnemonics, Selects, Conds
  <2>10. got.dst = a64.dst <=> /\ op \notin {"BLR", "BR"} \cup ZeroBranches
                               /\ op = "BL" => x.imm % 32 = 30
    <3>1. CASE op \in NoWriteOps
      <4>1. got.dst = NoReg
          BY <2>3, <2>6, <3>1
             DEF DecodedOperands, DecodedAs, NoWriteOps, WControl
      <4>2. A64Dst(x) = NoReg /\ op \notin {"BL", "BLR", "BR"} \cup ZeroBranches
          BY <2>3, <3>1 DEF A64Dst, NoWriteOps, ZeroBranches, Mnemonics
      <4> QED BY <4>1, <4>2 DEF A64Operands
    <3>2. CASE op \notin NoWriteOps
      <4>1. got.dst = ZeroIf31(w.Rd, op \notin {"ADD_RI", "SUB_RI"})
          BY <2>3, <2>6, <3>2
             DEF DecodedOperands, DecodedAs, NoWriteOps, WControl, Dst, RawDst,
                 Mnemonics
      <4>2. CASE op \in {"BL", "BLR", "BR"} \cup ZeroBranches
          BY <2>3, <2>4, <2>6, <4>1, <4>2
             DEF A64Operands, A64Dst, ZeroIf31, SP_NUM, XZR_NUM, NoReg,
                 ZeroBranches
      <4>3. CASE op \notin {"BL", "BLR", "BR"} \cup ZeroBranches
        <5>1. w.Rd = x.Rd
            BY <2>3, <2>6, <3>2, <4>3 DEF NoWriteOps, Mnemonics
        <5>2. A64Dst(x) = ZeroIf31(x.Rd, op \notin {"ADD_RI", "SUB_RI"})
            BY <2>3, <3>2, <4>3
               DEF A64Dst, ZeroIf31, NoWriteOps, ZeroBranches, Mnemonics
        <5> QED BY <4>1, <4>3, <5>1, <5>2 DEF A64Operands
      <4> QED BY <4>2, <4>3
    <3> QED BY <3>1, <3>2
  <2>11. got.hw = a64.hw
      BY <2>3, <2>6 DEF A64Operands, DecodedOperands, DecodedAs, Mnemonics
  <2>12. op \notin Shifts =>
            (got.imm = a64.imm
               <=> /\ op \in {"HLT"} \cup ZeroBranches => x.imm = 0
                   /\ op = "ADRP" => x.imm % 4 < 2 \/ x.imm \in {-2, -1})
    <3>1. op \in Mnemonics \ (ImmOps \cup {"HLT"} \cup ZeroBranches) => x.imm = 0
        BY <2>1, <2>2, <2>3, Parts
           DEF ImmRange, ImmOps, ZeroBranches, Mnemonics
    <3>2. op \notin Shifts => got.imm = IF op \in ImmOps THEN w.imm ELSE 0
        BY <2>3, <2>6
           DEF DecodedOperands, extract_immval, DecodedAs, ImmOps, Mnemonics
    <3>3. a64.imm = x.imm
        BY DEF A64Operands
    <3> QED BY <2>3, <2>4, <2>6, <3>1, <3>2, <3>3
               DEF ImmOps, Mnemonics, ZeroBranches, Shifts
  <2> QED BY <2>2, <2>3, <2>5, <2>6, <2>7, <2>8, <2>9, <2>10, <2>11, <2>12
             DEF DecodesAsAssembled
<1> QED BY <1>1, AluInductive, PTL

\* LSL is told from LSR for every amount, and the amount read is the right one
\* for an LSR by less than 32 and for an LSL by 16 alone; an ASR's is 63.
THEOREM ShiftsRead == AluSpec => []ShiftsDecoded
<1>1. AluInv => ShiftsDecoded
  <2> SUFFICES ASSUME AluInv, last = "DECODE", insn.op \in Shifts
               PROVE  ShiftsDecoded
      BY DEF ShiftsDecoded
  <2>1. Encodable(insn)
      BY DecodesEncodable
  <2>2. insn.imm \in 1..63
      BY <2>1, Parts DEF ImmRange, Shifts
  <2>3. Decoded.op = insn.op
      BY <2>1, ReadsBack DEF ReadBack, Decoded, DecodedAs, Shifts
  <2>4. /\ insn.op = "LSR" => Decoded.imm = insn.imm % 32
        /\ insn.op = "LSL" => Decoded.imm = (64 - insn.imm) % 32
        /\ insn.op = "ASR" => Decoded.imm % 64 = 63
      BY <2>1, LslRead, LsrRead, AsrRead DEF ShiftBack, Decoded, Shifts
  <2>5. /\ insn.imm % 32 = insn.imm <=> insn.imm < 32
        /\ (64 - insn.imm) % 32 = insn.imm <=> insn.imm = 16
      BY <2>2
  <2> QED BY <2>3, <2>4, <2>5 DEF ShiftsDecoded
<1> QED BY <1>1, AluInductive, PTL
=============================================================================
