----------------------------- MODULE HexProofs -----------------------------
(***************************************************************************)
(* Digit strings, for every base and every length: what a number prints    *)
(* as, what is read back, and what cutting and padding leave of it.        *)
(*                                                                         *)
(* Everything here is by induction over the positions of a string.  The    *)
(* induction is that of sets: a set of numbers that has 0, and with k - 1  *)
(* also k, has them all, since the numbers it lacks would have a least     *)
(* one (UpTo).  A recursive function is what it is written as when some    *)
(* function solves its equation (Recursion).                               *)
(***************************************************************************)
EXTENDS Hex, TLAPS, WellFoundedInduction

(* A set of numbers that is not empty has a smallest one.                  *)
LEMMA LeastNumber ==
  ASSUME NEW T \in SUBSET Nat, T # {}
  PROVE  \E n \in T : \A m \in T : n <= m
<1> DEFINE R == OpToRel(<, Nat)
<1>1. IsWellFoundedOn(R, Nat)
  BY NatLessThanWellFounded
<1>2. \A x, y \in Nat : x < y => << x, y >> \in R
  BY DEF OpToRel
<1> HIDE DEF R
<1>3. PICK x \in T : \A y \in T : ~ (<< y, x >> \in R)
  BY <1>1, WFMin
<1>4. \A y \in T : x <= y
  <2> TAKE y \in T
  <2>1. x \in Nat /\ y \in Nat /\ ~ (y < x)
    BY <1>2, <1>3
  <2> QED BY <2>1
<1> QED BY <1>4

(* Induction up to n.                                                      *)
LEMMA UpTo ==
  ASSUME NEW n \in Nat, NEW T, 0 \in T, \A k \in 1 .. n : k - 1 \in T => k \in T
  PROVE  \A k \in 0 .. n : k \in T
<1> DEFINE lacking == { k \in 0 .. n : k \notin T }
<1>1. lacking \in SUBSET Nat
  OBVIOUS
<1>2. CASE lacking # {}
  <2> HIDE DEF lacking
  <2>1. PICK k \in lacking : \A j \in lacking : k <= j
    BY <1>1, <1>2, LeastNumber
  <2>2. k \in 0 .. n /\ k \notin T
    BY <2>1 DEF lacking
  <2>3. k # 0
    BY <2>2
  <2>4. k \in 1 .. n /\ k - 1 \in 0 .. n /\ ~ (k <= k - 1)
    BY <2>2, <2>3
  <2>5. k - 1 \in T
    BY <2>1, <2>4 DEF lacking
  <2> QED BY <2>2, <2>4, <2>5
<1> QED BY <1>2

(* An equation that says every value by the one before has a solution.     *)
Solves(f, n, S, a, g) == /\ f \in [0 .. n -> S] /\ f[0] = a
                         /\ \A i \in 1 .. n : f[i] = g[i][f[i - 1]]

LEMMA Recursion ==
  ASSUME NEW n \in Nat, NEW S, NEW a \in S, NEW g \in [1 .. n -> [S -> S]]
  PROVE  \E f : Solves(f, n, S, a, g)
<1> DEFINE T == { k \in 0 .. n : \E f : Solves(f, k, S, a, g) }
<1>1. 0 \in T
  <2> DEFINE f == [i \in 0 .. 0 |-> a]
  <2>1. Solves(f, 0, S, a, g)
    BY DEF Solves
  <2> HIDE DEF f
  <2> QED BY <2>1
<1>2. ASSUME NEW k \in 1 .. n, k - 1 \in T PROVE k \in T
  <2>0. PICK f : Solves(f, k - 1, S, a, g)
    BY <1>2
  <2>1. /\ f \in [0 .. k - 1 -> S] /\ f[0] = a
        /\ \A i \in 1 .. k - 1 : f[i] = g[i][f[i - 1]]
    BY <2>0 DEF Solves
  <2> DEFINE h == [i \in 0 .. k |-> IF i = k THEN g[k][f[k - 1]] ELSE f[i]]
  <2>2. f[k - 1] \in S /\ g[k] \in [S -> S]
    BY <2>1
  <2>3. h \in [0 .. k -> S]
    <3>1. \A i \in 0 .. k : i # k => i \in 0 .. k - 1
      OBVIOUS
    <3> QED BY <2>1, <2>2, <3>1
  <2>4. \A i \in 0 .. k - 1 : h[i] = f[i]
    OBVIOUS
  <2>5. h[k] = g[k][f[k - 1]]
    OBVIOUS
  <2> HIDE DEF h
  <2>6. Solves(h, k, S, a, g)
    <3>1. h[0] = a
      BY <2>1, <2>4
    <3>2. ASSUME NEW i \in 1 .. k PROVE h[i] = g[i][h[i - 1]]
      <4>1. i - 1 \in 0 .. k - 1
        OBVIOUS
      <4>2. CASE i = k
        BY <2>4, <2>5, <4>1, <4>2
      <4>3. CASE i # k
        BY <2>1, <2>4, <4>1, <4>3
      <4> QED BY <4>2, <4>3
    <3> QED BY <2>3, <3>1, <3>2 DEF Solves
  <2> QED BY <2>6
<1> HIDE DEF T
<1>3. \A k \in 1 .. n : k - 1 \in T => k \in T
  BY <1>2
<1>4. \A k \in 0 .. n : k \in T
  BY <1>1, <1>3, UpTo
<1>5. n \in T
  BY <1>4
<1> QED BY <1>5 DEF T

-----------------------------------------------------------------------------
(* Division with remainder, and what a multiple of m adds to a remainder.  *)
LEMMA DivMod ==
  ASSUME NEW x \in Int, NEW m \in Nat \ {0}
  PROVE  /\ x \div m \in Int /\ x % m \in 0 .. m - 1
         /\ x = (x \div m) * m + (x % m)
OBVIOUS

LEMMA DivModUnique ==
  ASSUME NEW q \in Int, NEW m \in Nat \ {0}, NEW r \in 0 .. m - 1
  PROVE  (q * m + r) % m = r /\ (q * m + r) \div m = q
OBVIOUS

LEMMA ModShift ==
  ASSUME NEW q \in Int, NEW x \in Int, NEW m \in Nat \ {0}
  PROVE  (q * m + x) % m = x % m
<1> DEFINE p == x \div m
           r == x % m
<1>1. p \in Int /\ r \in 0 .. m - 1 /\ x = p * m + r
  BY DivMod
<1> HIDE DEF p, r
<1>2. q * m + x = (q + p) * m + r
  BY <1>1
<1>3. ((q + p) * m + r) % m = r
  BY <1>1, DivModUnique
<1>4. (p * m + r) % m = r
  BY <1>1, DivModUnique
<1> QED BY <1>1, <1>2, <1>3, <1>4

(* Cutting before an addition does not change what is left of the sum.     *)
LEMMA ModSum ==
  ASSUME NEW x \in Int, NEW y \in Int, NEW m \in Nat \ {0}
  PROVE  ((x % m) + y) % m = (x + y) % m
<1> DEFINE q == x \div m
           r == x % m
<1>1. q \in Int /\ r \in Int /\ x = q * m + r
  BY DivMod
<1> HIDE DEF q, r
<1>2. x + y = q * m + (r + y)
  BY <1>1
<1>3. (q * m + (r + y)) % m = (r + y) % m
  <2>1. r + y \in Int
    BY <1>1
  <2> QED BY <1>1, <2>1, ModShift
<1> QED BY <1>2, <1>3 DEF r

(* Cutting twice leaves what the shorter cut leaves.                       *)
LEMMA ModMod ==
  ASSUME NEW x \in Int, NEW d \in Nat \ {0}, NEW e \in Nat \ {0}
  PROVE  (x % (e * d)) % d = x % d
<1> DEFINE m == e * d
           q == x \div m
           r == x % m
<1>1. m \in Nat \ {0}
  OBVIOUS
<1>2. q \in Int /\ r \in Int /\ x = q * m + r
  <2> HIDE DEF m
  <2>1. r \in 0 .. m - 1
    BY <1>1, DivMod
  <2> QED BY <1>1, <2>1, DivMod
<1>3. q * m = (q * e) * d /\ q * e \in Int
  BY <1>2
<1> HIDE DEF q, r, m
<1>4. x = (q * e) * d + r
  BY <1>2, <1>3
<1>5. ((q * e) * d + r) % d = r % d
  BY <1>2, <1>3, ModShift
<1> QED BY <1>4, <1>5 DEF r, m

(* Two divisions are one.                                                  *)
LEMMA DivDiv ==
  ASSUME NEW x \in Int, NEW p \in Nat \ {0}, NEW b \in Nat \ {0}
  PROVE  (x \div p) \div b = x \div (b * p)
<1> DEFINE y == x \div p
           r == x % p
           z == y \div b
           s == y % b
<1>1. y \in Int /\ r \in 0 .. p - 1 /\ x = y * p + r
  BY DivMod
<1>2. z \in Int /\ s \in 0 .. b - 1 /\ y = z * b + s
  BY <1>1, DivMod
<1> HIDE DEF y, r, z, s
<1>3. b * p \in Nat \ {0}
  OBVIOUS
<1>4. s * p + r \in 0 .. (b * p) - 1
  <2>1. s * p + r \in Nat
    BY <1>1, <1>2
  <2>2. (s + 1) * p <= b * p
    <3>1. b = (s + 1) + (b - (s + 1)) /\ b - (s + 1) \in Nat
      BY <1>2
    <3>2. b * p = (s + 1) * p + (b - (s + 1)) * p
      BY <1>2, <3>1
    <3>3. (b - (s + 1)) * p \in Nat
      BY <3>1
    <3> QED BY <1>2, <3>2, <3>3
  <2>3. (s + 1) * p = s * p + p /\ s * p \in Nat
    BY <1>2
  <2> QED BY <1>1, <1>3, <2>1, <2>2, <2>3
<1>5. x = z * (b * p) + (s * p + r)
  <2>1. y * p = (z * b) * p + s * p
    BY <1>2
  <2>2. (z * b) * p = z * (b * p)
    BY <1>2
  <2>3. y * p \in Int /\ z * (b * p) \in Int /\ s * p \in Int /\ r \in Int
    BY <1>1, <1>2
  <2> QED BY <1>1, <2>1, <2>2, <2>3
<1>6. x \div (b * p) = z
  <2>1. (z * (b * p) + (s * p + r)) \div (b * p) = z
    BY <1>2, <1>3, <1>4, DivModUnique
  <2> QED BY <1>5, <2>1
<1> QED BY <1>6 DEF z, y

-----------------------------------------------------------------------------
(* The powers of the base.                                                 *)
LEMMA PowerDef ==
  /\ Power \in [0 .. WordDigits -> Nat \ {0}]
  /\ Power[0] = 1 /\ \A i \in 1 .. WordDigits : Power[i] = Base * Power[i - 1]
<1> DEFINE S == Nat \ {0}
           g == [i \in 1 .. WordDigits |-> [v \in S |-> Base * v]]
           Eq(f) == f = [i \in 0 .. WordDigits |-> IF i = 0 THEN 1 ELSE Base * f[i - 1]]
<1>1. WordDigits \in Nat /\ \A v \in S : Base * v \in S
  BY HexAssumption
<1>2. g \in [1 .. WordDigits -> [S -> S]]
  BY <1>1
<1>3. \A i \in 1 .. WordDigits : \A v \in S : g[i][v] = Base * v
  OBVIOUS
<1> HIDE DEF g
<1>a. PICK f : Solves(f, WordDigits, S, 1, g)
  <2>1. WordDigits \in Nat /\ 1 \in S
    BY <1>1
  <2> HIDE DEF S
  <2> QED BY <1>2, <2>1, Recursion
<1>4. /\ f \in [0 .. WordDigits -> S] /\ f[0] = 1
      /\ \A i \in 1 .. WordDigits : f[i] = g[i][f[i - 1]]
  BY <1>a DEF Solves
<1>5. \A i \in 1 .. WordDigits : f[i] = Base * f[i - 1]
  <2>1. \A i \in 1 .. WordDigits : i - 1 \in 0 .. WordDigits
    BY <1>1
  <2> QED BY <1>3, <1>4, <2>1
<1>6. Eq(f)
  <2>1. \A i \in 0 .. WordDigits : i # 0 => i \in 1 .. WordDigits
    BY <1>1
  <2> QED BY <1>4, <1>5, <2>1
<1>7. Power = CHOOSE h : Eq(h)
  BY DEF Power
<1>8. Eq(Power)
  <2> HIDE DEF Eq
  <2> QED BY <1>6, <1>7
<1>9. Power[0] = 1 /\ \A i \in 1 .. WordDigits : Power[i] = Base * Power[i - 1]
  <2>1. DOMAIN Power = 0 .. WordDigits
    BY <1>8
  <2>2. \A i \in 0 .. WordDigits : Power[i] = IF i = 0 THEN 1 ELSE Base * Power[i - 1]
    BY <1>8
  <2>3. 0 \in 0 .. WordDigits
    BY <1>1
  <2>4. \A i \in 1 .. WordDigits : i \in 0 .. WordDigits /\ i # 0
    OBVIOUS
  <2> HIDE DEF Eq
  <2> QED BY <2>2, <2>3, <2>4
<1>10. \A i \in 0 .. WordDigits : Power[i] \in S
  <2> DEFINE T == { i \in 0 .. WordDigits : Power[i] \in S }
  <2>1. 0 \in T
    BY <1>1, <1>9
  <2>2. \A k \in 1 .. WordDigits : k - 1 \in T => k \in T
    BY <1>1, <1>9
  <2> HIDE DEF T
  <2>3. \A k \in 0 .. WordDigits : k \in T
    BY <1>1, <2>1, <2>2, UpTo
  <2> QED BY <2>3 DEF T
<1>11. Power = [i \in 0 .. WordDigits |-> Power[i]]
  BY <1>8
<1> QED BY <1>9, <1>10, <1>11

LEMMA PowerAdd ==
  ASSUME NEW j \in Nat, NEW n \in Nat, j + n <= WordDigits
  PROVE  Power[j + n] = Power[j] * Power[n]
<1> DEFINE T == { k \in 0 .. n : Power[j + k] = Power[j] * Power[k] }
<1>1. \A k \in 0 .. n : j + k \in 0 .. WordDigits /\ k \in 0 .. WordDigits /\ j \in 0 .. WordDigits
  BY HexAssumption
<1>2. 0 \in T
  BY <1>1, PowerDef
<1>3. ASSUME NEW k \in 1 .. n, k - 1 \in T PROVE k \in T
  <2>1. Power[j + (k - 1)] = Power[j] * Power[k - 1]
    BY <1>3
  <2>2. j + k \in 1 .. WordDigits /\ k \in 1 .. WordDigits /\ (j + k) - 1 = j + (k - 1)
        /\ k - 1 \in 0 .. WordDigits
    BY HexAssumption
  <2>3. Power[j + k] = Base * Power[j + (k - 1)] /\ Power[k] = Base * Power[k - 1]
    BY <2>2, PowerDef
  <2>4. Power[j] \in Nat /\ Power[k - 1] \in Nat /\ Base \in Nat
    BY <1>1, <2>2, PowerDef, HexAssumption
  <2>5. Base * (Power[j] * Power[k - 1]) = Power[j] * (Base * Power[k - 1])
    BY <2>4
  <2>6. Power[j + k] = Power[j] * Power[k]
    BY <2>1, <2>3, <2>5
  <2> QED BY <2>6
<1> HIDE DEF T
<1>4. \A k \in 1 .. n : k - 1 \in T => k \in T
  BY <1>3
<1>5. \A k \in 0 .. n : k \in T
  BY <1>2, <1>4, UpTo
<1>6. n \in T
  BY <1>5
<1> QED BY <1>6 DEF T

LEMMA PowerGrows ==
  ASSUME NEW j \in Nat, NEW k \in Nat, j <= k, k <= WordDigits
  PROVE  Power[j] \in Nat \ {0} /\ Power[k] \in Nat \ {0} /\ Power[j] <= Power[k]
<1>1. j \in 0 .. WordDigits /\ k \in 0 .. WordDigits /\ k - j \in 0 .. WordDigits
  BY HexAssumption
<1>2. Power[j] \in Nat \ {0} /\ Power[k] \in Nat \ {0} /\ Power[k - j] \in Nat \ {0}
  BY <1>1, PowerDef
<1>3. Power[k] = Power[j] * Power[k - j]
  <2>1. k - j \in Nat /\ j + (k - j) = k
    OBVIOUS
  <2> QED BY <2>1, PowerAdd
<1>4. \A x, y \in Nat \ {0} : x <= x * y
  <2> TAKE x \in Nat \ {0}, y \in Nat \ {0}
  <2>1. x * y = x + x * (y - 1) /\ x * (y - 1) \in Nat
    OBVIOUS
  <2> QED BY <2>1
<1> QED BY <1>2, <1>3, <1>4

-----------------------------------------------------------------------------
(* The values of the beginnings of a string, and the last of them.         *)
Digit == 0 .. Base - 1

Values(v, s) == /\ v \in [0 .. Len(s) -> Int] /\ v[0] = 0
                /\ \A i \in 1 .. Len(s) : v[i] = v[i - 1] * Base + s[i]

LEMMA FromHexDef ==
  ASSUME NEW s \in Seq(Int)
  PROVE  \E v : Values(v, s) /\ FromHex(s) = v[Len(s)]
<1> DEFINE n == Len(s)
           g == [i \in 1 .. n |-> [x \in Int |-> x * Base + s[i]]]
           Eq(f) == f = [i \in 0 .. n |-> IF i = 0 THEN 0 ELSE f[i - 1] * Base + s[i]]
<1>1. n \in Nat /\ \A i \in 1 .. n : \A x \in Int : x * Base + s[i] \in Int
  BY HexAssumption
<1>2. g \in [1 .. n -> [Int -> Int]]
  BY <1>1
<1>3. \A i \in 1 .. n : \A x \in Int : g[i][x] = x * Base + s[i]
  OBVIOUS
<1> HIDE DEF g, n
<1>4. PICK f : Solves(f, n, Int, 0, g)
  <2> DEFINE S == Int
  <2>1. n \in Nat /\ 0 \in S /\ g \in [1 .. n -> [S -> S]]
    BY <1>1, <1>2
  <2>2. \E f : Solves(f, n, S, 0, g)
    <3> HIDE DEF S
    <3> QED BY <2>1, Recursion
  <2> QED BY <2>2
<1>5. /\ f \in [0 .. n -> Int] /\ f[0] = 0
      /\ \A i \in 1 .. n : f[i] = g[i][f[i - 1]]
  BY <1>4 DEF Solves
<1>6. \A i \in 1 .. n : f[i] = f[i - 1] * Base + s[i]
  <2>1. \A i \in 1 .. n : f[i - 1] \in Int
    <3>1. \A i \in 1 .. n : i - 1 \in 0 .. n
      BY <1>1
    <3> QED BY <1>5, <3>1
  <2> QED BY <1>3, <1>5, <2>1
<1>7. Eq(f)
  <2>1. \A i \in 0 .. n : i # 0 => i \in 1 .. n
    BY <1>1
  <2> QED BY <1>5, <1>6, <2>1
<1> DEFINE v == CHOOSE h : Eq(h)
<1>8. FromHex(s) = v[n]
  BY DEF FromHex, n
<1>9. Eq(v)
  <2> HIDE DEF Eq
  <2> QED BY <1>7
<1> HIDE DEF v
<1>10. v[0] = 0 /\ \A i \in 1 .. n : v[i] = v[i - 1] * Base + s[i]
  <2>1. \A i \in 0 .. n : v[i] = IF i = 0 THEN 0 ELSE v[i - 1] * Base + s[i]
    BY <1>9
  <2>2. 0 \in 0 .. n /\ \A i \in 1 .. n : i \in 0 .. n /\ i # 0
    BY <1>1
  <2> HIDE DEF Eq
  <2> QED BY <2>1, <2>2
<1>11. \A i \in 0 .. n : v[i] \in Int
  <2> DEFINE T == { i \in 0 .. n : v[i] \in Int }
  <2>1. 0 \in T
    BY <1>1, <1>10
  <2>2. \A k \in 1 .. n : v[k - 1] \in Int => v[k] \in Int
    BY <1>1, <1>10
  <2>3. \A k \in 1 .. n : k - 1 \in T => k \in T
    BY <2>2
  <2> HIDE DEF T
  <2>4. \A k \in 0 .. n : k \in T
    BY <1>1, <2>1, <2>3, UpTo
  <2> QED BY <2>4 DEF T
<1>12. v = [i \in 0 .. n |-> v[i]]
  BY <1>9
<1>13. v \in [0 .. n -> Int]
  BY <1>11, <1>12
<1>14. Values(v, s)
  BY <1>10, <1>13 DEF Values, n
<1> QED BY <1>8, <1>14 DEF n

LEMMA FromHexType ==
  ASSUME NEW s \in Seq(Int)
  PROVE  FromHex(s) \in Int
<1>1. PICK v : Values(v, s) /\ FromHex(s) = v[Len(s)]
  BY FromHexDef
<1> QED BY <1>1 DEF Values

(* Strings of the same characters are the same.                            *)
LEMMA SameString ==
  ASSUME NEW S, NEW s \in Seq(S), NEW t \in Seq(S), Len(s) = Len(t),
         \A i \in 1 .. Len(s) : s[i] = t[i]
  PROVE  s = t
OBVIOUS

(* Digits are numbers.                                                     *)
LEMMA DigitString ==
  ASSUME NEW s \in Seq(Digit)
  PROVE  s \in Seq(Int) /\ Len(s) \in Nat
BY HexAssumption DEF Digit

(* A string of n digits is a number below the n-th power.                  *)
LEMMA FromHexRange ==
  ASSUME NEW s \in Seq(Digit), Len(s) <= WordDigits
  PROVE  FromHex(s) \in 0 .. Power[Len(s)] - 1
<1> DEFINE n == Len(s)
<1>1. /\ s \in Seq(Int) /\ n \in 0 .. WordDigits /\ n \in Nat /\ Base \in Nat \ {0, 1}
      /\ \A i \in 1 .. n : s[i] \in 0 .. Base - 1
  BY HexAssumption DEF Digit
<1>2. PICK v : Values(v, s) /\ FromHex(s) = v[n]
  BY <1>1, FromHexDef
<1> DEFINE T == { i \in 0 .. n : v[i] \in 0 .. Power[i] - 1 }
<1>3. 0 \in T
  BY <1>1, <1>2, PowerDef DEF Values
<1>4. ASSUME NEW k \in 1 .. n, k - 1 \in T PROVE k \in T
  <2>1. v[k] = v[k - 1] * Base + s[k] /\ s[k] \in 0 .. Base - 1
    BY <1>1, <1>2 DEF Values
  <2>2. v[k - 1] \in 0 .. Power[k - 1] - 1
    BY <1>4
  <2>3. Power[k] = Base * Power[k - 1] /\ Power[k - 1] \in Nat \ {0}
    <3>1. k \in 1 .. WordDigits /\ k - 1 \in 0 .. WordDigits
      BY <1>1, HexAssumption
    <3> QED BY <3>1, PowerDef
  <2>4. ASSUME NEW p \in Nat \ {0}, NEW x \in 0 .. p - 1, NEW d \in 0 .. Base - 1
        PROVE  x * Base + d \in 0 .. (Base * p) - 1
    <3>1. Base * p = x * Base + Base + (p - 1 - x) * Base
      BY <1>1
    <3>2. (p - 1 - x) * Base \in Nat /\ x * Base \in Nat /\ Base * p \in Nat
      BY <1>1
    <3> QED BY <1>1, <3>1, <3>2
  <2>5. v[k] \in 0 .. Power[k] - 1
    BY <2>1, <2>2, <2>3, <2>4
  <2> QED BY <2>5
<1> HIDE DEF T
<1>5. \A k \in 1 .. n : k - 1 \in T => k \in T
  BY <1>4
<1>6. \A k \in 0 .. n : k \in T
  BY <1>1, <1>3, <1>5, UpTo
<1>7. n \in T
  BY <1>1, <1>6
<1> QED BY <1>2, <1>7 DEF T

(* Two strings, one after the other: the first is moved to the left.       *)
LEMMA FromHexConcat ==
  ASSUME NEW s \in Seq(Int), NEW t \in Seq(Int), Len(t) <= WordDigits
  PROVE  FromHex(s \o t) = FromHex(s) * Power[Len(t)] + FromHex(t)
<1> DEFINE a == Len(s)
           b == Len(t)
           r == s \o t
<1>1. /\ a \in Nat /\ b \in 0 .. WordDigits /\ b \in Nat /\ Base \in Nat \ {0, 1}
      /\ r \in Seq(Int) /\ Len(r) = a + b
      /\ \A i \in 1 .. a : r[i] = s[i] /\ r[i] \in Int
      /\ \A i \in 1 .. b : r[a + i] = t[i] /\ t[i] \in Int
  BY HexAssumption
<1>2. PICK v : Values(v, s) /\ FromHex(s) = v[a]
  BY FromHexDef
<1>3. PICK w : Values(w, t) /\ FromHex(t) = w[b]
  BY FromHexDef
<1>4. PICK x : Values(x, r) /\ FromHex(r) = x[Len(r)]
  BY <1>1, FromHexDef
<1> HIDE DEF a, b, r
<1>a. v[0] = 0 /\ \A i \in 1 .. a : v[i] = v[i - 1] * Base + s[i]
  BY <1>2 DEF Values, a
<1>b. /\ w[0] = 0 /\ \A i \in 1 .. b : w[i] = w[i - 1] * Base + t[i]
      /\ \A i \in 0 .. b : w[i] \in Int
  BY <1>3 DEF Values, b
<1>c. x[0] = 0 /\ \A i \in 1 .. a + b : x[i] = x[i - 1] * Base + r[i]
  BY <1>1, <1>4 DEF Values
<1>d. v[a] \in Int
  <2>1. v \in [0 .. a -> Int] /\ a \in 0 .. a
    BY <1>1, <1>2 DEF Values, a
  <2> QED BY <2>1
<1>5. x[a] = v[a]
  <2> DEFINE T == { i \in 0 .. a : x[i] = v[i] }
  <2>1. 0 \in T
    BY <1>1, <1>a, <1>c
  <2>2. ASSUME NEW k \in 1 .. a, k - 1 \in T PROVE k \in T
    <3>1. x[k - 1] = v[k - 1]
      BY <2>2
    <3>2. k \in 1 .. a + b
      BY <1>1
    <3>3. x[k] = v[k]
      BY <1>1, <1>a, <1>c, <3>1, <3>2
    <3> QED BY <3>3
  <2> HIDE DEF T
  <2>3. \A k \in 1 .. a : k - 1 \in T => k \in T
    BY <2>2
  <2>4. \A k \in 0 .. a : k \in T
    BY <1>1, <2>1, <2>3, UpTo
  <2>5. a \in T
    BY <1>1, <2>4
  <2> QED BY <2>5 DEF T
<1>6. x[a + b] = v[a] * Power[b] + w[b]
  <2> DEFINE T == { i \in 0 .. b : x[a + i] = v[a] * Power[i] + w[i] }
  <2>1. 0 \in T
    BY <1>1, <1>5, <1>b, <1>d, PowerDef
  <2>2. ASSUME NEW k \in 1 .. b, k - 1 \in T PROVE k \in T
    <3>1. x[a + (k - 1)] = v[a] * Power[k - 1] + w[k - 1]
      BY <2>2
    <3>2. a + k \in 1 .. a + b /\ (a + k) - 1 = a + (k - 1)
      BY <1>1
    <3>3. x[a + k] = x[a + (k - 1)] * Base + t[k]
      BY <1>1, <1>c, <3>2
    <3>4. w[k] = w[k - 1] * Base + t[k] /\ w[k - 1] \in Int /\ t[k] \in Int
      BY <1>1, <1>b
    <3>5. Power[k] = Base * Power[k - 1] /\ Power[k - 1] \in Nat
      <4>1. k \in 1 .. WordDigits /\ k - 1 \in 0 .. WordDigits
        BY <1>1, HexAssumption
      <4> QED BY <4>1, PowerDef
    <3>6. /\ (v[a] * Power[k - 1] + w[k - 1]) * Base
               = v[a] * Power[k] + w[k - 1] * Base
          /\ v[a] * Power[k] \in Int /\ w[k - 1] * Base \in Int
      <4> DEFINE p == Power[k - 1]
                 q == Power[k]
                 y == w[k - 1]
                 c == v[a]
      <4>1. p \in Int /\ c \in Int /\ y \in Int /\ Base \in Int /\ q = Base * p
        BY <1>1, <1>d, <3>4, <3>5
      <4> HIDE DEF p, q, y, c
      <4>2. \A z \in Int : (c * p + y) * z = c * (z * p) + y * z
        BY <4>1
      <4>3. (c * p + y) * Base = c * q + y * Base
        BY <4>1, <4>2
      <4>4. q \in Int
        BY <4>1
      <4>5. c * q \in Int /\ y * Base \in Int
        BY <4>1, <4>4
      <4> QED BY <4>3, <4>5 DEF p, q, y, c
    <3>7. x[a + k] = v[a] * Power[k] + w[k]
      BY <3>1, <3>3, <3>4, <3>6
    <3> QED BY <3>7
  <2> HIDE DEF T
  <2>3. \A k \in 1 .. b : k - 1 \in T => k \in T
    BY <2>2
  <2>4. \A k \in 0 .. b : k \in T
    BY <1>1, <2>1, <2>3, UpTo
  <2>5. b \in T
    BY <1>1, <2>4
  <2> QED BY <2>5 DEF T
<1> QED BY <1>1, <1>2, <1>3, <1>4, <1>6 DEF r, b

-----------------------------------------------------------------------------
(* How many digits a number prints as.                                     *)
LEMMA DigitsOf ==
  ASSUME NEW u \in 0 .. Word - 1
  PROVE  \E d \in 1 .. WordDigits : u < Power[d] /\ (d = 1 \/ u >= Power[d - 1])
<1> DEFINE enough == { d \in 1 .. WordDigits : u < Power[d] }
<1>1. WordDigits \in Nat \ {0} /\ u \in Nat /\ u < Power[WordDigits]
  <2>1. WordDigits \in 0 .. WordDigits /\ WordDigits \in Nat \ {0}
    BY HexAssumption
  <2>2. Power[WordDigits] \in Nat \ {0}
    BY <2>1, PowerDef
  <2> QED BY <2>1, <2>2 DEF Word
<1>2. enough \in SUBSET Nat /\ enough # {}
  BY <1>1
<1> HIDE DEF enough
<1>3. PICK d \in enough : \A j \in enough : d <= j
  BY <1>2, LeastNumber
<1>4. d \in 1 .. WordDigits /\ u < Power[d]
  BY <1>3 DEF enough
<1>5. d # 1 => u >= Power[d - 1]
  <2> SUFFICES ASSUME d # 1 PROVE u >= Power[d - 1]
    OBVIOUS
  <2>1. d - 1 \in 1 .. WordDigits /\ d - 1 \in 0 .. WordDigits /\ ~ (d <= d - 1)
    BY <1>1, <1>4
  <2>2. ~ (u < Power[d - 1])
    BY <1>3, <2>1 DEF enough
  <2>3. Power[d - 1] \in Nat
    BY <2>1, PowerDef
  <2> QED BY <1>1, <2>2, <2>3
<1> QED BY <1>4, <1>5

(* A number is printed as digits, and read back as itself: a negative one  *)
(* as its two's complement in a word (stream << std::hex << n, then stoul).*)
THEOREM HexRoundTrip ==
  ASSUME NEW n \in Int
  PROVE  /\ ToHex(n) \in Seq(Digit) /\ Len(ToHex(n)) \in 1 .. WordDigits
         /\ FromHex(ToHex(n)) = n % Word
<1> DEFINE u == n % Word
           OK(d) == u < Power[d] /\ (d = 1 \/ u >= Power[d - 1])
           D == CHOOSE d \in 1 .. WordDigits : OK(d)
           s == [i \in 1 .. D |-> (u \div Power[D - i]) % Base]
<1>1. Word \in Nat \ {0} /\ WordDigits \in Nat /\ Base \in Nat \ {0, 1}
  <2>1. WordDigits \in 0 .. WordDigits
    BY HexAssumption
  <2> QED BY <2>1, HexAssumption, PowerDef DEF Word
<1>2. u \in 0 .. Word - 1
  BY <1>1, DivMod
<1>3. ToHex(n) = s
  BY DEF ToHex
<1> HIDE DEF u
<1>4. D \in 1 .. WordDigits /\ u < Power[D]
  <2>1. \E d \in 1 .. WordDigits : OK(d)
    BY <1>2, DigitsOf
  <2>2. D \in 1 .. WordDigits /\ OK(D)
    <3> HIDE DEF OK
    <3> QED BY <2>1
  <2> QED BY <2>2
<1> HIDE DEF D
<1>5. \A i \in 0 .. D : D - i \in 0 .. WordDigits /\ Power[D - i] \in Nat \ {0}
  <2>1. \A i \in 0 .. D : D - i \in 0 .. WordDigits
    BY <1>1, <1>4
  <2> QED BY <2>1, PowerDef
<1>6. \A i \in 0 .. D : u \div Power[D - i] \in Int
  <2> SUFFICES ASSUME NEW i \in 0 .. D PROVE u \div Power[D - i] \in Int
    OBVIOUS
  <2> DEFINE p == Power[D - i]
  <2>1. u \in Int /\ p \in Nat \ {0}
    BY <1>2, <1>5
  <2> HIDE DEF p
  <2>2. u \div p \in Int
    BY <2>1, DivMod
  <2> QED BY <2>2 DEF p
<1>7. \A i \in 1 .. D : s[i] = (u \div Power[D - i]) % Base /\ s[i] \in Digit
  <2> SUFFICES ASSUME NEW i \in 1 .. D PROVE s[i] = (u \div Power[D - i]) % Base /\ s[i] \in Digit
    OBVIOUS
  <2> DEFINE q == u \div Power[D - i]
  <2>1. q \in Int
    BY <1>4, <1>6
  <2>2. s[i] = q % Base
    OBVIOUS
  <2> HIDE DEF q
  <2>3. q % Base \in 0 .. Base - 1
    BY <1>1, <2>1, DivMod
  <2> QED BY <2>2, <2>3 DEF q, Digit
<1>8. s \in Seq(Digit) /\ Len(s) = D
  <2>1. D \in Nat /\ s = [i \in 1 .. D |-> s[i]]
    BY <1>4
  <2> HIDE DEF s
  <2> QED BY <1>7, <2>1
<1> HIDE DEF s
<1>9. s \in Seq(Int)
  BY <1>1, <1>8 DEF Digit
<1>10. PICK v : Values(v, s) /\ FromHex(s) = v[D]
  BY <1>8, <1>9, FromHexDef
<1> DEFINE T == { k \in 0 .. D : v[k] = u \div Power[D - k] }
<1>11. 0 \in T
  <2>1. v[0] = 0 /\ D - 0 = D /\ 0 \in 0 .. D /\ Power[D] \in Nat \ {0}
    BY <1>4, <1>5, <1>10 DEF Values
  <2>2. u = 0 * Power[D] + u /\ u \in 0 .. Power[D] - 1
    BY <1>2, <1>4, <2>1
  <2>3. u \div Power[D] = 0
    BY <2>1, <2>2, DivModUnique
  <2> QED BY <2>1, <2>3
<1>12. ASSUME NEW k \in 1 .. D, k - 1 \in T PROVE k \in T
  <2> DEFINE p == Power[D - k]
             q == u \div p
  <2>1. p \in Nat \ {0} /\ q \in Int
    BY <1>4, <1>5, <1>6
  <2>2. v[k] = v[k - 1] * Base + s[k]
    BY <1>8, <1>10 DEF Values
  <2>3. Power[D - (k - 1)] = Base * p
    <3>1. D - (k - 1) \in 1 .. WordDigits /\ (D - (k - 1)) - 1 = D - k
      BY <1>1, <1>4
    <3> QED BY <3>1, PowerDef
  <2>4. v[k - 1] = u \div (Base * p)
    BY <1>12, <2>3
  <2>5. v[k - 1] = q \div Base
    <3>1. u \in Int /\ Base \in Nat \ {0}
      BY <1>1, <1>2
    <3> HIDE DEF p
    <3>2. (u \div p) \div Base = u \div (Base * p)
      BY <2>1, <3>1, DivDiv
    <3> QED BY <2>4, <3>2
  <2>6. s[k] = q % Base
    BY <1>7
  <2>7. q = (q \div Base) * Base + (q % Base)
    <3> HIDE DEF q
    <3> QED BY <1>1, <2>1, DivMod
  <2> HIDE DEF q
  <2>8. v[k] = q
    BY <2>2, <2>5, <2>6, <2>7
  <2> QED BY <1>4, <2>8 DEF q
<1> HIDE DEF T
<1>13. \A k \in 1 .. D : k - 1 \in T => k \in T
  BY <1>12
<1>14. \A k \in 0 .. D : k \in T
  BY <1>4, <1>11, <1>13, UpTo
<1>15. v[D] = u \div Power[0]
  <2>1. D \in T /\ D - D = 0
    BY <1>4, <1>14
  <2> QED BY <2>1 DEF T
<1>16. u \div 1 = u
  BY <1>2, <1>1
<1>17. v[D] = u
  BY <1>15, <1>16, PowerDef
<1> QED BY <1>3, <1>4, <1>8, <1>10, <1>17 DEF u

(* A string of zeros.                                                      *)
LEMMA Zeros ==
  ASSUME NEW n \in Nat
  PROVE  LET z == [i \in 1 .. n |-> 0]
         IN  z \in Seq(Digit) /\ Len(z) = n /\ FromHex(z) = 0
<1> DEFINE z == [i \in 1 .. n |-> 0]
<1>1. /\ Base \in Nat \ {0, 1} /\ 0 \in Digit
      /\ z \in Seq(Digit) /\ z \in Seq(Int) /\ Len(z) = n /\ \A i \in 1 .. n : z[i] = 0
  <2>1. Base \in Nat \ {0, 1} /\ 0 \in Digit
    BY HexAssumption DEF Digit
  <2> QED BY <2>1
<1> HIDE DEF z
<1>2. PICK v : Values(v, z) /\ FromHex(z) = v[n]
  BY <1>1, FromHexDef
<1> DEFINE T == { i \in 0 .. n : v[i] = 0 }
<1>3. 0 \in T
  BY <1>2 DEF Values
<1>4. \A k \in 1 .. n : k - 1 \in T => k \in T
  <2>1. \A k \in 1 .. n : v[k] = v[k - 1] * Base + z[k]
    BY <1>1, <1>2 DEF Values
  <2>2. \A k \in 1 .. n : v[k - 1] = 0 => v[k] = 0
    BY <1>1, <2>1
  <2> QED BY <2>2
<1> HIDE DEF T
<1>5. \A k \in 0 .. n : k \in T
  BY <1>3, <1>4, UpTo
<1>6. n \in T
  BY <1>5
<1>7. v[n] = 0
  BY <1>6 DEF T
<1> QED BY <1>1, <1>2, <1>7 DEF z

(* erase(0, size - width), or zeros on the left, leaves exactly width      *)
(* digits, and of the number its remainder by that power of the base.      *)
THEOREM FitToCuts ==
  ASSUME NEW s \in Seq(Digit), Len(s) <= WordDigits, NEW width \in 1 .. WordDigits
  PROVE  /\ FitTo(s, width) \in Seq(Digit) /\ Len(FitTo(s, width)) = width
         /\ FromHex(FitTo(s, width)) = FromHex(s) % Power[width]
<1> DEFINE n == Len(s)
           p == Power[width]
<1>1. /\ WordDigits \in Nat /\ n \in Nat /\ n <= WordDigits
      /\ s \in Seq(Int) /\ p \in Nat \ {0} /\ width \in Nat /\ width <= WordDigits
  <2>1. WordDigits \in Nat /\ width \in 0 .. WordDigits
    BY HexAssumption
  <2>2. s \in Seq(Int) /\ n \in Nat
    BY DigitString
  <2>3. p \in Nat \ {0}
    BY <2>1, PowerDef
  <2> QED BY <2>1, <2>2, <2>3
<1>2. CASE n > width
  <2> DEFINE h == SubSeq(s, 1, n - width)
             t == SubSeq(s, n - width + 1, n)
  <2>1. FitTo(s, width) = t
    BY <1>2 DEF FitTo
  <2>2. t \in Seq(Digit) /\ Len(t) = width /\ h \in Seq(Digit) /\ Len(h) = n - width
    BY <1>1, <1>2
  <2>3. s = h \o t
    <3>1. h \o t \in Seq(Digit) /\ Len(h \o t) = n
      BY <1>1, <2>2
    <3>2. \A i \in 1 .. n : (h \o t)[i] = s[i]
      <4> SUFFICES ASSUME NEW i \in 1 .. n PROVE (h \o t)[i] = s[i]
        OBVIOUS
      <4>1. CASE i <= n - width
        <5>1. (h \o t)[i] = h[i]
          <6> HIDE DEF h, t
          <6>1. i \in 1 .. Len(h)
            BY <1>1, <2>2, <4>1
          <6> QED BY <2>2, <6>1
        <5>2. h[i] = s[i]
          BY <1>1, <1>2, <4>1
        <5> QED BY <5>1, <5>2
      <4>2. CASE ~ (i <= n - width)
        <5>1. (h \o t)[i] = t[i - (n - width)]
          <6> HIDE DEF h, t
          <6>1. i \in Len(h) + 1 .. Len(h) + Len(t)
            BY <1>1, <2>2, <4>2
          <6> QED BY <2>2, <6>1
        <5>2. t[i - (n - width)] = s[i]
          <6>1. i - (n - width) \in 1 .. width /\ (n - width + 1) + (i - (n - width)) - 1 = i
            BY <1>1, <1>2, <4>2
          <6> QED BY <1>1, <1>2, <6>1
        <5> QED BY <5>1, <5>2
      <4> QED BY <4>1, <4>2
    <3> DEFINE both == h \o t
    <3>3. both \in Seq(Digit) /\ Len(both) = Len(s) /\ \A i \in 1 .. Len(s) : both[i] = s[i]
      BY <3>1, <3>2
    <3> HIDE DEF both
    <3>4. s = both
      BY <3>3, SameString
    <3> QED BY <3>4 DEF both
  <2> HIDE DEF h, t
  <2>4. FromHex(h) \in Int /\ FromHex(t) \in 0 .. p - 1
    <3>1. h \in Seq(Int)
      BY <2>2, DigitString
    <3>2. Len(t) <= WordDigits
      BY <1>1, <2>2
    <3>3. FromHex(h) \in Int
      BY <3>1, FromHexType
    <3>4. FromHex(t) \in 0 .. Power[Len(t)] - 1
      BY <2>2, <3>2, FromHexRange
    <3> QED BY <2>2, <3>3, <3>4
  <2>5. FromHex(s) = FromHex(h) * p + FromHex(t)
    <3>1. h \in Seq(Int) /\ t \in Seq(Int)
      BY <2>2, DigitString
    <3> QED BY <1>1, <2>2, <2>3, <3>1, FromHexConcat
  <2>6. FromHex(s) % p = FromHex(t)
    <3> HIDE DEF p
    <3>1. (FromHex(h) * p + FromHex(t)) % p = FromHex(t)
      BY <1>1, <2>4, DivModUnique
    <3> QED BY <2>5, <3>1
  <2> QED BY <2>1, <2>2, <2>6
<1>3. CASE ~ (n > width)
  <2> DEFINE z == [i \in 1 .. width - n |-> 0]
  <2>1. FitTo(s, width) = z \o s
    BY <1>3 DEF FitTo
  <2>2. width - n \in Nat
    BY <1>1, <1>3
  <2>3. z \in Seq(Digit) /\ Len(z) = width - n /\ FromHex(z) = 0
    BY <2>2, Zeros
  <2> HIDE DEF z
  <2>4. z \o s \in Seq(Digit) /\ Len(z \o s) = width
    BY <1>1, <2>3
  <2>5. FromHex(z \o s) = 0 * Power[n] + FromHex(s)
    <3>1. z \in Seq(Int)
      BY <2>3, DigitString
    <3> QED BY <1>1, <2>3, <3>1, FromHexConcat
  <2>6. /\ Power[n] \in Nat \ {0} /\ Power[n] <= p
        /\ FromHex(s) \in 0 .. Power[n] - 1
    BY <1>1, <1>3, PowerGrows, FromHexRange
  <2>7. FromHex(s) \in 0 .. p - 1 /\ FromHex(s) = 0 * p + FromHex(s)
        /\ FromHex(z \o s) = FromHex(s)
    BY <1>1, <2>5, <2>6
  <2>8. FromHex(s) % p = FromHex(s)
    BY <1>1, <2>7, DivModUnique
  <2> QED BY <2>1, <2>4, <2>7, <2>8
<1> QED BY <1>2, <1>3

(* A field of an id: the number of its digits, cut to their range.         *)
LEMMA FieldOf ==
  ASSUME NEW n \in Int, NEW width \in 1 .. WordDigits
  PROVE  /\ FitTo(ToHex(n), width) \in Seq(Digit)
         /\ Len(FitTo(ToHex(n), width)) = width
         /\ Power[width] \in Nat \ {0}
         /\ FromHex(FitTo(ToHex(n), width)) = n % Power[width]
         /\ n % Power[width] \in 0 .. Power[width] - 1
<1> DEFINE s == ToHex(n)
           d == Power[width]
           e == Power[WordDigits - width]
<1>1. s \in Seq(Digit) /\ Len(s) <= WordDigits /\ FromHex(s) = n % Word
  BY HexRoundTrip
<1> HIDE DEF s
<1>2. /\ FitTo(s, width) \in Seq(Digit) /\ Len(FitTo(s, width)) = width
      /\ FromHex(FitTo(s, width)) = FromHex(s) % d
  BY <1>1, FitToCuts
<1>3. d \in Nat \ {0} /\ e \in Nat \ {0}
  <2>1. width \in 0 .. WordDigits /\ WordDigits - width \in 0 .. WordDigits
    BY HexAssumption
  <2> QED BY <2>1, PowerDef
<1>4. Word = e * d
  <2>1. /\ WordDigits - width \in Nat /\ width \in Nat
        /\ (WordDigits - width) + width = WordDigits /\ WordDigits <= WordDigits
    BY HexAssumption
  <2> QED BY <2>1, PowerAdd DEF Word
<1> HIDE DEF d, e
<1>5. (n % Word) % d = n % d /\ n % d \in 0 .. d - 1
  BY <1>3, <1>4, ModMod, DivMod
<1>6. FromHex(FitTo(s, width)) = n % d
  BY <1>1, <1>2, <1>5
<1> QED BY <1>2, <1>3, <1>5, <1>6 DEF s, d
=============================================================================
