--------------------------- MODULE IdFormatProofs ---------------------------
(***************************************************************************)
(* What is proved of GetMachineId and of the digit strings of an id, for   *)
(* every host, pid and stack, every base and every number of digits: the   *)
(* loop finds the first usable interface, the machine id is the sum of the *)
(* characters that IsHashOf says, and an id is the number of its fields.   *)
(***************************************************************************)
EXTENDS IdFormat, HexProofs

(* An element of a sequence is one of its set.                             *)
LEMMA ElementOfSeq ==
  ASSUME NEW S, NEW s \in Seq(S), NEW i \in DOMAIN s
  PROVE  s[i] \in S
<1>1. DOMAIN s = 1 .. Len(s)
  OBVIOUS
<1> QED BY <1>1

(* An address is empty, as a string, exactly when its first byte is zero.  *)
LEMMA EmptyString ==
  ASSUME NEW bytes \in Seq(Int), Len(bytes) > 0
  PROVE  CString(bytes) = << >> <=> bytes[1] = 0
<1> DEFINE zeros == { i \in DOMAIN bytes : bytes[i] = 0 }
           first == CHOOSE i \in zeros : \A j \in zeros : i <= j
<1>1. DOMAIN bytes = 1 .. Len(bytes) /\ Len(bytes) \in Nat
  OBVIOUS
<1>2. CASE zeros = {}
  <2>1. CString(bytes) = bytes /\ bytes[1] # 0
    BY <1>1, <1>2 DEF CString
  <2> QED BY <2>1
<1>3. CASE zeros # {}
  <2>1. zeros \in SUBSET Nat
    BY <1>1
  <2>2. first \in zeros /\ \A j \in zeros : first <= j
    <3> HIDE DEF zeros
    <3>1. \E i \in zeros : \A j \in zeros : i <= j
      BY <1>3, <2>1, LeastNumber
    <3> QED BY <3>1
  <2>3. CString(bytes) = SubSeq(bytes, 1, first - 1)
    BY <1>3 DEF CString
  <2> HIDE DEF first
  <2>4. first \in 1 .. Len(bytes) /\ (first = 1 <=> bytes[1] = 0)
    BY <1>1, <2>2
  <2>5. Len(SubSeq(bytes, 1, first - 1)) = first - 1
    BY <2>4
  <2>6. first = 1 => SubSeq(bytes, 1, first - 1) = << >>
    BY <2>4
  <2>7. CASE first = 1
    BY <2>3, <2>4, <2>6, <2>7
  <2>8. CASE first # 1
    <3>1. Len(CString(bytes)) # 0
      BY <2>3, <2>4, <2>5, <2>8
    <3> QED BY <2>4, <2>8, <3>1
  <2> QED BY <2>7, <2>8
<1> QED BY <1>2, <1>3

(* The first usable interface is the one the loop stops at.                *)
LEMMA FirstUsable ==
  ASSUME NEW k \in Usable, \A i \in Usable : i >= k, ifconf \in Hosts
  PROVE  FirstAddress = CString(ifconf[k].sa_data)
<1> DEFINE least == CHOOSE i \in Usable : \A j \in Usable : i <= j
<1>1. Usable \subseteq Nat
  BY HostsAssumption DEF Usable
<1>2. least \in Usable /\ \A j \in Usable : least <= j
  <2>1. \A j \in Usable : k <= j
    BY <1>1
  <2> QED BY <2>1
<1>3. least = k
  <2> HIDE DEF least
  <2>1. least \in Nat /\ k \in Nat /\ least <= k /\ k <= least
    BY <1>1, <1>2
  <2> QED BY <2>1
<1>4. FirstAddress = CString(ifconf[least].sa_data)
  BY DEF FirstAddress
<1> QED BY <1>3, <1>4

(* The loop, step by step.                                                 *)
LEMMA LoopInit == Init => LoopInv
<1> SUFFICES ASSUME Init PROVE LoopInv
  OBVIOUS
<1>1. \A i \in Usable : i >= 1
  BY HostsAssumption DEF Init, Usable
<1> QED BY <1>1 DEF Init, LoopInv

LEMMA LoopStep == LoopInv /\ [Next]_vars => LoopInv'
<1> SUFFICES ASSUME LoopInv, [Next]_vars PROVE LoopInv'
  OBVIOUS
<1>1. ifconf' = ifconf /\ Usable' = Usable /\ FirstAddress' = FirstAddress
  <2>1. ifconf' = ifconf
    BY DEF Next, vars, inputs, Fail, Open, Interface, NoMore, Hash
  <2> QED BY <2>1 DEF Usable, FirstAddress
<1>2. /\ ifconf \in Seq(Interfaces)
      /\ \A i \in DOMAIN ifconf : Len(ifconf[i].sa_data) > 0
  BY HostsAssumption DEF LoopInv
<1>3. CASE Fail
  BY <1>1, <1>3 DEF Fail, LoopInv
<1>4. CASE Open
  BY <1>1, <1>4 DEF Open, LoopInv
<1>5. CASE Interface
  <2> DEFINE this == ifconf[ifr]
             usable == this.flags /\ this.hwaddr
  <2>1. /\ stage = "loop" /\ ifr \in DOMAIN ifconf /\ mac = << >> /\ mac_hash = << >>
        /\ \A i \in Usable : i >= ifr
    BY <1>2, <1>5 DEF Interface, LoopInv
  <2>2. /\ mac' = IF usable THEN CString(this.sa_data) ELSE mac
        /\ stage' = IF usable /\ mac' # << >> THEN "hash" ELSE "loop"
        /\ ifr' = ifr + 1 /\ mac_hash' = mac_hash
    BY <1>5 DEF Interface
  <2>3. this.sa_data \in Seq(Int) /\ Len(this.sa_data) > 0
    <3>1. this \in Interfaces
      BY <1>2, <2>1, ElementOfSeq
    <3>2. Len(this.sa_data) > 0
      BY <1>2, <2>1
    <3> QED BY <3>1, <3>2 DEF Interfaces
  <2>4. ifr \in Usable <=> usable /\ this.sa_data[1] # 0
    BY <2>1 DEF Usable
  <2>5. CString(this.sa_data) = << >> <=> this.sa_data[1] = 0
    BY <2>3, EmptyString
  <2>6. CASE ifr \in Usable
    <3>1. FirstAddress = CString(this.sa_data)
      BY <2>1, <2>6, FirstUsable DEF LoopInv
    <3>2. stage' = "hash" /\ mac' = CString(this.sa_data)
      BY <2>2, <2>4, <2>5, <2>6
    <3> QED BY <1>1, <2>1, <2>2, <3>1, <3>2 DEF LoopInv
  <2>7. CASE ifr \notin Usable
    <3>1. stage' = "loop" /\ mac' = << >>
      BY <2>1, <2>2, <2>4, <2>5, <2>7
    <3>2. \A i \in Usable : i >= ifr + 1
      BY <1>2, <2>1, <2>7 DEF Usable
    <3> QED BY <1>1, <2>1, <2>2, <3>1, <3>2 DEF LoopInv
  <2> QED BY <2>6, <2>7
<1>6. CASE NoMore
  <2>1. stage = "loop" /\ ifr > Len(ifconf) /\ stage' = "hash" /\ ifr' = ifr /\ mac' = mac
    BY <1>6 DEF NoMore
  <2>2. Usable = {}
    BY <1>2, <2>1 DEF LoopInv, Usable
  <2> QED BY <1>1, <2>1, <2>2 DEF LoopInv, FirstAddress
<1>7. CASE Hash
  BY <1>1, <1>7 DEF Hash, LoopInv
<1>8. CASE UNCHANGED vars
  BY <1>1, <1>8 DEF vars, LoopInv
<1> QED BY <1>3, <1>4, <1>5, <1>6, <1>7, <1>8 DEF Next

(* Whatever the interfaces of the host: when GetMachineId comes to the     *)
(* hash, mac is the address of the first usable interface, or empty when   *)
(* there is none; when it fails there is no hash.                          *)
THEOREM FirstAddressFound == Spec => []LoopInv
BY LoopInit, LoopStep, PTL DEF Spec

-----------------------------------------------------------------------------
(* The inductive invariants.  MachineInv: the loop has found the first     *)
(* address, and a result is the low digits of the hash of it.              *)
MachineInv ==
  /\ LoopInv
  /\ pid \in Pids /\ stack \in Leftovers
  /\ stage = "done" => mac_hash = FitTo(ToHex(HashMacAddressPid(mac, pid, stack)), MachDigits)

(* FormatInv: each string is the field of its number as soon as it is      *)
(* made, GetMachineId starts when both are, and the number is composed of  *)
(* all three when it has ended.                                            *)
FormatInv ==
  /\ MachineInv
  /\ timestamp \in Timestamps /\ counter_value \in CounterValues
  /\ timestamp_hex \in {Missing, FitTo(ToHex(timestamp), TsDigits)}
  /\ counter_hex \in {Missing, FitTo(ToHex(counter_value), CtrDigits)}
  /\ timestamp_hex = Missing => counter_hex = Missing
  /\ counter_hex = Missing => stage = "socket"
  /\ post_id # -1 =>
       /\ stage \in {"done", "failed"}
       /\ post_id = FromHex(mac_hash \o timestamp_hex \o counter_hex) % (Word \div 2)

-----------------------------------------------------------------------------
(* Machine ids.  The partial sums of the characters at odd or even places. *)
PartialSums(v, s, parity) ==
  /\ v \in [0 .. Len(s) -> Int] /\ v[0] = 0
  /\ \A i \in 1 .. Len(s) : v[i] = v[i - 1] + (IF i % 2 = parity THEN s[i] ELSE 0)

LEMMA SumAtDef ==
  ASSUME NEW s \in Seq(Int), NEW parity
  PROVE  \E v : PartialSums(v, s, parity) /\ SumAt(s, parity) = v[Len(s)]
<1> DEFINE n == Len(s)
           term(i) == IF i % 2 = parity THEN s[i] ELSE 0
           g == [i \in 1 .. n |-> [x \in Int |-> x + term(i)]]
           Eq(f) == f = [i \in 0 .. n |-> IF i = 0 THEN 0 ELSE f[i - 1] + term(i)]
<1>1. n \in Nat /\ \A i \in 1 .. n : \A x \in Int : x + term(i) \in Int
  <2>1. \A i \in 1 .. n : s[i] \in Int
    OBVIOUS
  <2> QED BY <2>1
<1>2. g \in [1 .. n -> [Int -> Int]]
  BY <1>1
<1>3. \A i \in 1 .. n : \A x \in Int : g[i][x] = x + term(i)
  OBVIOUS
<1> DEFINE v == CHOOSE h : Eq(h)
<1>8. SumAt(s, parity) = v[n]
  BY DEF SumAt
<1> HIDE DEF g, n, term
<1>4. PICK f : Solves(f, n, Int, 0, g)
  <2> DEFINE S == Int
  <2>1. n \in Nat /\ 0 \in S /\ g \in [1 .. n -> [S -> S]]
    BY <1>1, <1>2
  <2>2. \E f : Solves(f, n, S, 0, g)
    <3> HIDE DEF S
    <3> QED BY <2>1, Recursion
  <2> QED BY <2>2
<1>5. /\ f \in [0 .. n -> Int] /\ f[0] = 0
      /\ \A i \in 1 .. n : f[i] = g[i][f[i - 1]]
  BY <1>4 DEF Solves
<1>6. \A i \in 1 .. n : f[i] = f[i - 1] + term(i)
  <2>1. \A i \in 1 .. n : f[i - 1] \in Int
    <3>1. \A i \in 1 .. n : i - 1 \in 0 .. n
      BY <1>1
    <3> QED BY <1>5, <3>1
  <2> QED BY <1>3, <1>5, <2>1
<1>7. Eq(f)
  <2>1. \A i \in 0 .. n : i # 0 => i \in 1 .. n
    BY <1>1
  <2> QED BY <1>5, <1>6, <2>1
<1>9. Eq(v)
  <2> HIDE DEF Eq
  <2> QED BY <1>7
<1> HIDE DEF v
<1>10. v[0] = 0 /\ \A i \in 1 .. n : v[i] = v[i - 1] + term(i)
  <2>1. \A i \in 0 .. n : v[i] = IF i = 0 THEN 0 ELSE v[i - 1] + term(i)
    BY <1>9
  <2>2. 0 \in 0 .. n /\ \A i \in 1 .. n : i \in 0 .. n /\ i # 0
    BY <1>1
  <2> HIDE DEF Eq
  <2> QED BY <2>1, <2>2
<1>11. \A i \in 0 .. n : v[i] \in Int
  <2> DEFINE T == { i \in 0 .. n : v[i] \in Int }
  <2>1. 0 \in T
    BY <1>1, <1>10
  <2>2. \A k \in 1 .. n : v[k - 1] \in Int => v[k] \in Int
    BY <1>1, <1>10
  <2>3. \A k \in 1 .. n : k - 1 \in T => k \in T
    BY <2>2
  <2> HIDE DEF T
  <2>4. \A k \in 0 .. n : k \in T
    BY <1>1, <2>1, <2>3, UpTo
  <2> QED BY <2>4 DEF T
<1>12. v = [i \in 0 .. n |-> v[i]]
  BY <1>9
<1>13. v \in [0 .. n -> Int]
  BY <1>11, <1>12
<1>14. PartialSums(v, s, parity)
  BY <1>10, <1>13 DEF PartialSums, n, term
<1> QED BY <1>8, <1>14 DEF n

LEMMA SumAtType ==
  ASSUME NEW s \in Seq(Int), NEW parity
  PROVE  SumAt(s, parity) \in Int
<1>1. PICK v : PartialSums(v, s, parity) /\ SumAt(s, parity) = v[Len(s)]
  BY SumAtDef
<1> QED BY <1>1 DEF PartialSums

(* The zero that ends a string adds nothing.                               *)
LEMMA SumAtZero ==
  ASSUME NEW s \in Seq(Int), NEW parity
  PROVE  SumAt(s \o << 0 >>, parity) = SumAt(s, parity)
<1> DEFINE n == Len(s)
           t == s \o << 0 >>
<1>1. /\ n \in Nat /\ t \in Seq(Int) /\ Len(t) = n + 1
      /\ \A i \in 1 .. n : t[i] = s[i]
      /\ t[n + 1] = 0
  OBVIOUS
<1>2. PICK v : PartialSums(v, s, parity) /\ SumAt(s, parity) = v[n]
  BY SumAtDef
<1>3. PICK w : PartialSums(w, t, parity) /\ SumAt(t, parity) = w[Len(t)]
  BY <1>1, SumAtDef
<1>4. /\ v[0] = 0 /\ \A i \in 1 .. n : v[i] = v[i - 1] + (IF i % 2 = parity THEN s[i] ELSE 0)
      /\ \A i \in 0 .. n : v[i] \in Int
  BY <1>2 DEF PartialSums
<1> HIDE DEF t, n
<1>5. /\ w[0] = 0
      /\ \A i \in 1 .. n + 1 : w[i] = w[i - 1] + (IF i % 2 = parity THEN t[i] ELSE 0)
  BY <1>1, <1>3 DEF PartialSums
<1> DEFINE T == { i \in 0 .. n : w[i] = v[i] }
<1>6. 0 \in T
  BY <1>1, <1>4, <1>5
<1>7. ASSUME NEW k \in 1 .. n, k - 1 \in T PROVE k \in T
  <2>1. w[k - 1] = v[k - 1] /\ k \in 1 .. n + 1
    BY <1>1, <1>7
  <2>2. w[k] = v[k]
    BY <1>1, <1>4, <1>5, <2>1
  <2> QED BY <2>2
<1> HIDE DEF T
<1>8. \A k \in 1 .. n : k - 1 \in T => k \in T
  BY <1>7
<1>9. \A k \in 0 .. n : k \in T
  BY <1>1, <1>6, <1>8, UpTo
<1>10. w[n] = v[n] /\ v[n] \in Int
  <2>1. n \in 0 .. n
    BY <1>1
  <2> QED BY <1>4, <1>9, <2>1 DEF T
<1>11. w[n + 1] = w[n]
  <2>1. n + 1 \in 1 .. n + 1 /\ (n + 1) - 1 = n
    BY <1>1
  <2>2. w[n + 1] = w[n] + (IF (n + 1) % 2 = parity THEN t[n + 1] ELSE 0)
    BY <1>5, <2>1
  <2>3. w[n + 1] = w[n] + 0
    BY <1>1, <2>2
  <2> QED BY <1>10, <2>3
<1> QED BY <1>1, <1>2, <1>3, <1>10, <1>11 DEF t

(* The loop of HashMacAddressPid, in 16 bits, is the sum of the characters *)
(* at odd places and of ByteSize times those at even ones, cut to 16 bits. *)
LEMMA HashIsSum ==
  ASSUME NEW m, NEW p, NEW beyond, CharsRead(m, p, beyond) \in Seq(Int)
  PROVE  LET chars == CharsRead(m, p, beyond)
         IN  HashMacAddressPid(m, p, beyond)
               = (SumAt(chars, 1) + ByteSize * SumAt(chars, 0)) % (ByteSize * ByteSize)
<1> DEFINE chars == CharsRead(m, p, beyond)
           n == Len(chars)
           mod == ByteSize * ByteSize
           term(i) == chars[i] * (IF i % 2 = 1 THEN 1 ELSE ByteSize)
           Eq(f) == f = [i \in 0 .. n |-> IF i = 0 THEN 0 ELSE (f[i - 1] + term(i)) % mod]
           h == CHOOSE f : Eq(f)
           g == [i \in 1 .. n |-> [x \in Int |-> (x + term(i)) % mod]]
<1>1. HashMacAddressPid(m, p, beyond) = h[n]
  BY DEF HashMacAddressPid
<1>2. ByteSize \in Nat \ {0} /\ mod \in Nat \ {0}
  BY MachineAssumption
<1>3. n \in Nat /\ chars \in Seq(Int) /\ \A i \in 1 .. n : chars[i] \in Int
  <2>1. chars \in Seq(Int)
    OBVIOUS
  <2> HIDE DEF chars
  <2> QED BY <2>1
<1>4. \A i \in 1 .. n : term(i) \in Int
  <2> HIDE DEF chars
  <2> QED BY <1>2, <1>3
<1>5. \A i \in 1 .. n : \A x \in Int : g[i][x] = (x + term(i)) % mod
  OBVIOUS
<1>6. \A i \in 1 .. n : \A x \in Int : (x + term(i)) % mod \in Int
  <2> SUFFICES ASSUME NEW i \in 1 .. n, NEW x \in Int PROVE (x + term(i)) % mod \in Int
    OBVIOUS
  <2>1. x + term(i) \in Int
    <3> HIDE DEF term
    <3> QED BY <1>4
  <2> HIDE DEF term, mod
  <2>2. (x + term(i)) % mod \in 0 .. mod - 1
    BY <1>2, <2>1, DivMod
  <2> QED BY <1>2, <2>2
<1>7. g \in [1 .. n -> [Int -> Int]]
  <2> HIDE DEF term, mod, n
  <2> QED BY <1>6
<1> HIDE DEF g, term, mod, n, chars
<1>8. PICK f : Solves(f, n, Int, 0, g)
  <2> DEFINE S == Int
  <2>1. n \in Nat /\ 0 \in S /\ g \in [1 .. n -> [S -> S]]
    BY <1>3, <1>7
  <2>2. \E f : Solves(f, n, S, 0, g)
    <3> HIDE DEF S
    <3> QED BY <2>1, Recursion
  <2> QED BY <2>2
<1>9. /\ f \in [0 .. n -> Int] /\ f[0] = 0
      /\ \A i \in 1 .. n : f[i] = g[i][f[i - 1]]
  BY <1>8 DEF Solves
<1>10. \A i \in 1 .. n : f[i] = (f[i - 1] + term(i)) % mod
  <2>1. \A i \in 1 .. n : i - 1 \in 0 .. n
    BY <1>3
  <2>2. \A i \in 1 .. n : f[i - 1] \in Int
    BY <1>9, <2>1
  <2> QED BY <1>5, <1>9, <2>2
<1>11. Eq(f)
  <2>1. \A i \in 0 .. n : i # 0 => i \in 1 .. n
    BY <1>3
  <2> QED BY <1>9, <1>10, <2>1
<1>12. Eq(h)
  <2> HIDE DEF Eq
  <2> QED BY <1>11
<1> HIDE DEF h
<1>13. h[0] = 0 /\ \A i \in 1 .. n : h[i] = (h[i - 1] + term(i)) % mod
  <2>1. \A i \in 0 .. n : h[i] = IF i = 0 THEN 0 ELSE (h[i - 1] + term(i)) % mod
    BY <1>12
  <2>2. 0 \in 0 .. n /\ \A i \in 1 .. n : i \in 0 .. n /\ i # 0
    BY <1>3
  <2> HIDE DEF Eq
  <2> QED BY <2>1, <2>2
<1>14. PICK o : PartialSums(o, chars, 1) /\ SumAt(chars, 1) = o[n]
  BY <1>3, SumAtDef DEF n
<1>15. PICK e : PartialSums(e, chars, 0) /\ SumAt(chars, 0) = e[n]
  BY <1>3, SumAtDef DEF n
<1>16. /\ o[0] = 0 /\ \A i \in 1 .. n : o[i] = o[i - 1] + (IF i % 2 = 1 THEN chars[i] ELSE 0)
       /\ \A i \in 0 .. n : o[i] \in Int
  BY <1>14 DEF PartialSums, n
<1>17. /\ e[0] = 0 /\ \A i \in 1 .. n : e[i] = e[i - 1] + (IF i % 2 = 0 THEN chars[i] ELSE 0)
       /\ \A i \in 0 .. n : e[i] \in Int
  BY <1>15 DEF PartialSums, n
<1> DEFINE total(i) == o[i] + ByteSize * e[i]
           T == { i \in 0 .. n : h[i] = total(i) % mod }
<1>18. \A i \in 0 .. n : total(i) \in Int
  BY <1>2, <1>16, <1>17
<1>19. \A i \in 1 .. n : total(i) = total(i - 1) + term(i)
  <2> SUFFICES ASSUME NEW i \in 1 .. n PROVE total(i) = total(i - 1) + term(i)
    OBVIOUS
  <2>1. o[i - 1] \in Int /\ e[i - 1] \in Int /\ chars[i] \in Int
    <3>1. i - 1 \in 0 .. n
      BY <1>3
    <3> QED BY <1>3, <1>16, <1>17, <3>1
  <2>2. CASE i % 2 = 1
    <3>1. o[i] = o[i - 1] + chars[i] /\ e[i] = e[i - 1]
      BY <1>16, <1>17, <2>1, <2>2
    <3>2. term(i) = chars[i]
      BY <2>1, <2>2 DEF term
    <3>3. ByteSize * e[i - 1] \in Int
      BY <1>2, <2>1
    <3> QED BY <2>1, <3>1, <3>2, <3>3
  <2>3. CASE i % 2 = 0
    <3>1. o[i] = o[i - 1] /\ e[i] = e[i - 1] + chars[i]
      BY <1>16, <1>17, <2>1, <2>3
    <3>2. term(i) = chars[i] * ByteSize
      BY <2>1, <2>3 DEF term
    <3>3. ASSUME NEW x \in Int, NEW y \in Int
          PROVE  ByteSize * (x + y) = ByteSize * x + y * ByteSize
                 /\ ByteSize * x \in Int /\ y * ByteSize \in Int
      BY <1>2
    <3>4. total(i) = o[i - 1] + ByteSize * (e[i - 1] + chars[i])
      BY <3>1
    <3>5. /\ ByteSize * (e[i - 1] + chars[i]) = ByteSize * e[i - 1] + chars[i] * ByteSize
          /\ ByteSize * e[i - 1] \in Int /\ chars[i] * ByteSize \in Int
      BY <2>1, <3>3
    <3> QED BY <2>1, <3>2, <3>4, <3>5
  <2> QED BY <2>2, <2>3
<1>20. 0 \in T
  <2>1. total(0) = 0 /\ 0 % mod = 0
    BY <1>2, <1>16, <1>17
  <2> QED BY <1>3, <1>13, <2>1
<1> HIDE DEF total
<1>21. ASSUME NEW k \in 1 .. n, k - 1 \in T PROVE k \in T
  <2>1. h[k - 1] = total(k - 1) % mod /\ h[k] = (h[k - 1] + term(k)) % mod
    BY <1>13, <1>21
  <2>2. total(k - 1) \in Int /\ term(k) \in Int
    <3>1. k - 1 \in 0 .. n
      BY <1>3
    <3> QED BY <1>4, <1>18, <3>1
  <2>3. h[k] = (total(k - 1) + term(k)) % mod
    BY <1>2, <2>1, <2>2, ModSum
  <2>4. h[k] = total(k) % mod
    BY <1>19, <2>3
  <2> QED BY <2>4
<1> HIDE DEF T
<1>22. \A k \in 1 .. n : k - 1 \in T => k \in T
  BY <1>21
<1>23. \A k \in 0 .. n : k \in T
  BY <1>3, <1>20, <1>22, UpTo
<1>24. h[n] = total(n) % mod
  <2>1. n \in T
    BY <1>3, <1>23
  <2> QED BY <2>1 DEF T
<1> QED BY <1>1, <1>14, <1>15, <1>24 DEF total, mod, chars

(* An address, up to its first zero, is characters.                        *)
LEMMA AddressType ==
  ASSUME ifconf \in Hosts
  PROVE  FirstAddress \in Seq(Int)
<1>1. << >> \in Seq(Int)
  OBVIOUS
<1>2. ASSUME NEW bytes \in Seq(Int), Len(bytes) > 0 PROVE CString(bytes) \in Seq(Int)
  <2> DEFINE zeros == { i \in DOMAIN bytes : bytes[i] = 0 }
             first == CHOOSE i \in zeros : \A j \in zeros : i <= j
  <2>1. DOMAIN bytes = 1 .. Len(bytes) /\ Len(bytes) \in Nat
    OBVIOUS
  <2>2. CASE zeros = {}
    <3>1. CString(bytes) = bytes
      BY <2>2 DEF CString
    <3> QED BY <3>1
  <2>3. CASE zeros # {}
    <3>1. zeros \in SUBSET Nat
      BY <2>1
    <3>2. first \in zeros
      <4> HIDE DEF zeros
      <4>1. \E i \in zeros : \A j \in zeros : i <= j
        BY <2>3, <3>1, LeastNumber
      <4> QED BY <4>1
    <3>3. CString(bytes) = SubSeq(bytes, 1, first - 1)
      BY <2>3 DEF CString
    <3> HIDE DEF first
    <3>4. first \in 1 .. Len(bytes)
      BY <2>1, <3>2
    <3>5. SubSeq(bytes, 1, first - 1) \in Seq(Int)
      BY <3>4
    <3> QED BY <3>3, <3>5
  <2> QED BY <2>2, <2>3
<1>3. CASE Usable = {}
  BY <1>1, <1>3 DEF FirstAddress
<1>4. CASE Usable # {}
  <2> DEFINE k == CHOOSE i \in Usable : \A j \in Usable : i <= j
  <2>1. /\ ifconf \in Seq(Interfaces)
        /\ \A i \in DOMAIN ifconf : Len(ifconf[i].sa_data) > 0
    BY HostsAssumption
  <2>2. Usable \in SUBSET Nat /\ Usable \subseteq DOMAIN ifconf
    BY <2>1 DEF Usable
  <2>3. k \in Usable
    <3>1. \E i \in Usable : \A j \in Usable : i <= j
      BY <1>4, <2>2, LeastNumber
    <3> QED BY <3>1
  <2>4. FirstAddress = CString(ifconf[k].sa_data)
    BY <1>4 DEF FirstAddress
  <2> HIDE DEF k
  <2>5. ifconf[k] \in Interfaces /\ Len(ifconf[k].sa_data) > 0
    BY <2>1, <2>2, <2>3, ElementOfSeq
  <2>6. ifconf[k].sa_data \in Seq(Int)
    BY <2>5 DEF Interfaces
  <2>7. CString(ifconf[k].sa_data) \in Seq(Int)
    BY <1>2, <2>5, <2>6
  <2> QED BY <2>4, <2>7
<1> QED BY <1>3, <1>4

(* As many characters are read as the address and the pid have together;   *)
(* behind the address these are the zero that ends it and, for a pid of    *)
(* more than one digit, the stack.                                         *)
LEMMA CharsReadType ==
  ASSUME NEW m \in Seq(Int), NEW p \in Pids, NEW beyond \in Leftovers
  PROVE  /\ CharsRead(m, p, beyond) \in Seq(Int)
         /\ Len(CharsRead(m, p, beyond)) = Len(m) + Len(p)
         /\ Len(p) = 1 => CharsRead(m, p, beyond) = m \o << 0 >>
<1> DEFINE memory == m \o << 0 >> \o beyond
           n == Len(m) + Len(p)
<1>1. /\ p \in Seq(Int) /\ beyond \in Seq(Int) /\ Len(p) > 0 /\ Len(p) <= Len(beyond) + 1
  BY StackAssumption
<1>2. memory \in Seq(Int) /\ Len(memory) = Len(m) + 1 + Len(beyond)
  BY <1>1
<1>3. \A i \in 1 .. Len(m) + 1 : memory[i] = (m \o << 0 >>)[i]
  <2> DEFINE t == m \o << 0 >>
  <2>1. t \in Seq(Int) /\ Len(t) = Len(m) + 1 /\ memory = t \o beyond
    OBVIOUS
  <2> HIDE DEF t
  <2>2. \A i \in 1 .. Len(t) : (t \o beyond)[i] = t[i]
    BY <1>1, <2>1
  <2> HIDE DEF memory
  <2> QED BY <2>1, <2>2 DEF t
<1> HIDE DEF memory
<1>4. n \in Nat /\ n <= Len(memory) /\ n >= 1
  BY <1>1, <1>2
<1> DEFINE chars == SubSeq(memory, 1, n)
<1>5. chars \in Seq(Int) /\ Len(chars) = n /\ \A i \in 1 .. n : chars[i] = memory[i]
  BY <1>2, <1>4
<1>6. CharsRead(m, p, beyond) = chars
  BY DEF CharsRead, memory
<1>7. ASSUME Len(p) = 1 PROVE chars = m \o << 0 >>
  <2> DEFINE t == m \o << 0 >>
  <2>1. t \in Seq(Int) /\ Len(t) = Len(m) + 1
    OBVIOUS
  <2>2. Len(chars) = Len(t) /\ \A i \in 1 .. Len(chars) : chars[i] = t[i]
    BY <1>3, <1>5, <1>7, <2>1
  <2> HIDE DEF chars, t
  <2>3. chars = t
    BY <1>5, <2>1, <2>2, SameString
  <2> QED BY <2>3 DEF t
<1> QED BY <1>5, <1>6, <1>7

(* The low digits of the hash are those of the sum of the characters.      *)
LEMMA HashDigits ==
  ASSUME NEW m \in Seq(Int), NEW p \in Pids, NEW beyond \in Leftovers
  PROVE  /\ HashMacAddressPid(m, p, beyond) \in Int
         /\ IsHashOf(FitTo(ToHex(HashMacAddressPid(m, p, beyond)), MachDigits),
                     CharsRead(m, p, beyond))
<1> DEFINE chars == CharsRead(m, p, beyond)
           h == HashMacAddressPid(m, p, beyond)
           mod == ByteSize * ByteSize
           d == Power[MachDigits]
           sum == SumAt(chars, 1) + ByteSize * SumAt(chars, 0)
<1>1. chars \in Seq(Int)
  BY CharsReadType
<1>2. h = sum % mod
  BY <1>1, HashIsSum
<1>3. sum \in Int
  <2> HIDE DEF chars
  <2>1. SumAt(chars, 1) \in Int /\ SumAt(chars, 0) \in Int
    BY <1>1, SumAtType
  <2> QED BY <2>1, MachineAssumption
<1>4. MachDigits \in 1 .. WordDigits /\ MachDigits \in 0 .. WordDigits
  BY MachineAssumption, HexAssumption
<1>5. mod \in Nat \ {0} /\ d \in Nat \ {0} /\ mod % d = 0
  BY <1>4, MachineAssumption, PowerDef
<1> HIDE DEF h, sum, mod
<1>6. h \in Int
  <2>1. sum % mod \in 0 .. mod - 1
    BY <1>3, <1>5, DivMod
  <2> QED BY <1>2, <1>5, <2>1
<1>7. /\ Len(FitTo(ToHex(h), MachDigits)) = MachDigits
      /\ FromHex(FitTo(ToHex(h), MachDigits)) = h % d
  BY <1>4, <1>6, FieldOf
<1> HIDE DEF d
<1>8. h % d = sum % d
  <2> DEFINE e == mod \div d
  <2>1. e \in Int /\ mod = e * d
    <3>1. e \in Int /\ mod = e * d + (mod % d)
      BY <1>5, DivMod
    <3>2. e * d \in Int
      BY <1>5, <3>1
    <3> HIDE DEF e
    <3> QED BY <1>5, <3>1, <3>2
  <2> HIDE DEF e
  <2>2. e \in Nat \ {0}
    <3>1. \A x \in Int : x <= 0 => x * d <= 0
      BY <1>5
    <3> QED BY <1>5, <2>1, <3>1
  <2>3. (sum % (e * d)) % d = sum % d
    BY <1>3, <1>5, <2>2, ModMod
  <2> QED BY <1>2, <2>1, <2>3
<1>9. IsHashOf(FitTo(ToHex(h), MachDigits), chars)
  BY <1>7, <1>8 DEF IsHashOf, sum, d
<1> QED BY <1>6, <1>9 DEF h

-----------------------------------------------------------------------------
(* What MachineIdDefined says follows from MachineInv.                     *)
LEMMA DefinedMachineId == MachineInv => MachineIdDefined
<1> SUFFICES ASSUME MachineInv PROVE MachineIdDefined
  OBVIOUS
<1> USE DEF MachineInv
<1>1. stage = "failed" => mac_hash = << >>
  BY DEF LoopInv
<1>2. ASSUME stage = "done"
      PROVE  IsHashOf(mac_hash, IF Len(pid) = 1 THEN FirstAddress
                                ELSE CharsRead(FirstAddress, pid, stack))
  <2>1. mac = FirstAddress /\ mac \in Seq(Int)
    BY <1>2, AddressType DEF LoopInv
  <2>2. IsHashOf(mac_hash, CharsRead(FirstAddress, pid, stack))
    BY <1>2, <2>1, HashDigits
  <2>3. ASSUME Len(pid) = 1 PROVE IsHashOf(mac_hash, FirstAddress)
    <3>1. CharsRead(FirstAddress, pid, stack) = FirstAddress \o << 0 >>
      BY <2>1, <2>3, CharsReadType
    <3>2. \A parity : SumAt(FirstAddress \o << 0 >>, parity) = SumAt(FirstAddress, parity)
      BY <2>1, SumAtZero
    <3> QED BY <2>2, <3>1, <3>2 DEF IsHashOf
  <2> QED BY <2>2, <2>3
<1> QED BY <1>1, <1>2 DEF MachineIdDefined

LEMMA MachineInvInit == Init => MachineInv
BY LoopInit DEF Init, MachineInv

LEMMA MachineInvStep == MachineInv /\ [Next]_vars => MachineInv'
<1> SUFFICES ASSUME MachineInv, [Next]_vars PROVE MachineInv'
  OBVIOUS
<1>1. LoopInv'
  BY LoopStep DEF MachineInv
<1>2. pid' = pid /\ stack' = stack
  BY DEF Next, vars, inputs, Fail, Open, Interface, NoMore, Hash
<1>3. CASE Hash
  BY <1>1, <1>2, <1>3 DEF Hash, MachineInv
<1>4. CASE UNCHANGED vars
  BY <1>1, <1>2, <1>4 DEF vars, MachineInv
<1>5. CASE Fail \/ Open \/ Interface \/ NoMore
  <2>1. stage' # "done"
    BY <1>5 DEF Fail, Open, Interface, NoMore
  <2> QED BY <1>1, <1>2, <2>1 DEF MachineInv
<1> QED BY <1>3, <1>4, <1>5 DEF Next

(* A call of GetMachineId that fails leaves the machine id empty; one that *)
(* ends has the low digits of the sum of the address, for a pid of one     *)
(* digit, and else of what is read behind it too.                          *)
THEOREM MachineIdFound == Spec => []MachineIdDefined
<1>1. Init => MachineInv
  BY MachineInvInit
<1>2. MachineInv /\ [Next]_vars => MachineInv'
  BY MachineInvStep
<1>3. MachineInv => MachineIdDefined
  BY DefinedMachineId
<1> QED BY <1>1, <1>2, <1>3, PTL DEF Spec

-----------------------------------------------------------------------------
(* Ids.  Every step of compute_unique_id is one of GetMachineId or leaves  *)
(* its variables alone.                                                    *)
THEOREM FormatImplementsMachine == FormatSpec => Spec
<1>1. FormatInit => Init
  BY DEF FormatInit
<1>2. [FormatNext]_formatVars => [Next]_vars
  BY DEF FormatNext, formatVars, machineVars, vars,
         FormatTimestamp, FormatCounter, FormatMachine, Compose
<1> QED BY <1>1, <1>2, PTL DEF FormatSpec, Spec

(* The machine part of an id is the result of GetMachineId.                *)
THEOREM FormatMachineId == FormatSpec => []MachineIdDefined
BY FormatImplementsMachine, MachineIdFound, PTL

LEMMA FormatInvInit == FormatInit => FormatInv
BY MachineInvInit DEF FormatInit, FormatInv, Init

LEMMA FormatInvStep == FormatInv /\ [FormatNext]_formatVars => FormatInv'
<1> SUFFICES ASSUME FormatInv, [FormatNext]_formatVars PROVE FormatInv'
  OBVIOUS
<1>1. MachineInv'
  <2>1. [Next]_vars
    BY DEF FormatNext, formatVars, machineVars, vars,
           FormatTimestamp, FormatCounter, FormatMachine, Compose
  <2> QED BY <2>1, MachineInvStep DEF FormatInv
<1>2. timestamp' = timestamp /\ counter_value' = counter_value
  BY DEF FormatNext, formatVars, numbers, FormatTimestamp, FormatCounter, FormatMachine, Compose
<1>3. CASE FormatTimestamp
  BY <1>1, <1>2, <1>3 DEF FormatTimestamp, FormatInv, machineVars
<1>4. CASE FormatCounter
  BY <1>1, <1>2, <1>4 DEF FormatCounter, FormatInv, machineVars
<1>5. CASE FormatMachine
  BY <1>1, <1>2, <1>5 DEF FormatMachine, FormatInv
<1>6. CASE Compose
  BY <1>1, <1>2, <1>6 DEF Compose, FormatInv, machineVars
<1>7. CASE UNCHANGED formatVars
  BY <1>1, <1>2, <1>7 DEF formatVars, machineVars, FormatInv
<1> QED BY <1>3, <1>4, <1>5, <1>6, <1>7 DEF FormatNext

-----------------------------------------------------------------------------
(* The number of an id.  Three fields fill a word; half of the word is the *)
(* lower half of the machine field, since the base is even.                *)
LEMMA FieldSizes ==
  /\ MachDigits \in 1 .. WordDigits /\ TsDigits \in 1 .. WordDigits
  /\ CtrDigits \in 1 .. WordDigits
  /\ Power[MachDigits] \div 2 \in Nat \ {0}
  /\ Power[TsDigits] \in Nat \ {0} /\ Power[CtrDigits] \in Nat \ {0}
  /\ Word \div 2 = (Power[MachDigits] \div 2) * (Power[TsDigits] * Power[CtrDigits])
<1> DEFINE M == Power[MachDigits]
           T == Power[TsDigits]
           C == Power[CtrDigits]
           half == Base \div 2
           m == half * Power[MachDigits - 1]
<1>1. /\ MachDigits \in 1 .. WordDigits /\ TsDigits \in 1 .. WordDigits
      /\ CtrDigits \in 1 .. WordDigits /\ WordDigits \in Nat
  BY MachineAssumption, FormatAssumption, HexAssumption
<1>2. T \in Nat \ {0} /\ C \in Nat \ {0} /\ Power[MachDigits - 1] \in Nat \ {0}
  <2>1. /\ TsDigits \in 0 .. WordDigits /\ CtrDigits \in 0 .. WordDigits
        /\ MachDigits - 1 \in 0 .. WordDigits
    BY <1>1
  <2> QED BY <2>1, PowerDef
<1>3. half \in Nat \ {0} /\ Base = 2 * half
  BY HexAssumption, FormatAssumption
<1>4. M = Base * Power[MachDigits - 1]
  BY <1>1, PowerDef
<1>5. Word = (M * T) * C
  <2>1. /\ MachDigits \in Nat /\ TsDigits \in Nat /\ CtrDigits \in Nat
        /\ MachDigits + TsDigits \in Nat /\ MachDigits + TsDigits <= WordDigits
        /\ (MachDigits + TsDigits) + CtrDigits = WordDigits
        /\ (MachDigits + TsDigits) + CtrDigits <= WordDigits
    BY <1>1, FormatAssumption
  <2>2. Power[MachDigits + TsDigits] = M * T
    BY <2>1, PowerAdd
  <2>3. Power[(MachDigits + TsDigits) + CtrDigits] = Power[MachDigits + TsDigits] * C
    BY <2>1, PowerAdd
  <2> QED BY <2>1, <2>2, <2>3 DEF Word
<1> DEFINE q == Power[MachDigits - 1]
<1> HIDE DEF half, T, C, q
<1>6. m \in Nat \ {0} /\ M = 2 * m
  <2>1. \A x, y \in Nat \ {0} : x * y \in Nat \ {0} /\ (2 * x) * y = 2 * (x * y)
    OBVIOUS
  <2>2. m = half * q /\ M = Base * q /\ q \in Nat \ {0}
    BY <1>2, <1>4 DEF q
  <2> HIDE DEF m, M
  <2> QED BY <1>3, <2>1, <2>2
<1> HIDE DEF m, M
<1>7. M \div 2 = m
  BY <1>6
<1>8. Word = 2 * (m * (T * C)) /\ m * (T * C) \in Nat
  <2>1. \A x, y, z \in Nat : ((2 * x) * y) * z = 2 * (x * (y * z)) /\ x * (y * z) \in Nat
    <3> TAKE x, y, z \in Nat
    <3>1. (2 * x) * y = 2 * (x * y) /\ x * y \in Nat /\ y * z \in Nat
      OBVIOUS
    <3>2. (x * y) * z = x * (y * z)
      OBVIOUS
    <3>3. \A u \in Nat : (2 * u) * z = 2 * (u * z)
      OBVIOUS
    <3> QED BY <3>1, <3>2, <3>3
  <2>2. m \in Nat /\ T \in Nat /\ C \in Nat
    BY <1>2, <1>6
  <2> QED BY <1>5, <1>6, <2>1, <2>2
<1>9. Word \div 2 = m * (T * C)
  <2> DEFINE w == m * (T * C)
  <2>1. w \in Nat /\ Word = 2 * w
    BY <1>8
  <2> HIDE DEF w
  <2>2. Word \div 2 = w
    BY <2>1
  <2> QED BY <2>2 DEF w
<1> QED BY <1>1, <1>2, <1>6, <1>7, <1>9 DEF M, T, C

(* Composing a number of three fields, and masking it: only the first      *)
(* field is cut.                                                           *)
Packed(h, t, c, T, C) == (h * T + t) * C + c

MaskCutsFirst(h, t, c, m, T, C) ==
  Packed(h, t, c, T, C) % (m * (T * C)) = Packed(h % m, t, c, T, C)

LEMMA MaskIsCut ==
  ASSUME NEW m \in Nat \ {0}, NEW T \in Nat \ {0}, NEW C \in Nat \ {0},
         NEW h \in Int, NEW t \in 0 .. T - 1, NEW c \in 0 .. C - 1
  PROVE  MaskCutsFirst(h, t, c, m, T, C)
<1> DEFINE q == h \div m
           r == h % m
           low == (r * T + t) * C + c
           W == m * (T * C)
<1>1. q \in Int /\ r \in 0 .. m - 1 /\ h = q * m + r
  BY DivMod
<1> HIDE DEF q, r
<1>2. T * C \in Nat \ {0} /\ W \in Nat \ {0}
  OBVIOUS
<1>3. \A x \in Nat, y \in Nat \ {0}, n \in Nat \ {0} : \A z \in 0 .. n - 1 :
         x < y => x * n + z \in 0 .. (y * n) - 1
  <2> SUFFICES ASSUME NEW x \in Nat, NEW y \in Nat \ {0}, NEW n \in Nat \ {0},
                      NEW z \in 0 .. n - 1, x < y
               PROVE  x * n + z \in 0 .. (y * n) - 1
    OBVIOUS
  <2>1. y * n = x * n + n + (y - x - 1) * n
    OBVIOUS
  <2>2. x * n \in Nat /\ y * n \in Nat /\ (y - x - 1) * n \in Nat
    OBVIOUS
  <2> QED BY <2>1, <2>2
<1>4. low \in 0 .. W - 1
  <2> DEFINE a == r * T + t
             b == m * T
  <2>1. a \in 0 .. b - 1 /\ b \in Nat \ {0}
    <3>1. r \in Nat /\ r < m
      BY <1>1
    <3>2. a \in 0 .. b - 1
      BY <1>3, <3>1
    <3>3. b \in Nat \ {0}
      OBVIOUS
    <3> QED BY <3>2, <3>3
  <2>2. b * C = W
    OBVIOUS
  <2>3. low = a * C + c
    OBVIOUS
  <2> HIDE DEF a, b, low, W
  <2>4. a \in Nat /\ a < b
    BY <2>1
  <2>5. a * C + c \in 0 .. (b * C) - 1
    BY <1>3, <2>1, <2>4
  <2> QED BY <2>2, <2>3, <2>5
<1>5. (h * T + t) * C + c = q * W + low
  <2>1. h * T = (q * m) * T + r * T /\ (q * m) * T \in Int /\ r * T \in Int
    BY <1>1
  <2> DEFINE x == (q * m) * T
             a == r * T + t
  <2>2. h * T + t = x + a /\ x \in Int /\ a \in Int
    BY <2>1
  <2>3. x * C = q * W
    BY <1>1
  <2> HIDE DEF x
  <2>4. (x + a) * C = x * C + a * C /\ x * C \in Int /\ a * C \in Int
    <3> HIDE DEF a
    <3> QED BY <2>2
  <2> QED BY <2>2, <2>3, <2>4
<1> HIDE DEF low, W
<1>6. (q * W + low) % W = low
  BY <1>1, <1>2, <1>4, DivModUnique
<1> QED BY <1>5, <1>6 DEF low, W, r, Packed, MaskCutsFirst

(* The number that is read back from the three strings.                    *)
LEMMA NumberRead ==
  ASSUME NEW id \in Seq(Digit), NEW ts \in Int, NEW ctr \in Int
  PROVE  /\ FromHex(id) \in Int
         /\ FromHex(id \o FitTo(ToHex(ts), TsDigits) \o FitTo(ToHex(ctr), CtrDigits))
               % (Word \div 2)
            = Number(<< FromHex(id) % (Power[MachDigits] \div 2),
                        ts % Power[TsDigits], ctr % Power[CtrDigits] >>)
<1> DEFINE a == FitTo(ToHex(ts), TsDigits)
           b == FitTo(ToHex(ctr), CtrDigits)
           m == Power[MachDigits] \div 2
           T == Power[TsDigits]
           C == Power[CtrDigits]
           h == FromHex(id)
           t == ts % T
           c == ctr % C
<1>1. /\ m \in Nat \ {0} /\ T \in Nat \ {0} /\ C \in Nat \ {0}
      /\ Word \div 2 = m * (T * C)
      /\ TsDigits \in 1 .. WordDigits /\ CtrDigits \in 1 .. WordDigits
  BY FieldSizes
<1>2. a \in Seq(Digit) /\ Len(a) = TsDigits /\ FromHex(a) = t /\ t \in 0 .. T - 1
  BY <1>1, FieldOf
<1>3. b \in Seq(Digit) /\ Len(b) = CtrDigits /\ FromHex(b) = c /\ c \in 0 .. C - 1
  BY <1>1, FieldOf
<1> HIDE DEF a, b, m, t, c
<1>4. id \in Seq(Int) /\ a \in Seq(Int) /\ b \in Seq(Int) /\ id \o a \in Seq(Int)
  <2>1. id \in Seq(Int) /\ a \in Seq(Int) /\ b \in Seq(Int)
    BY <1>2, <1>3, DigitString
  <2> QED BY <2>1
<1>5. h \in Int
  BY <1>4, FromHexType
<1>6. FromHex(id \o a) = h * T + t
  <2>1. Len(a) <= WordDigits
    BY <1>1, <1>2, HexAssumption
  <2> QED BY <1>2, <1>4, <2>1, FromHexConcat
<1>7. FromHex((id \o a) \o b) = (h * T + t) * C + c
  <2>1. Len(b) <= WordDigits
    BY <1>1, <1>3, HexAssumption
  <2> QED BY <1>3, <1>4, <1>6, <2>1, FromHexConcat
<1> HIDE DEF h, T, C
<1>8. Packed(h, t, c, T, C) % (m * (T * C)) = Packed(h % m, t, c, T, C)
  <2>1. /\ m \in Nat \ {0} /\ T \in Nat \ {0} /\ C \in Nat \ {0}
        /\ h \in Int /\ t \in 0 .. T - 1 /\ c \in 0 .. C - 1
    BY <1>1, <1>2, <1>3, <1>5
  <2>2. MaskCutsFirst(h, t, c, m, T, C)
    BY <2>1, MaskIsCut
  <2> QED BY <2>2 DEF MaskCutsFirst
<1>9. Number(<< h % m, t, c >>) = Packed(h % m, t, c, T, C)
  BY DEF Number, Packed, T, C
<1>10. FromHex((id \o a) \o b) = Packed(h, t, c, T, C)
  BY <1>7 DEF Packed
<1> QED BY <1>1, <1>5, <1>8, <1>9, <1>10 DEF a, b, m, T, C, h, t, c

(* Numbers are ordered like their last two fields, when the first is the   *)
(* same, and equal only when all fields are.                               *)
LEMMA PackedOrder ==
  ASSUME NEW T \in Nat \ {0}, NEW C \in Nat \ {0}, NEW r \in Int,
         NEW t \in Int, NEW s \in Int, s <= t, NEW c \in 0 .. C - 1, NEW d \in 0 .. C - 1
  PROVE  Packed(r, s, c, T, C) < Packed(r, t, d, T, C) <=> s < t \/ c < d
<1> DEFINE x == r * T
<1>1. x \in Int
  OBVIOUS
<1> HIDE DEF x
<1>2. (x + s) * C \in Int /\ (x + t) * C \in Int
  BY <1>1
<1>3. CASE s = t
  <2>1. (x + s) * C + c < (x + s) * C + d <=> c < d
    <3> DEFINE y == (x + s) * C
    <3>1. y \in Int
      BY <1>2
    <3> HIDE DEF y
    <3>2. y + c < y + d <=> c < d
      BY <3>1
    <3> QED BY <3>2 DEF y
  <2> QED BY <1>3, <2>1 DEF Packed, x
<1>4. CASE s # t
  <2>1. (x + t) * C = (x + s) * C + C + (t - s - 1) * C
    BY <1>1
  <2>2. (t - s - 1) * C \in Nat
    <3>1. t - s - 1 \in Nat
      BY <1>4
    <3> HIDE <1>4
    <3> QED BY <3>1
  <2>3. (x + s) * C + c < (x + t) * C + d
    BY <1>2, <2>1, <2>2
  <2> QED BY <1>4, <2>3 DEF Packed, x
<1> QED BY <1>3, <1>4

LEMMA PackedFields ==
  ASSUME NEW T \in Nat \ {0}, NEW C \in Nat \ {0}, NEW r \in Int, NEW q \in Int,
         NEW t \in 0 .. T - 1, NEW s \in 0 .. T - 1, NEW c \in 0 .. C - 1, NEW d \in 0 .. C - 1,
         Packed(r, t, c, T, C) = Packed(q, s, d, T, C)
  PROVE  r = q /\ t = s /\ c = d
<1> DEFINE x == r * T + t
           y == q * T + s
<1>1. x \in Int /\ y \in Int
  OBVIOUS
<1>2. x * C + c = y * C + d
  BY DEF Packed
<1> HIDE DEF x, y
<1>3. /\ (x * C + c) % C = c /\ (x * C + c) \div C = x
      /\ (y * C + d) % C = d /\ (y * C + d) \div C = y
  BY <1>1, DivModUnique
<1>4. c = d /\ x = y
  BY <1>2, <1>3
<1>5. /\ (r * T + t) % T = t /\ (r * T + t) \div T = r
      /\ (q * T + s) % T = s /\ (q * T + s) \div T = q
  BY DivModUnique
<1> QED BY <1>4, <1>5 DEF x, y

(* The fields of module IdFields, as remainders.                           *)
LEMMA FieldsAreRemainders ==
  ASSUME NEW h \in Int, NEW ts \in Int, NEW ctr \in Int
  PROVE  F!Fields(h, ts, ctr) = << h % (Power[MachDigits] \div 2),
                                   ts % Power[TsDigits], ctr % Power[CtrDigits] >>
<1>1. ASSUME NEW n \in Int, NEW mod \in Nat \ {0} PROVE F!Cut(n, mod) = n % mod
  <2>1. n \in 0 .. mod - 1 => n % mod = n
    OBVIOUS
  <2> QED BY <2>1 DEF F!Cut
<1> QED BY <1>1, FieldSizes DEF F!Fields

(* Two ids are the same number exactly when their three fields are the     *)
(* same: module UniqueID may use the fields for the number.                *)
THEOREM SameIdSameFields ==
  ASSUME NEW h \in Int, NEW ts \in Int, NEW ctr \in Int,
         NEW i \in Int, NEW us \in Int, NEW dtr \in Int
  PROVE  Number(F!Fields(h, ts, ctr)) = Number(F!Fields(i, us, dtr))
           <=> F!Fields(h, ts, ctr) = F!Fields(i, us, dtr)
<1> DEFINE m == Power[MachDigits] \div 2
           T == Power[TsDigits]
           C == Power[CtrDigits]
<1>1. m \in Nat \ {0} /\ T \in Nat \ {0} /\ C \in Nat \ {0}
  BY FieldSizes
<1>2. /\ F!Fields(h, ts, ctr) = << h % m, ts % T, ctr % C >>
      /\ F!Fields(i, us, dtr) = << i % m, us % T, dtr % C >>
  BY FieldsAreRemainders
<1>3. \A r, t, c : Number(<< r, t, c >>) = Packed(r, t, c, T, C)
  BY DEF Number, Packed
<1> HIDE DEF m, T, C
<1>4. /\ h % m \in 0 .. m - 1 /\ ts % T \in 0 .. T - 1 /\ ctr % C \in 0 .. C - 1
      /\ i % m \in 0 .. m - 1 /\ us % T \in 0 .. T - 1 /\ dtr % C \in 0 .. C - 1
  BY <1>1, DivMod
<1>5. h % m \in Int /\ i % m \in Int
  BY <1>1, <1>4
<1>6. Packed(h % m, ts % T, ctr % C, T, C) = Packed(i % m, us % T, dtr % C, T, C)
        => h % m = i % m /\ ts % T = us % T /\ ctr % C = dtr % C
  <2> DEFINE r == h % m
             q == i % m
             t == ts % T
             s == us % T
             c == ctr % C
             d == dtr % C
  <2> SUFFICES ASSUME Packed(r, t, c, T, C) = Packed(q, s, d, T, C)
               PROVE  r = q /\ t = s /\ c = d
    OBVIOUS
  <2> HIDE DEF r, q, t, s, c, d
  <2>1. /\ r \in Int /\ q \in Int /\ t \in 0 .. T - 1 /\ s \in 0 .. T - 1
        /\ c \in 0 .. C - 1 /\ d \in 0 .. C - 1
    BY <1>4, <1>5 DEF r, q, t, s, c, d
  <2> QED BY <1>1, <2>1, PackedFields
<1> QED BY <1>2, <1>3, <1>6

-----------------------------------------------------------------------------
(* The number that was composed.                                           *)
LEMMA Composed ==
  ASSUME FormatInv, post_id # -1
  PROVE  LET hash == IF stage = "failed" THEN 0
                     ELSE HashMacAddressPid(mac, pid, stack) % Power[MachDigits]
         IN  /\ hash \in Int /\ timestamp \in Int /\ counter_value \in Int
             /\ mac_hash \in Seq(Digit) /\ FromHex(mac_hash) = hash
             /\ post_id = Number(<< hash % (Power[MachDigits] \div 2),
                                    timestamp % Power[TsDigits],
                                    counter_value % Power[CtrDigits] >>)
<1> DEFINE full == HashMacAddressPid(mac, pid, stack)
           hash == IF stage = "failed" THEN 0 ELSE full % Power[MachDigits]
<1>1. timestamp \in Int /\ counter_value \in Int
  BY FormatAssumption DEF FormatInv
<1>2. /\ stage \in {"done", "failed"}
      /\ post_id = FromHex(mac_hash \o timestamp_hex \o counter_hex) % (Word \div 2)
      /\ timestamp_hex = FitTo(ToHex(timestamp), TsDigits)
      /\ counter_hex = FitTo(ToHex(counter_value), CtrDigits)
  BY DEF FormatInv
<1>3. hash \in Int /\ mac_hash \in Seq(Digit) /\ FromHex(mac_hash) = hash
  <2>1. CASE stage = "failed"
    <3>1. mac_hash = << >>
      BY <2>1 DEF FormatInv, MachineInv, LoopInv
    <3> DEFINE none == << >>
    <3>2. none \in Seq(Digit) /\ Len(none) = 0 /\ Len(none) <= WordDigits
      BY HexAssumption
    <3> HIDE DEF none
    <3>3. FromHex(none) \in 0 .. Power[0] - 1
      BY <3>2, FromHexRange
    <3>4. FromHex(none) = 0
      BY <3>3, PowerDef
    <3> QED BY <2>1, <3>1, <3>2, <3>4 DEF none
  <2>2. CASE stage = "done"
    <3>1. mac = FirstAddress /\ ifconf \in Hosts /\ pid \in Pids /\ stack \in Leftovers
          /\ mac_hash = FitTo(ToHex(full), MachDigits)
      BY <2>2 DEF FormatInv, MachineInv, LoopInv
    <3>2. mac \in Seq(Int)
      BY <3>1, AddressType
    <3>3. full \in Int
      BY <3>1, <3>2, HashDigits
    <3> HIDE DEF full
    <3>4. /\ mac_hash \in Seq(Digit) /\ FromHex(mac_hash) = full % Power[MachDigits]
          /\ full % Power[MachDigits] \in Int
      BY <3>1, <3>3, FieldSizes, FieldOf
    <3> QED BY <2>2, <3>4
  <2> QED BY <1>2, <2>1, <2>2
<1> HIDE DEF hash
<1>4. post_id = Number(<< hash % (Power[MachDigits] \div 2),
                          timestamp % Power[TsDigits],
                          counter_value % Power[CtrDigits] >>)
  BY <1>1, <1>2, <1>3, NumberRead
<1> QED BY <1>1, <1>3, <1>4 DEF hash, full

(* Whatever the clock, the counter, the host, the pid and the stack: an id *)
(* is the number of its three fields, each cut to its digits and the       *)
(* machine field to one bit less; a GetMachineId that failed is machine 0. *)
THEOREM IdsHaveTheirFields == FormatSpec => []IdIsItsFields
<1>1. FormatInit => FormatInv
  BY FormatInvInit
<1>2. FormatInv /\ [FormatNext]_formatVars => FormatInv'
  BY FormatInvStep
<1>3. FormatInv => IdIsItsFields
  <2> SUFFICES ASSUME FormatInv PROVE IdIsItsFields
    OBVIOUS
  <2> DEFINE hash == IF stage = "failed" THEN 0
                     ELSE HashMacAddressPid(mac, pid, stack) % Power[MachDigits]
  <2>1. ASSUME post_id # -1 PROVE post_id = Number(F!Fields(hash, timestamp, counter_value))
    <3>1. /\ hash \in Int /\ timestamp \in Int /\ counter_value \in Int
          /\ post_id = Number(<< hash % (Power[MachDigits] \div 2),
                                 timestamp % Power[TsDigits],
                                 counter_value % Power[CtrDigits] >>)
      BY <2>1, Composed
    <3> HIDE DEF hash
    <3> QED BY <3>1, FieldsAreRemainders
  <2> QED BY <2>1 DEF IdIsItsFields
<1> QED BY <1>1, <1>2, <1>3, PTL DEF FormatSpec

(* On one machine, ids with an earlier timestamp, or the same one and a    *)
(* smaller counter, are smaller, as long as both numbers fit their fields. *)
THEOREM IdsGrow == FormatSpec => []IdsAreOrdered
<1>1. FormatInit => FormatInv
  BY FormatInvInit
<1>2. FormatInv /\ [FormatNext]_formatVars => FormatInv'
  BY FormatInvStep
<1>3. FormatInv => IdsAreOrdered
  <2> DEFINE m == Power[MachDigits] \div 2
             T == Power[TsDigits]
             C == Power[CtrDigits]
             Earlier(ts, c) == FromHex(mac_hash \o FitTo(ToHex(ts), TsDigits)
                                                \o FitTo(ToHex(c), CtrDigits)) % (Word \div 2)
  <2> SUFFICES ASSUME FormatInv, post_id # -1, timestamp \in 0 .. T - 1,
                      counter_value \in 0 .. C - 1,
                      NEW ts \in Timestamps \cap (0 .. timestamp),
                      NEW c \in CounterValues \cap (0 .. C - 1)
               PROVE  Earlier(ts, c) < post_id <=> ts < timestamp \/ c < counter_value
    BY DEF IdsAreOrdered
  <2> DEFINE r == FromHex(mac_hash) % m
  <2>1. /\ mac_hash \in Seq(Digit) /\ FromHex(mac_hash) \in Int
        /\ timestamp \in Int /\ counter_value \in Int
        /\ post_id = Number(<< r, timestamp % T, counter_value % C >>)
    BY Composed
  <2>2. m \in Nat \ {0} /\ T \in Nat \ {0} /\ C \in Nat \ {0}
    BY FieldSizes
  <2>3. ts \in Int /\ c \in Int /\ ts <= timestamp /\ ts \in 0 .. T - 1 /\ c \in 0 .. C - 1
    BY <2>1, <2>2
  <2>4. Earlier(ts, c) = Number(<< r, ts % T, c % C >>)
    BY <2>1, <2>3, NumberRead
  <2>5. \A x, y, z : Number(<< x, y, z >>) = Packed(x, y, z, T, C)
    BY DEF Number, Packed
  <2> HIDE DEF m, T, C, Earlier
  <2>6. r \in Int
    <3>1. r \in 0 .. m - 1
      BY <2>1, <2>2, DivMod
    <3> QED BY <2>2, <3>1
  <2> HIDE DEF r
  <2>7. /\ ts % T = ts /\ c % C = c
        /\ timestamp % T = timestamp /\ counter_value % C = counter_value
    BY <2>2, <2>3
  <2>8. Packed(r, ts, c, T, C) < Packed(r, timestamp, counter_value, T, C)
          <=> ts < timestamp \/ c < counter_value
    BY <2>1, <2>2, <2>3, <2>6, PackedOrder
  <2> QED BY <2>1, <2>4, <2>5, <2>7, <2>8
<1> QED BY <1>1, <1>2, <1>3, PTL DEF FormatSpec
=============================================================================
