--------------------------- MODULE RpcStubsProofs ---------------------------
(***************************************************************************)
(* RpcStubs for every number of threads and calls.                         *)
(***************************************************************************)
EXTENDS RpcStubs, SequenceTheorems, WellFoundedInduction, TLAPS

(* Frames on their way: what appending and taking one does.                *)
LEMMA AppendMembers ==
  ASSUME NEW S, NEW s \in Seq(S), NEW x \in S
  PROVE  /\ Append(s, x) \in Seq(S)
         /\ Members(Append(s, x)) = Members(s) \cup {x}
         /\ Distinct(s) /\ x \notin Members(s) => Distinct(Append(s, x))
<1>1. /\ Append(s, x) \in Seq(S) /\ Len(s) \in Nat
      /\ DOMAIN s = 1 .. Len(s) /\ DOMAIN Append(s, x) = 1 .. Len(s) + 1
      /\ \A i \in 1 .. Len(s) + 1 : Append(s, x)[i] = IF i = Len(s) + 1 THEN x ELSE s[i]
  OBVIOUS
<1> DEFINE r == Append(s, x)
<1> HIDE DEF r
<1>2. Members(r) = Members(s) \cup {x}
  BY <1>1 DEF Members, r
<1>3. Distinct(s) /\ x \notin Members(s) => Distinct(r)
  BY <1>1 DEF Distinct, Members, r
<1> QED
  BY <1>1, <1>2, <1>3 DEF r

LEMMA TailMembers ==
  ASSUME NEW S, NEW s \in Seq(S), s # << >>
  PROVE  /\ Head(s) \in S /\ Tail(s) \in Seq(S)
         /\ Members(s) = Members(Tail(s)) \cup {Head(s)}
         /\ Distinct(s) => Distinct(Tail(s)) /\ Head(s) \notin Members(Tail(s))
<1> DEFINE r == Tail(s)
           n == Len(s)
<1>1. /\ r \in Seq(S) /\ n \in Nat \ {0} /\ Head(s) = s[1] /\ s[1] \in S
      /\ DOMAIN s = 1 .. n /\ DOMAIN r = 1 .. n - 1
      /\ \A i \in 1 .. n - 1 : r[i] = s[i + 1]
  BY HeadTailProperties
<1> HIDE DEF r, n
<1>2. Members(r) = { s[i] : i \in 2 .. n }
  <2>1. \A i \in 2 .. n : i - 1 \in 1 .. n - 1 /\ r[i - 1] = s[i]
    BY <1>1
  <2>2. \A j \in 1 .. n - 1 : j + 1 \in 2 .. n /\ r[j] = s[j + 1]
    BY <1>1
  <2>3. Members(r) = { r[j] : j \in 1 .. n - 1 }
    BY <1>1 DEF Members
  <2> QED
    BY <2>1, <2>2, <2>3
<1>3. Members(s) = Members(r) \cup {s[1]}
  <2>1. 1 .. n = {1} \cup 2 .. n
    BY <1>1
  <2>2. Members(s) = { s[i] : i \in 1 .. n }
    BY <1>1 DEF Members
  <2> QED
    BY <1>2, <2>1, <2>2
<1>4. Distinct(s) => Distinct(r) /\ s[1] \notin Members(r)
  <2>1. Distinct(s) => Distinct(r)
    <3> SUFFICES ASSUME Distinct(s), NEW i \in DOMAIN r, NEW j \in DOMAIN r, r[i] = r[j]
                 PROVE  i = j
      BY DEF Distinct
    <3>1. i \in Int /\ j \in Int /\ i + 1 \in DOMAIN s /\ j + 1 \in DOMAIN s
      BY <1>1
    <3>2. s[i + 1] = s[j + 1]
      BY <1>1
    <3>3. i + 1 = j + 1
      BY <3>1, <3>2 DEF Distinct
    <3> QED
      BY <3>1, <3>3
  <2>2. Distinct(s) => s[1] \notin Members(r)
    <3>1. \A i \in 2 .. n : i \in DOMAIN s /\ 1 \in DOMAIN s /\ i # 1
      BY <1>1
    <3>2. Distinct(s) => \A i \in 2 .. n : s[i] # s[1]
      BY <3>1 DEF Distinct
    <3> QED BY <1>2, <3>2
  <2> QED
    BY <2>1, <2>2
<1> QED
  BY <1>1, <1>3, <1>4 DEF r

LEMMA WithoutMembers ==
  ASSUME NEW S, NEW s \in Seq(S), NEW i \in DOMAIN s
  PROVE  /\ Without(s, i) \in Seq(S) /\ s[i] \in S
         /\ Members(s) = Members(Without(s, i)) \cup {s[i]}
         /\ Distinct(s) => Distinct(Without(s, i)) /\ s[i] \notin Members(Without(s, i))
<1> DEFINE r == Without(s, i)
           n == Len(s)
<1>1. n \in Nat /\ DOMAIN s = 1 .. n /\ i \in 1 .. n /\ s[i] \in S
  OBVIOUS
<1>2. /\ r \in Seq(S) /\ DOMAIN r = 1 .. n - 1
      /\ \A k \in 1 .. n - 1 : r[k] = IF k < i THEN s[k] ELSE s[k + 1]
  <2> DEFINE a == SubSeq(s, 1, i - 1)
             b == SubSeq(s, i + 1, n)
  <2>1. /\ a \in Seq(S) /\ Len(a) = i - 1
        /\ \A k \in 1 .. i - 1 : a[k] = s[k]
    BY <1>1, SubSeqProperties
  <2>2. /\ b \in Seq(S) /\ Len(b) = n - i
        /\ \A k \in 1 .. n - i : b[k] = s[k + i]
    <3>1. \A k \in i + 1 .. n : s[k] \in S
      BY <1>1
    <3>2. /\ b \in Seq(S) /\ Len(b) = (IF i + 1 <= n THEN n - (i + 1) + 1 ELSE 0)
          /\ \A k \in 1 .. n - (i + 1) + 1 : b[k] = s[(i + 1) + k - 1]
      BY <1>1, <3>1, SubSeqProperties
    <3> HIDE DEF b, n
    <3>3. n \in Int /\ i \in Int /\ i <= n
      BY <1>1
    <3>4. n - (i + 1) + 1 = n - i
      BY <3>3
    <3>5. ~ (i + 1 <= n) => n - i = 0
      BY <3>3
    <3>6. \A k \in 1 .. n - i : (i + 1) + k - 1 = k + i
      BY <3>3
    <3> QED
      BY <3>2, <3>4, <3>5, <3>6
  <2>3. r = a \o b
    BY DEF Without
  <2> HIDE DEF a, b, r, n
  <2>4. /\ r \in Seq(S) /\ Len(r) = Len(a) + Len(b)
        /\ \A k \in 1 .. Len(a) + Len(b) :
              r[k] = IF k <= Len(a) THEN a[k] ELSE b[k - Len(a)]
    BY <2>1, <2>2, <2>3, ConcatProperties
  <2>5. Len(r) = n - 1
    BY <1>1, <2>1, <2>2, <2>4
  <2>6. ASSUME NEW k \in 1 .. n - 1
        PROVE  r[k] = IF k < i THEN s[k] ELSE s[k + 1]
    <3>1. CASE k < i
      BY <1>1, <2>1, <2>2, <2>4, <3>1
    <3>2. CASE ~ (k < i)
      <4>1. /\ k \in Int /\ i \in Int /\ n \in Int
            /\ k - (i - 1) \in 1 .. n - i /\ (k - (i - 1)) + i = k + 1
        BY <1>1, <3>2
      <4>2. Len(a) = i - 1 /\ Len(b) = n - i /\ ~ (k <= i - 1)
        BY <2>1, <2>2, <3>2, <4>1
      <4>3. k \in 1 .. Len(a) + Len(b)
        <5>1. (i - 1) + (n - i) = n - 1
          BY <4>1
        <5>2. Len(a) + Len(b) = n - 1
          BY <4>2, <5>1
        <5> QED BY <5>2
      <4>4. r[k] = b[k - (i - 1)]
        BY <2>4, <4>2, <4>3
      <4>5. b[k - (i - 1)] = s[k + 1]
        BY <2>2, <4>1
      <4> QED
        BY <3>2, <4>4, <4>5
    <3> QED
      BY <3>1, <3>2
  <2> QED
    BY <2>4, <2>5, <2>6
<1> HIDE DEF r, n
<1>3. Members(r) = { s[k] : k \in (1 .. n) \ {i} }
  <2>1. \A k \in (1 .. n) \ {i} : \E j \in 1 .. n - 1 : r[j] = s[k]
    <3> TAKE k \in (1 .. n) \ {i}
    <3>1. CASE k < i
      BY <1>1, <1>2, <3>1
    <3>2. CASE k > i
      <4>1. k - 1 \in 1 .. n - 1 /\ r[k - 1] = s[k]
        BY <1>1, <1>2, <3>2
      <4> QED
        BY <4>1
    <3> QED
      BY <1>1, <3>1, <3>2
  <2>2. \A j \in 1 .. n - 1 : \E k \in (1 .. n) \ {i} : r[j] = s[k]
    <3> TAKE j \in 1 .. n - 1
    <3>1. CASE j < i
      BY <1>1, <1>2, <3>1
    <3>2. CASE ~ (j < i)
      BY <1>1, <1>2, <3>2
    <3> QED
      BY <3>1, <3>2
  <2> QED
    BY <1>1, <1>2, <2>1, <2>2 DEF Members
<1>4. Members(s) = Members(r) \cup {s[i]}
  BY <1>1, <1>3 DEF Members
<1>5. Distinct(s) => Distinct(r)
  <2>1. SUFFICES ASSUME Distinct(s), NEW j \in 1 .. n - 1, NEW k \in 1 .. n - 1, r[j] = r[k]
                 PROVE  j = k
    BY <1>2 DEF Distinct
  <2> DEFINE pos(l) == IF l < i THEN l ELSE l + 1
  <2>2. \A l \in 1 .. n - 1 : pos(l) \in 1 .. n /\ r[l] = s[pos(l)]
    BY <1>1, <1>2
  <2>3. pos(j) \in DOMAIN s /\ pos(k) \in DOMAIN s /\ s[pos(j)] = s[pos(k)]
    BY <1>1, <2>1, <2>2
  <2>4. pos(j) = pos(k)
    <3> HIDE DEF pos
    <3> QED BY <2>1, <2>3 DEF Distinct
  <2> QED
    BY <1>1, <2>4
<1>6. Distinct(s) => s[i] \notin Members(r)
  BY <1>1, <1>3 DEF Distinct
<1> QED
  BY <1>1, <1>2, <1>4, <1>5, <1>6 DEF r

LEMMA FirstMembers ==
  ASSUME NEW S, NEW s \in Seq(S), NEW n \in 0 .. Len(s)
  PROVE  /\ SubSeq(s, 1, n) \in Seq(S)
         /\ Members(SubSeq(s, 1, n)) \subseteq Members(s)
         /\ Distinct(s) => Distinct(SubSeq(s, 1, n))
<1> DEFINE r == SubSeq(s, 1, n)
<1>1. /\ r \in Seq(S) /\ DOMAIN r = 1 .. n /\ DOMAIN s = 1 .. Len(s) /\ Len(s) \in Nat
      /\ \A k \in 1 .. n : r[k] = s[k]
  OBVIOUS
<1> HIDE DEF r
<1>2. Members(r) \subseteq Members(s)
  BY <1>1 DEF Members
<1>3. Distinct(s) => Distinct(r)
  BY <1>1 DEF Distinct
<1> QED
  BY <1>1, <1>2, <1>3 DEF r

-----------------------------------------------------------------------------
(* Thread t moves to l, and the threads that wait on a monitor of S are    *)
(* woken.                                                                  *)
Moves(t, l, S) ==
  /\ pc' \in [Threads -> PC] /\ pc'[t] = l
  /\ \A u \in Threads \ {t} :
        pc'[u] = IF pc[u] = "waiting" /\ seqid[u] \in S THEN "woken" ELSE pc[u]

LEMMA GotoMoves ==
  ASSUME TypeOK, NEW t \in Threads, NEW l \in PC, Goto(t, l)
  PROVE  Moves(t, l, {})
BY DEF TypeOK, Goto, Moves

LEMMA NotifiedMoves ==
  ASSUME TypeOK, NEW t \in Threads, NEW l \in PC \ {"waiting"}, NEW S,
         pc' = Notified([pc EXCEPT ![t] = l], S)
  PROVE  Moves(t, l, S)
<1>1. pc \in [Threads -> PC] /\ "woken" \in PC
  BY DEF TypeOK, PC
<1>2. \A u \in Threads :
        pc'[u] = IF [pc EXCEPT ![t] = l][u] = "waiting" /\ seqid[u] \in S
                 THEN "woken" ELSE [pc EXCEPT ![t] = l][u]
  BY DEF Notified
<1>3. pc'[t] = l /\ \A u \in Threads \ {t} :
        pc'[u] = IF pc[u] = "waiting" /\ seqid[u] \in S THEN "woken" ELSE pc[u]
  BY <1>1, <1>2
<1>4. pc' = [u \in Threads |-> pc'[u]]
  BY DEF Notified
<1>5. \A u \in Threads : pc'[u] \in PC
  BY <1>1, <1>3
<1> QED
  BY <1>3, <1>4, <1>5 DEF Moves

-----------------------------------------------------------------------------
(* A thread goes on with its call.                                         *)
LEMMA GoingOnKeepsCalls ==
  ASSUME CallsOwned, NEW t \in Threads, NEW l, NEW S, Moves(t, l, S), pc[t] # "idle", l # "idle",
         l \in {"lockwrite", "write"} => pc[t] \in {"lockwrite", "write"},
         UNCHANGED << seqid, monitors, nextseqid, stop, result, outcome >>
  PROVE  CallsOwned'
<1>1. \A u \in Threads : /\ Active(u)' <=> Active(u)
                         /\ Sent(u) => Sent(u)'
  BY DEF Moves, Active, Sent
<1> QED
  BY <1>1 DEF CallsOwned

(* A call comes back.                                                      *)
LEMMA ReturnKeepsCalls ==
  ASSUME TypeOK, CallsOwned, NEW t \in Threads, NEW S, Moves(t, "idle", S), pc[t] # "idle", NEW x,
         result' = [result EXCEPT ![seqid[t]] = x], UNCHANGED << seqid, nextseqid, outcome >>,
         \/ monitors' = monitors \ {seqid[t]} /\ (stop => stop')
         \/ monitors' = monitors /\ stop'
  PROVE  CallsOwned'
<1>1. \A u \in Threads : Active(u)' <=> Active(u) /\ u # t
  BY DEF Moves, Active
<1>2. \A u \in Threads \ {t} : Sent(u)' <=> Sent(u)
  BY DEF Moves, Sent
<1>3. seqid[t] \in 1 .. nextseqid - 1 /\ nextseqid \in Int
  <2>1. seqid[t] \in 1 .. nextseqid - 1
    BY DEF CallsOwned, Active
  <2>2. nextseqid \in Int
    BY StubAssumption DEF TypeOK
  <2> QED
    BY <2>1, <2>2
<1>4. \A u \in Threads : Active(u)' => seqid[u] # seqid[t]
  BY <1>1 DEF CallsOwned, Active
<1>5. /\ \A c \in Calls \ {seqid[t]} : result'[c] = result[c]
      /\ seqid \in [Threads -> Calls \cup {0}] /\ monitors \subseteq Calls
  BY DEF TypeOK
<1>6. \A u \in Threads : Active(u)' =>
        /\ seqid'[u] \in monitors' /\ result'[seqid'[u]] = "none"
        /\ ~ Sent(u)' => outcome'[seqid'[u]] = "none"
  BY <1>1, <1>2, <1>4, <1>5 DEF CallsOwned
<1>7. \A u, v \in Threads : Active(u)' /\ Active(v)' /\ seqid'[u] = seqid'[v] => u = v
  BY <1>1 DEF CallsOwned
<1>8. ASSUME ~ stop', NEW s \in monitors'
      PROVE  \E u \in Threads : Active(u)' /\ seqid'[u] = s
  <2>1. ~ stop /\ s \in monitors /\ s # seqid[t]
    BY <1>8, <1>5 DEF TypeOK
  <2>2. PICK u \in Threads : Active(u) /\ seqid[u] = s
    BY <2>1 DEF CallsOwned
  <2> QED
    BY <1>1, <2>1, <2>2
<1>9. \A c \in Calls : c >= nextseqid' => outcome'[c] = "none" /\ result'[c] = "none"
  BY <1>3, <1>5 DEF CallsOwned
<1> QED
  BY <1>6, <1>7, <1>8, <1>9 DEF CallsOwned

(* The wire is left alone.                                                 *)
LEMMA WireKept ==
  ASSUME OnePlace, UNCHANGED << requests, replies, frame, outcome >>
  PROVE  OnePlace'
BY DEF OnePlace, Answered, Members, Distinct

(* Whoever was expected to come for an answer still is.                    *)
LEMMA ExpectedKept ==
  ASSUME Expected, NEW t \in Threads, NEW l, NEW S, Moves(t, l, S),
         UNCHANGED << requests, replies, frame, seqid, stop >>,
         Sent(t) => l \notin {"idle", "lockwrite", "write"},
         l \in {"read", "match"} => ~ stop \/ pc[t] \in {"read", "match"}
  PROVE  Expected'
<1>1. \A u \in Threads : Sent(u) => Sent(u)'
  BY DEF Moves, Sent
<1>2. (\E u \in Threads : pc'[u] \in {"read", "match"}) =>
         ~ stop \/ \E u \in Threads : pc[u] \in {"read", "match"}
  BY DEF Moves
<1>3. Members(requests)' = Members(requests) /\ Answered' = Answered
  BY DEF Members, Answered
<1> QED
  BY <1>1, <1>2, <1>3 DEF Expected

-----------------------------------------------------------------------------
LEMMA StubInit == Init => StubInv
<1> SUFFICES ASSUME Init PROVE StubInv
  OBVIOUS
<1>1. TypeOK
  <2>1. pc \in [Threads -> PC]
    BY DEF Init, PC
  <2>2. nextseqid \in 1 .. MaxCalls + 1
    BY StubAssumption DEF Init
  <2>3. requests \in Seq(Calls) /\ replies \in Seq(Calls)
    BY DEF Init
  <2> QED
    BY <2>1, <2>2, <2>3 DEF Init, TypeOK, Kinds
<1>2. Members(requests) = {} /\ Members(replies) = {} /\ Answered = {}
  BY DEF Init, Members, Answered
<1>3. CallsOwned /\ ReadersHold
  BY StubAssumption DEF Init, CallsOwned, ReadersHold, Active, Reading
<1>4. OnePlace /\ Expected /\ StopsWhenBroken
  BY <1>2 DEF Init, OnePlace, Expected, StopsWhenBroken, Distinct
<1>5. HandedOver /\ SomebodyGoes
  BY DEF Init, HandedOver, SomebodyGoes, Active
<1> QED
  BY <1>1, <1>3, <1>4, <1>5 DEF StubInv

-----------------------------------------------------------------------------
LEMMA GenerateKeeps ==
  ASSUME StubInv, NEW t \in Threads, GenerateSeqId(t)
  PROVE  StubInv'
<1>1. /\ pc[t] = "idle" /\ nextseqid <= MaxCalls /\ ~ stop
      /\ seqid' = [seqid EXCEPT ![t] = nextseqid]
      /\ monitors' = monitors \cup {nextseqid} /\ nextseqid' = nextseqid + 1
      /\ Goto(t, "lockwrite")
      /\ UNCHANGED << header, pending, stop, wakeup, readMutex, writeMutex, requests, replies,
                      frame, broken, outcome, result >>
  BY DEF GenerateSeqId, wire
<1>2. TypeOK /\ nextseqid \in Calls /\ "lockwrite" \in PC /\ nextseqid \in Int /\ MaxCalls \in Nat
  BY <1>1, StubAssumption DEF StubInv, TypeOK, Calls, PC
<1>3. /\ pc' \in [Threads -> PC] /\ pc'[t] = "lockwrite"
      /\ \A u \in Threads \ {t} : pc'[u] = pc[u] /\ seqid'[u] = seqid[u]
      /\ seqid'[t] = nextseqid /\ seqid' \in [Threads -> Calls \cup {0}]
  BY <1>1, <1>2 DEF TypeOK, Goto
<1>4. TypeOK'
  <2>1. nextseqid' \in 1 .. MaxCalls + 1 /\ monitors' \subseteq Calls
    BY <1>1, <1>2 DEF TypeOK
  <2> QED
    BY <1>1, <1>2, <1>3, <2>1 DEF TypeOK
<1>5. CallsOwned'
  <2>1. /\ monitors \subseteq 1 .. nextseqid - 1 /\ nextseqid \notin monitors
        /\ outcome[nextseqid] = "none" /\ result[nextseqid] = "none"
    BY <1>2 DEF StubInv, CallsOwned
  <2>2. \A u \in Threads : Active(u)' <=> Active(u) \/ u = t
    BY <1>1, <1>3 DEF Active
  <2>3. \A u \in Threads \ {t} : (Sent(u)' <=> Sent(u)) /\ (Active(u) => seqid[u] # nextseqid)
    BY <1>3, <2>1 DEF Sent, StubInv, CallsOwned
  <2>4. \A u \in Threads : Active(u)' =>
          /\ seqid'[u] \in monitors' /\ result'[seqid'[u]] = "none"
          /\ ~ Sent(u)' => outcome'[seqid'[u]] = "none"
    BY <1>1, <1>3, <2>1, <2>2, <2>3 DEF StubInv, CallsOwned
  <2>5. \A u, v \in Threads : Active(u)' /\ Active(v)' /\ seqid'[u] = seqid'[v] => u = v
    BY <1>3, <2>2, <2>3 DEF StubInv, CallsOwned
  <2>6. monitors' \subseteq 1 .. nextseqid' - 1
    <3>1. nextseqid' - 1 = nextseqid /\ 1 .. nextseqid - 1 \subseteq 1 .. nextseqid
      BY <1>1, <1>2
    <3>2. nextseqid \in 1 .. nextseqid
      BY <1>2 DEF Calls
    <3> QED
      BY <1>1, <2>1, <3>1, <3>2
  <2>7. \A s \in monitors' : \E u \in Threads : Active(u)' /\ seqid'[u] = s
    BY <1>1, <1>3, <2>2 DEF StubInv, CallsOwned, Active
  <2>8. \A c \in Calls : c >= nextseqid' => outcome'[c] = "none" /\ result'[c] = "none"
    BY <1>1, <1>2 DEF StubInv, CallsOwned, Calls
  <2> QED
    BY <2>4, <2>5, <2>6, <2>7, <2>8 DEF CallsOwned
<1>6. ReadersHold'
  BY <1>1, <1>3 DEF StubInv, ReadersHold, Reading
<1>7. OnePlace' /\ StopsWhenBroken'
  BY <1>1, WireKept DEF StubInv, StopsWhenBroken
<1>8. Expected'
  <2>1. Members(requests)' = Members(requests) /\ Answered' = Answered
    BY <1>1 DEF Members, Answered
  <2>2. \A u \in Threads : Sent(u) => Sent(u)' /\ seqid'[u] = seqid[u]
    BY <1>1, <1>3 DEF Sent
  <2> QED
    BY <1>1, <2>1, <2>2 DEF StubInv, Expected
<1>9. HandedOver'
  BY <1>1, <1>3 DEF StubInv, HandedOver
<1>10. SomebodyGoes'
  BY <1>1, <1>3 DEF StubInv, SomebodyGoes, Goes
<1> QED
  BY <1>4, <1>5, <1>6, <1>7, <1>8, <1>9, <1>10 DEF StubInv

(* A mutex is locked, or the call written.                                 *)
LEMMA LockWriteKeeps ==
  ASSUME StubInv, NEW t \in Threads, LockWrite(t)
  PROVE  StubInv'
<1>1. /\ pc[t] = "lockwrite" /\ writeMutex' = t /\ Goto(t, "write")
      /\ UNCHANGED << seqid, header, nextseqid, monitors, pending, stop, wakeup, readMutex,
                      requests, replies, frame, broken, outcome, result >>
  BY DEF LockWrite, wire
<1>2. TypeOK /\ Moves(t, "write", {})
  BY <1>1, GotoMoves DEF StubInv, PC
<1>3. TypeOK'
  BY <1>1, <1>2 DEF TypeOK, Moves
<1>4. CallsOwned'
  BY <1>1, <1>2, GoingOnKeepsCalls DEF StubInv
<1>5. OnePlace' /\ StopsWhenBroken'
  BY <1>1, WireKept DEF StubInv, StopsWhenBroken
<1>6. Expected'
  BY <1>1, <1>2, ExpectedKept DEF StubInv, Sent
<1>7. ReadersHold' /\ HandedOver'
  BY <1>1, <1>2 DEF StubInv, ReadersHold, Reading, HandedOver, Moves
<1>8. SomebodyGoes'
  BY <1>1, <1>2 DEF StubInv, SomebodyGoes, Goes, Moves
<1> QED
  BY <1>3, <1>4, <1>5, <1>6, <1>7, <1>8 DEF StubInv

LEMMA WriteKeeps ==
  ASSUME StubInv, NEW t \in Threads, Write(t)
  PROVE  StubInv'
<1>1. /\ pc[t] = "write" /\ writeMutex' = None /\ Goto(t, "lockread")
      /\ requests' = (IF broken THEN requests ELSE Append(requests, seqid[t]))
      /\ UNCHANGED << seqid, header, nextseqid, monitors, pending, stop, wakeup, readMutex,
                      replies, frame, broken, outcome, result >>
  BY DEF Write
<1>2. /\ TypeOK /\ Moves(t, "lockread", {}) /\ requests \in Seq(Calls)
      /\ seqid[t] \in Calls /\ outcome[seqid[t]] = "none"
  <2>1. TypeOK /\ Moves(t, "lockread", {})
    BY <1>1, GotoMoves DEF StubInv, PC
  <2>2. seqid[t] \in monitors /\ outcome[seqid[t]] = "none"
    BY <1>1 DEF StubInv, CallsOwned, Active, Sent
  <2> QED
    BY <2>1, <2>2 DEF TypeOK
<1>3. /\ ~ broken => ~ stop
      /\ ~ broken => seqid[t] \notin Members(requests)
  <2> SUFFICES ASSUME ~ broken PROVE ~ stop /\ seqid[t] \notin Members(requests)
    OBVIOUS
  <2>1. ~ stop
    BY DEF StubInv, StopsWhenBroken
  <2>2. \A c \in Members(requests) : \E u \in Threads : Sent(u) /\ seqid[u] = c
    BY <2>1 DEF StubInv, Expected
  <2>3. ~ Sent(t) /\ \A u \in Threads : Sent(u) => Active(u)
    BY <1>1 DEF Sent, Active
  <2> QED
    BY <1>1, <2>1, <2>2, <2>3 DEF StubInv, CallsOwned, Active
<1>4. /\ requests' \in Seq(Calls)
      /\ Members(requests') = Members(requests) \cup (IF broken THEN {} ELSE {seqid[t]})
      /\ Distinct(requests) => Distinct(requests')
  BY <1>1, <1>2, <1>3, AppendMembers
<1>5. TypeOK'
  BY <1>1, <1>2, <1>4 DEF TypeOK, Moves
<1>6. CallsOwned'
  BY <1>1, <1>2, GoingOnKeepsCalls DEF StubInv
<1>7. Members(requests)' = Members(requests') /\ Members(replies)' = Members(replies)
      /\ Answered' = Answered /\ Distinct(requests)' = Distinct(requests')
      /\ Distinct(replies)' = Distinct(replies)
  BY <1>1 DEF Members, Answered, Distinct
<1>8. OnePlace'
  BY <1>1, <1>2, <1>4, <1>7 DEF StubInv, OnePlace
<1>9. Expected'
  <2>1. \A u \in Threads : Sent(u)' <=> Sent(u) \/ u = t
    BY <1>1, <1>2 DEF Moves, Sent
  <2>2. (\E u \in Threads : pc'[u] \in {"read", "match"}) =>
          \E u \in Threads : pc[u] \in {"read", "match"}
    BY <1>1, <1>2 DEF Moves
  <2>3. Members(requests)' \cup Answered' \subseteq Members(requests) \cup Answered \cup {seqid[t]}
    BY <1>4, <1>7
  <2> QED
    BY <1>1, <2>1, <2>2, <2>3 DEF StubInv, Expected
<1>10. StopsWhenBroken'
  BY <1>1 DEF StubInv, StopsWhenBroken
<1>11. ReadersHold' /\ HandedOver'
  BY <1>1, <1>2 DEF StubInv, ReadersHold, Reading, HandedOver, Moves
<1>12. SomebodyGoes'
  BY <1>1, <1>2 DEF StubInv, SomebodyGoes, Goes, Moves
<1> QED
  BY <1>5, <1>6, <1>8, <1>9, <1>10, <1>11, <1>12 DEF StubInv

LEMMA LockReadKeeps ==
  ASSUME StubInv, NEW t \in Threads, LockRead(t)
  PROVE  StubInv'
<1> DEFINE l == IF pc[t] = "lockread" THEN "pending" ELSE "check"
<1>1. /\ pc[t] \in {"lockread", "woken"} /\ readMutex = None /\ readMutex' = t /\ Goto(t, l)
      /\ UNCHANGED << seqid, header, nextseqid, monitors, pending, stop, wakeup, writeMutex,
                      requests, replies, frame, broken, outcome, result >>
  BY DEF LockRead, wire
<1>2. TypeOK /\ Moves(t, l, {})
  <2>1. l \in PC
    BY DEF PC
  <2> QED
    BY <1>1, <2>1, GotoMoves DEF StubInv
<1>3. TypeOK'
  BY <1>1, <1>2 DEF TypeOK, Moves
<1>4. CallsOwned'
  BY <1>1, <1>2, GoingOnKeepsCalls DEF StubInv
<1>5. OnePlace' /\ StopsWhenBroken'
  BY <1>1, WireKept DEF StubInv, StopsWhenBroken
<1>6. Expected'
  BY <1>1, <1>2, ExpectedKept DEF StubInv
<1>7. ReadersHold' /\ HandedOver'
  BY <1>1, <1>2, StubAssumption DEF StubInv, ReadersHold, Reading, HandedOver, Moves
<1>8. SomebodyGoes'
  <2>1. \A u \in Threads : /\ Goes(u) => Goes(u)'
                           /\ Called(u) => Called(u)'
    BY <1>1, <1>2 DEF Moves, Goes, Called
  <2>2. \A u \in Threads : /\ Active(u)' <=> Active(u)
                           /\ pc'[u] = "waiting" => pc[u] = "waiting"
    BY <1>1, <1>2 DEF Moves, Active
  <2> QED
    BY <1>1, <2>1, <2>2 DEF StubInv, SomebodyGoes
<1> QED
  BY <1>3, <1>4, <1>5, <1>6, <1>7, <1>8 DEF StubInv

-----------------------------------------------------------------------------
(* While t has the read mutex, no other thread reads.                      *)
LEMMA OneReader ==
  ASSUME ReadersHold, NEW t \in Threads, Reading(t)
  PROVE  \A u \in Threads \ {t} : ~ Reading(u)
BY DEF ReadersHold

LEMMA GetPendingKeeps ==
  ASSUME StubInv, NEW t \in Threads, GetPending(t)
  PROVE  StubInv'
<1> DEFINE l == IF pending = None THEN "read" ELSE "match"
<1>1. /\ pc[t] = "pending" /\ ~ stop /\ Goto(t, l)
      /\ wakeup' = FALSE /\ pending' = None /\ header' = [header EXCEPT ![t] = pending]
      /\ UNCHANGED << seqid, nextseqid, monitors, stop, readMutex, writeMutex,
                      requests, replies, frame, broken, outcome, result >>
  BY DEF GetPending, wire
<1>2. TypeOK /\ Moves(t, l, {})
  <2>1. l \in PC
    BY DEF PC
  <2> QED
    BY <1>1, <2>1, GotoMoves DEF StubInv
<1>3. TypeOK'
  BY <1>1, <1>2 DEF TypeOK, Moves
<1>4. CallsOwned'
  BY <1>1, <1>2, GoingOnKeepsCalls DEF StubInv
<1>5. OnePlace' /\ StopsWhenBroken'
  BY <1>1, WireKept DEF StubInv, StopsWhenBroken
<1>6. Expected'
  BY <1>1, <1>2, ExpectedKept DEF StubInv
<1>7. ReadersHold'
  BY <1>1, <1>2 DEF StubInv, ReadersHold, Reading, Moves
<1>8. HandedOver'
  <2>1. \A u \in Threads \ {t} : pc[u] \notin {"read", "match"} /\ pc'[u] \notin {"read", "match"}
    BY <1>1, <1>2, OneReader DEF StubInv, Reading, Moves
  <2>2. /\ pending # None => pending = frame
        /\ frame # None => pending = frame
    BY <1>1, <2>1 DEF StubInv, HandedOver
  <2>3. pc'[t] = l /\ header'[t] = pending
    BY <1>1, <1>2 DEF Moves, TypeOK
  <2> QED
    BY <1>1, <2>1, <2>2, <2>3 DEF HandedOver
<1>9. SomebodyGoes'
  BY <1>1, <1>2 DEF StubInv, SomebodyGoes, Goes, Moves
<1> QED
  BY <1>3, <1>4, <1>5, <1>6, <1>7, <1>8, <1>9 DEF StubInv

LEMMA WaitForWorkKeeps ==
  ASSUME StubInv, NEW t \in Threads, WaitForWork(t)
  PROVE  StubInv'
<1> DEFINE l == IF wakeup \/ pending = seqid[t] THEN "pending" ELSE "waiting"
<1>1. /\ pc[t] = "check" /\ ~ stop /\ Goto(t, l)
      /\ readMutex' = (IF l = "pending" THEN readMutex ELSE None)
      /\ UNCHANGED << seqid, header, nextseqid, monitors, pending, stop, wakeup, writeMutex,
                      requests, replies, frame, broken, outcome, result >>
  BY DEF WaitForWork, wire
<1>2. TypeOK /\ Moves(t, l, {})
  <2>1. l \in PC
    BY DEF PC
  <2> QED
    BY <1>1, <2>1, GotoMoves DEF StubInv
<1>3. TypeOK'
  BY <1>1, <1>2 DEF TypeOK, Moves
<1>4. CallsOwned'
  BY <1>1, <1>2, GoingOnKeepsCalls DEF StubInv
<1>5. OnePlace' /\ StopsWhenBroken'
  BY <1>1, WireKept DEF StubInv, StopsWhenBroken
<1>6. Expected'
  BY <1>1, <1>2, ExpectedKept DEF StubInv
<1>7. ReadersHold'
  BY <1>1, <1>2, StubAssumption DEF StubInv, ReadersHold, Reading, Moves
<1>8. HandedOver'
  BY <1>1, <1>2 DEF StubInv, HandedOver, Moves
<1>9. SomebodyGoes'
  <2>1. PICK v \in Threads : Goes(v) \/ (Called(v) /\ (wakeup \/ pending = seqid[v]))
    BY <1>1 DEF StubInv, SomebodyGoes, Active
  <2>2. CASE v = t
    BY <1>1, <1>2, <2>1, <2>2 DEF SomebodyGoes, Goes, Called, Moves
  <2>3. CASE v # t
    BY <1>1, <1>2, <2>1, <2>3 DEF SomebodyGoes, Goes, Called, Moves
  <2> QED
    BY <2>2, <2>3
<1> QED
  BY <1>3, <1>4, <1>5, <1>6, <1>7, <1>8, <1>9 DEF StubInv

-----------------------------------------------------------------------------
(* The connection is dead: who finds it so tells all that wait.            *)
LEMMA ThrowKeeps ==
  ASSUME StubInv, NEW t \in Threads, pc[t] \in {"pending", "read", "check"}, broken, Throw(t),
         UNCHANGED << pending, wakeup >>
  PROVE  StubInv'
<1>1. /\ monitors' = monitors \ {seqid[t]} /\ stop' = TRUE /\ readMutex' = None
      /\ result' = [result EXCEPT ![seqid[t]] = "failed"]
      /\ header' = [header EXCEPT ![t] = None]
      /\ pc' = Notified([pc EXCEPT ![t] = "idle"], monitors')
      /\ UNCHANGED << seqid, nextseqid, pending, wakeup, writeMutex, requests, replies, frame,
                      broken, outcome >>
  BY DEF Throw
<1>2. TypeOK /\ Moves(t, "idle", monitors')
  BY <1>1, NotifiedMoves DEF StubInv, PC
<1>3. TypeOK'
  BY <1>1, <1>2 DEF TypeOK, Moves
<1>4. CallsOwned'
  BY <1>1, <1>2, ReturnKeepsCalls DEF StubInv
<1>5. OnePlace' /\ StopsWhenBroken'
  BY <1>1, WireKept DEF StubInv, StopsWhenBroken
<1>6. Reading(t) /\ \A u \in Threads \ {t} : ~ Reading(u) /\ ~ Reading(u)'
  BY <1>2, OneReader DEF StubInv, Reading, Moves
<1>7. \A u \in Threads : ~ Reading(u)'
  BY <1>2, <1>6 DEF Moves, Reading
<1>8. ReadersHold'
  BY <1>1, <1>7, StubAssumption DEF ReadersHold
<1>9. Expected'
  BY <1>1, <1>7 DEF Expected, Reading
<1>10. HandedOver'
  <2>1. \A u \in Threads : pc[u] # "match"
    BY <1>6 DEF Reading
  <2> QED
    BY <1>1, <1>7, <2>1 DEF StubInv, HandedOver, Reading
<1>11. SomebodyGoes'
  <2>1. \A u \in Threads \ {t} : pc[u] = "waiting" => seqid[u] \in monitors'
    BY <1>1, <1>6 DEF StubInv, CallsOwned, Active, Reading
  <2>2. \A u \in Threads : pc'[u] # "waiting"
    BY <1>2, <2>1 DEF Moves
  <2> QED
    BY <1>1, <2>2 DEF SomebodyGoes
<1> QED
  BY <1>3, <1>4, <1>5, <1>8, <1>9, <1>10, <1>11 DEF StubInv

LEMMA WriteFailsKeeps ==
  ASSUME StubInv, NEW t \in Threads, WriteFails(t)
  PROVE  StubInv'
<1>1. /\ pc[t] = "write" /\ broken /\ stop' = TRUE /\ writeMutex' = None
      /\ result' = [result EXCEPT ![seqid[t]] = "failed"]
      /\ pc' = Notified([pc EXCEPT ![t] = "idle"], monitors)
      /\ UNCHANGED << seqid, header, nextseqid, monitors, pending, wakeup, readMutex,
                      requests, replies, frame, broken, outcome >>
  BY DEF WriteFails, wire
<1>2. TypeOK /\ Moves(t, "idle", monitors)
  BY <1>1, NotifiedMoves DEF StubInv, PC
<1>3. TypeOK'
  BY <1>1, <1>2 DEF TypeOK, Moves
<1>4. CallsOwned'
  BY <1>1, <1>2, ReturnKeepsCalls DEF StubInv
<1>5. OnePlace' /\ StopsWhenBroken'
  BY <1>1, WireKept DEF StubInv, StopsWhenBroken
<1>6. /\ \A u \in Threads : Reading(u)' <=> Reading(u)
      /\ \A u \in Threads : pc'[u] \in {"read", "match"} <=> pc[u] \in {"read", "match"}
      /\ \A u \in Threads : Sent(u) => Sent(u)'
      /\ \A u \in Threads : pc'[u] \in {"read", "match"} => pc'[u] = pc[u]
      /\ \A u \in Threads : pc[u] = "match" => pc'[u] = "match"
  BY <1>1, <1>2 DEF Moves, Reading, Sent
<1>7. ReadersHold' /\ HandedOver'
  BY <1>1, <1>6 DEF StubInv, ReadersHold, HandedOver
<1>8. Expected'
  <2>1. Members(requests)' = Members(requests) /\ Answered' = Answered
    BY <1>1 DEF Members, Answered
  <2> QED
    BY <1>1, <1>6, <2>1 DEF StubInv, Expected
<1>9. SomebodyGoes'
  <2>1. \A u \in Threads \ {t} : pc[u] = "waiting" => seqid[u] \in monitors
    BY DEF StubInv, CallsOwned, Active
  <2>2. \A u \in Threads : pc'[u] # "waiting"
    BY <1>2, <2>1 DEF Moves
  <2> QED
    BY <1>1, <2>2 DEF SomebodyGoes
<1> QED
  BY <1>3, <1>4, <1>5, <1>7, <1>8, <1>9 DEF StubInv

-----------------------------------------------------------------------------
(* A header is read: its frame is the one whose body is left.              *)
LEMMA ReadKeeps ==
  ASSUME StubInv, NEW t \in Threads, ReadMessageBegin(t)
  PROVE  StubInv'
<1>1. /\ pc[t] = "read" /\ replies # << >> /\ Goto(t, "match")
      /\ frame' = Head(replies) /\ replies' = Tail(replies)
      /\ header' = [header EXCEPT ![t] = Head(replies)]
      /\ UNCHANGED << seqid, nextseqid, monitors, pending, stop, wakeup, readMutex, writeMutex,
                      requests, broken, outcome, result >>
  BY DEF ReadMessageBegin, sync
<1>2. TypeOK /\ Moves(t, "match", {}) /\ replies \in Seq(Calls)
  <2>1. TypeOK /\ Moves(t, "match", {})
    BY <1>1, GotoMoves DEF StubInv, PC
  <2> QED
    BY <2>1 DEF TypeOK
<1>3. /\ frame' \in Calls /\ replies' \in Seq(Calls)
      /\ Members(replies) = Members(replies') \cup {frame'}
      /\ Distinct(replies') /\ frame' \notin Members(replies')
  BY <1>1, <1>2, TailMembers DEF StubInv, OnePlace
<1>4. TypeOK'
  BY <1>1, <1>2, <1>3 DEF TypeOK, Moves
<1>5. CallsOwned'
  BY <1>1, <1>2, GoingOnKeepsCalls DEF StubInv
<1>6. frame = None /\ pending = None /\ frame' # None
  BY <1>1, <1>3, StubAssumption DEF StubInv, HandedOver, Calls
<1>7. /\ Members(requests)' = Members(requests) /\ Members(replies)' = Members(replies')
      /\ Distinct(requests)' = Distinct(requests) /\ Distinct(replies)' = Distinct(replies')
  BY <1>1 DEF Members, Distinct
<1>8. Answered' = Answered
  BY <1>3, <1>6, <1>7 DEF Answered
<1>9. OnePlace'
  BY <1>1, <1>3, <1>7, <1>8 DEF StubInv, OnePlace
<1>10. Expected'
  <2>1. \A u \in Threads : Sent(u) => Sent(u)'
    BY <1>2 DEF Moves, Sent
  <2> QED
    BY <1>1, <1>7, <1>8, <2>1 DEF StubInv, Expected
<1>11. ReadersHold' /\ StopsWhenBroken'
  BY <1>1, <1>2 DEF StubInv, ReadersHold, Reading, StopsWhenBroken, Moves
<1>12. HandedOver'
  <2>1. \A u \in Threads \ {t} : pc'[u] \notin {"read", "match"}
    BY <1>1, <1>2, OneReader DEF StubInv, Reading, Moves
  <2>2. pc'[t] = "match" /\ header'[t] = frame'
    BY <1>1, <1>2 DEF Moves, TypeOK
  <2> QED
    BY <1>1, <1>6, <2>1, <2>2 DEF HandedOver
<1>13. SomebodyGoes'
  BY <1>1, <1>2 DEF StubInv, SomebodyGoes, Goes, Moves
<1> QED
  BY <1>4, <1>5, <1>9, <1>10, <1>11, <1>12, <1>13 DEF StubInv

-----------------------------------------------------------------------------
(* The sentry wakes the latest caller: there is one, when any is left.     *)
LEMMA Smallest ==
  ASSUME NEW S \in SUBSET Nat, S # {}
  PROVE  \E n \in S : \A m \in S : n <= m
<1> DEFINE R == OpToRel(<, Nat)
<1>1. IsWellFoundedOn(R, Nat)
  BY NatLessThanWellFounded
<1>2. \A x, y \in Nat : x < y => << x, y >> \in R
  BY DEF OpToRel
<1> HIDE DEF R
<1>3. PICK x \in S : \A y \in S : ~ (<< y, x >> \in R)
  BY <1>1, WFMin
<1>4. ASSUME NEW y \in S PROVE x <= y
  <2>1. x \in Nat /\ y \in Nat /\ ~ (y < x)
    BY <1>2, <1>3
  <2> QED
    BY <2>1
<1> QED
  BY <1>4

LEMMA LastExists ==
  ASSUME NEW S \in SUBSET Calls, S # {}
  PROVE  \E s \in S : s \in LastOf(S)
<1> DEFINE T == { MaxCalls - k : k \in S }
<1>1. T \in SUBSET Nat /\ T # {}
  <2>1. \A k \in S : MaxCalls - k \in Nat
    BY StubAssumption DEF Calls
  <2> QED
    BY <2>1
<1>2. PICK d \in T : \A e \in T : d <= e
  BY <1>1, Smallest
<1>3. PICK s \in S : d = MaxCalls - s
  BY <1>2
<1>4. \A k \in S : k <= s
  <2> TAKE k \in S
  <2>1. MaxCalls - s <= MaxCalls - k
    BY <1>2, <1>3
  <2> QED
    BY <2>1, StubAssumption DEF Calls
<1> QED
  BY <1>4 DEF LastOf

LEMMA ReceiveKeeps ==
  ASSUME StubInv, NEW t \in Threads, Receive(t)
  PROVE  StubInv'
<1> DEFINE c == seqid[t]
           S == LastOf(monitors')
<1>1. /\ pc[t] = "match" /\ header[t] = c /\ frame' = None
      /\ result' = [result EXCEPT ![c] = IF frame = None THEN "garbage" ELSE outcome[frame]]
      /\ monitors' = monitors \ {c} /\ wakeup' = TRUE /\ readMutex' = None
      /\ header' = [header EXCEPT ![t] = None]
      /\ pc' = Notified([pc EXCEPT ![t] = "idle"], S)
      /\ UNCHANGED << seqid, nextseqid, pending, stop, writeMutex, requests, replies,
                      broken, outcome >>
  BY DEF Receive
<1>2. TypeOK /\ Moves(t, "idle", S)
  BY <1>1, NotifiedMoves DEF StubInv, PC
<1>3. frame = c /\ c # None /\ pending = None /\ outcome[c] # "none" /\ c \in Calls
  <2>1. frame = c /\ frame # None /\ pending = None
    BY <1>1 DEF StubInv, HandedOver
  <2> QED
    BY <2>1 DEF StubInv, OnePlace, Answered, TypeOK
<1> HIDE DEF c, S
<1>4. TypeOK'
  <2>1. outcome[c] \in Kinds \cup {"none"}
    BY <1>2, <1>3 DEF TypeOK
  <2> QED
    BY <1>1, <1>2, <1>3, <2>1 DEF TypeOK, Moves
<1>5. CallsOwned'
  BY <1>1, <1>2, ReturnKeepsCalls DEF StubInv, c
<1>6. \A u \in Threads : ~ Reading(u)'
  BY <1>1, <1>2, OneReader DEF StubInv, Reading, Moves
<1>7. ReadersHold'
  BY <1>1, <1>6, StubAssumption DEF ReadersHold
<1>8. /\ Members(requests)' = Members(requests) /\ Members(replies)' = Members(replies)
      /\ Distinct(requests)' = Distinct(requests) /\ Distinct(replies)' = Distinct(replies)
      /\ Answered' = Members(replies)
  BY <1>1 DEF Members, Distinct, Answered
<1>9. OnePlace'
  <2>1. None \notin Members(replies)
    BY <1>2, StubAssumption DEF TypeOK, Members, Calls
  <2> QED
    BY <1>1, <1>8, <2>1 DEF StubInv, OnePlace, Answered
<1>10. Expected'
  <2> SUFFICES ASSUME ~ stop', NEW d \in Members(requests) \cup Members(replies)
               PROVE  \E u \in Threads : Sent(u)' /\ seqid'[u] = d
    BY <1>6, <1>8 DEF Expected, Reading
  <2>1. PICK u \in Threads : Sent(u) /\ seqid[u] = d
    BY <1>1 DEF StubInv, Expected, Answered
  <2>2. d # c
    BY <1>3 DEF StubInv, OnePlace
  <2>3. Sent(u)' /\ seqid'[u] = d
    BY <1>1, <1>2, <2>1, <2>2 DEF Sent, Moves, c
  <2> QED
    BY <2>3
<1>11. StopsWhenBroken' /\ HandedOver'
  BY <1>1, <1>3, <1>6 DEF StubInv, StopsWhenBroken, HandedOver, Reading
<1>12. SomebodyGoes'
  <2>1. stop' => \A u \in Threads : pc'[u] # "waiting"
    BY <1>1, <1>2 DEF StubInv, SomebodyGoes, Moves
  <2>2. ASSUME ~ stop', NEW v \in Threads, Active(v)'
        PROVE  \E u \in Threads : Goes(u)' \/ (Called(u)' /\ wakeup')
    <3>1. v # t /\ Active(v)
      BY <1>2, <2>2 DEF Active, Moves
    <3>2. seqid[v] \in monitors' /\ monitors' \in SUBSET Calls
      BY <1>1, <1>4, <3>1 DEF StubInv, CallsOwned, Active, c, TypeOK
    <3>3. PICK s \in monitors' : s \in S
      BY <3>2, LastExists DEF S
    <3>4. PICK u \in Threads : Active(u) /\ seqid[u] = s
      BY <1>1, <2>2, <3>3 DEF StubInv, CallsOwned
    <3>5. u # t
      BY <1>1, <3>3, <3>4 DEF c
    <3>6. ~ Reading(u)
      BY <1>1, <3>5, OneReader DEF StubInv, Reading
    <3>7. pc[u] \in PC
      BY <1>2 DEF TypeOK
    <3>8. Goes(u)' \/ Called(u)'
      BY <1>2, <3>3, <3>4, <3>5, <3>6, <3>7 DEF Moves, Goes, Called, Active, Reading, PC
    <3> QED
      BY <1>1, <3>8
  <2> QED
    BY <2>1, <2>2 DEF SomebodyGoes
<1> QED
  BY <1>4, <1>5, <1>7, <1>9, <1>10, <1>11, <1>12 DEF StubInv

LEMMA UpdatePendingKeeps ==
  ASSUME StubInv, NEW t \in Threads, UpdatePending(t)
  PROVE  StubInv'
<1>1. /\ pc[t] = "match" /\ header[t] # seqid[t] /\ pending' = header[t]
      /\ header' = [header EXCEPT ![t] = None]
      /\ pc' = Notified([pc EXCEPT ![t] = "check"], {header[t]})
      /\ UNCHANGED << seqid, nextseqid, monitors, stop, wakeup, readMutex, writeMutex,
                      requests, replies, frame, broken, outcome, result >>
  BY DEF UpdatePending, wire
<1>2. TypeOK /\ Moves(t, "check", {header[t]})
  BY <1>1, NotifiedMoves DEF StubInv, PC
<1>3. TypeOK'
  BY <1>1, <1>2 DEF TypeOK, Moves
<1>4. CallsOwned'
  BY <1>1, <1>2, GoingOnKeepsCalls DEF StubInv
<1>5. OnePlace' /\ StopsWhenBroken'
  BY <1>1, WireKept DEF StubInv, StopsWhenBroken
<1>6. Expected'
  BY <1>1, <1>2, ExpectedKept DEF StubInv
<1>7. \A u \in Threads \ {t} : ~ Reading(u) /\ ~ Reading(u)'
  BY <1>1, <1>2, OneReader DEF StubInv, Reading, Moves
<1>8. ReadersHold'
  BY <1>1, <1>2, <1>7 DEF StubInv, ReadersHold, Reading, Moves
<1>9. frame # None /\ header[t] = frame
  BY <1>1 DEF StubInv, HandedOver
<1>10. HandedOver'
  BY <1>1, <1>2, <1>7, <1>9 DEF HandedOver, Reading, Moves
<1>11. SomebodyGoes'
  <2>1. PICK u \in Threads : Sent(u) /\ seqid[u] = frame
    BY <1>1, <1>9 DEF StubInv, Expected, Answered
  <2>2. u # t /\ ~ Reading(u) /\ pc[u] \in PC
    BY <1>1, <1>2, <1>7, <1>9, <2>1 DEF TypeOK
  <2>3. Goes(u)' \/ (Called(u)' /\ pending' = seqid'[u])
    BY <1>1, <1>2, <1>9, <2>1, <2>2 DEF Moves, Goes, Called, Sent, Reading, PC
  <2>4. stop' => \A v \in Threads : pc'[v] # "waiting"
    BY <1>1, <1>2 DEF StubInv, SomebodyGoes, Moves
  <2> QED
    BY <2>3, <2>4 DEF SomebodyGoes
<1> QED
  BY <1>3, <1>4, <1>5, <1>6, <1>8, <1>10, <1>11 DEF StubInv

-----------------------------------------------------------------------------
(* The other end.                                                          *)
LEMMA ServeKeeps ==
  ASSUME StubInv, Serve
  PROVE  StubInv'
<1>1. PICK i \in DOMAIN requests, k \in Kinds :
         /\ requests' = Without(requests, i) /\ replies' = Append(replies, requests[i])
         /\ outcome' = [outcome EXCEPT ![requests[i]] = k]
  BY DEF Serve
<1>2. /\ ~ broken
      /\ UNCHANGED << pc, seqid, header, nextseqid, monitors, pending, stop, wakeup, readMutex,
                      writeMutex, frame, broken, result >>
  BY DEF Serve, sync
<1> DEFINE c == requests[i]
<1>3. TypeOK /\ requests \in Seq(Calls) /\ replies \in Seq(Calls) /\ ~ stop
  BY <1>2 DEF StubInv, StopsWhenBroken, TypeOK
<1>4. c \in Members(requests) /\ outcome[c] = "none" /\ k # "none"
  BY <1>1 DEF Members, StubInv, OnePlace, Kinds
<1>5. /\ requests' \in Seq(Calls) /\ c \in Calls
      /\ Members(requests) = Members(requests') \cup {c}
      /\ Distinct(requests') /\ c \notin Members(requests')
  BY <1>1, <1>3, WithoutMembers DEF StubInv, OnePlace
<1>6. c \notin Members(replies)
  BY <1>4 DEF StubInv, OnePlace, Answered
<1>7. /\ replies' \in Seq(Calls) /\ Members(replies') = Members(replies) \cup {c}
      /\ Distinct(replies')
  BY <1>1, <1>3, <1>5, <1>6, AppendMembers DEF StubInv, OnePlace
<1>8. /\ Members(requests)' = Members(requests') /\ Members(replies)' = Members(replies')
      /\ Distinct(requests)' = Distinct(requests') /\ Distinct(replies)' = Distinct(replies')
      /\ Answered' = Answered \cup {c}
  BY <1>2, <1>7 DEF Members, Distinct, Answered
<1>9. outcome'[c] = k /\ \A d \in Calls \ {c} : outcome'[d] = outcome[d]
  BY <1>1, <1>3, <1>5 DEF TypeOK
<1> HIDE DEF c
<1>10. TypeOK'
  BY <1>1, <1>2, <1>3, <1>5, <1>7 DEF TypeOK, Kinds
<1>11. PICK u \in Threads : Sent(u) /\ seqid[u] = c
  BY <1>3, <1>4 DEF StubInv, Expected
<1>12. CallsOwned'
  <2>1. \A v \in Threads : Active(v)' = Active(v) /\ Sent(v)' = Sent(v)
    BY <1>2 DEF Active, Sent
  <2>2. \A v \in Threads : Active(v) /\ ~ Sent(v) => seqid[v] # c /\ seqid[v] \in Calls
    BY <1>3, <1>11 DEF StubInv, CallsOwned, Active, Sent, TypeOK
  <2>3. c < nextseqid /\ c \in Calls
    <3>1. c \in monitors
      BY <1>11 DEF StubInv, CallsOwned, Active, Sent
    <3>2. c \in 1 .. nextseqid - 1 /\ nextseqid \in Int
      BY <1>3, <3>1, StubAssumption DEF StubInv, CallsOwned, TypeOK
    <3> QED
      BY <1>5, <3>2
  <2>4. \A v \in Threads : Active(v)' =>
          /\ seqid'[v] \in monitors' /\ result'[seqid'[v]] = "none"
          /\ ~ Sent(v)' => outcome'[seqid'[v]] = "none"
    BY <1>2, <1>9, <2>1, <2>2 DEF StubInv, CallsOwned
  <2>5. \A d \in Calls : d >= nextseqid' => outcome'[d] = "none" /\ result'[d] = "none"
    <3> SUFFICES ASSUME NEW d \in Calls, d >= nextseqid
                 PROVE  outcome'[d] = "none" /\ result'[d] = "none"
      BY <1>2
    <3>1. d # c
      BY <1>3, <2>3, StubAssumption DEF Calls, TypeOK
    <3> QED
      BY <1>2, <1>9, <3>1 DEF StubInv, CallsOwned
  <2>6. /\ \A v, w \in Threads : Active(v)' /\ Active(w)' /\ seqid'[v] = seqid'[w] => v = w
        /\ monitors' \subseteq 1 .. nextseqid' - 1
        /\ ~ stop' => \A d \in monitors' : \E v \in Threads : Active(v)' /\ seqid'[v] = d
    BY <1>2, <2>1 DEF StubInv, CallsOwned
  <2> QED
    BY <2>4, <2>5, <2>6 DEF CallsOwned
<1>13. OnePlace'
  <2>1. frame # c
    BY <1>4, <1>5, StubAssumption DEF StubInv, OnePlace, Answered, Calls
  <2>2. Members(requests') \subseteq Calls /\ Answered \subseteq Calls
    BY <1>3, <1>5 DEF TypeOK, Members, Answered
  <2> QED
    BY <1>2, <1>4, <1>5, <1>7, <1>8, <1>9, <2>1, <2>2 DEF StubInv, OnePlace
<1>14. Expected'
  <2>1. Members(requests)' \cup Answered' = Members(requests) \cup Answered
    BY <1>5, <1>8
  <2>2. \A v \in Threads : Sent(v)' = Sent(v)
    BY <1>2 DEF Sent
  <2> QED
    BY <1>2, <1>3, <2>1, <2>2 DEF StubInv, Expected
<1>15. ReadersHold' /\ StopsWhenBroken' /\ HandedOver' /\ SomebodyGoes'
  BY <1>2 DEF StubInv, ReadersHold, Reading, StopsWhenBroken, HandedOver, SomebodyGoes, Active,
     Goes, Called
<1> QED
  BY <1>10, <1>12, <1>13, <1>14, <1>15 DEF StubInv

LEMMA BreakKeeps ==
  ASSUME StubInv, Break
  PROVE  StubInv'
<1>1. PICK n \in 0 .. Len(replies) : replies' = SubSeq(replies, 1, n)
  BY DEF Break
<1>2. /\ broken' = TRUE /\ requests' = << >>
      /\ UNCHANGED << pc, seqid, header, nextseqid, monitors, pending, stop, wakeup, readMutex,
                      writeMutex, frame, outcome, result >>
  BY DEF Break, sync
<1>3. replies' \in Seq(Calls) /\ Members(replies') \subseteq Members(replies) /\ Distinct(replies')
  BY <1>1, FirstMembers DEF StubInv, TypeOK, OnePlace
<1>4. /\ Members(requests)' = {} /\ Members(replies)' = Members(replies')
      /\ Distinct(requests)' /\ Distinct(replies)' = Distinct(replies')
      /\ Answered' \subseteq Answered
  BY <1>2, <1>3 DEF Members, Distinct, Answered
<1>5. TypeOK'
  <2>1. requests' \in Seq(Calls)
    BY <1>2
  <2> QED
    BY <1>2, <1>3, <2>1 DEF StubInv, TypeOK
<1>6. OnePlace'
  BY <1>2, <1>3, <1>4 DEF StubInv, OnePlace
<1>7. Expected'
  <2>1. \A v \in Threads : Sent(v)' = Sent(v)
    BY <1>2 DEF Sent
  <2> QED
    BY <1>2, <1>4, <2>1 DEF StubInv, Expected
<1>8. CallsOwned' /\ ReadersHold' /\ StopsWhenBroken' /\ HandedOver' /\ SomebodyGoes'
  BY <1>2 DEF StubInv, CallsOwned, ReadersHold, Reading, StopsWhenBroken, HandedOver,
     SomebodyGoes, Active, Sent, Goes, Called
<1> QED
  BY <1>5, <1>6, <1>7, <1>8 DEF StubInv

-----------------------------------------------------------------------------
LEMMA StubNext == StubInv /\ [Next]_vars => StubInv'
<1> SUFFICES ASSUME StubInv, [Next]_vars PROVE StubInv'
  OBVIOUS
<1>1. CASE UNCHANGED vars
  BY <1>1 DEF vars, sync, wire, StubInv, TypeOK, CallsOwned, ReadersHold, Reading, OnePlace,
     Answered, Members, Distinct, Expected, StopsWhenBroken, HandedOver, SomebodyGoes, Active,
     Sent, Goes, Called
<1>2. ASSUME NEW t \in Threads, GetPendingThrows(t) \/ ReadThrows(t) \/ WaitThrows(t)
      PROVE  StubInv'
  <2>1. /\ pc[t] \in {"pending", "read", "check"} /\ broken /\ Throw(t)
        /\ UNCHANGED << pending, wakeup >>
    BY <1>2 DEF GetPendingThrows, ReadThrows, WaitThrows, StubInv, StopsWhenBroken
  <2> QED
    BY <2>1, ThrowKeeps
<1>3. ASSUME NEW t \in Threads, Step(t) PROVE StubInv'
  BY <1>2, <1>3, LockWriteKeeps, WriteKeeps, WriteFailsKeeps, LockReadKeeps, GetPendingKeeps,
     ReadKeeps, ReceiveKeeps, UpdatePendingKeeps, WaitForWorkKeeps DEF Step
<1> QED
  BY <1>1, <1>3, GenerateKeeps, ServeKeeps, BreakKeeps DEF Next

(* However threads share the client and wherever the connection breaks.    *)
THEOREM StubInvariant == Spec => []StubInv
BY StubInit, StubNext, PTL DEF Spec

(* The stubs and the sync object keep their types.                         *)
THEOREM StubTypeCorrect == Spec => []TypeOK
<1>1. StubInv => TypeOK
  BY DEF StubInv
<1> QED
  BY <1>1, StubInvariant, PTL

(* No thread reads a header while a body is left, and a header that is     *)
(* read or handed over has a caller: updatePending never throws.           *)
THEOREM StubStreamInStep == Spec => []StreamInStep
<1>1. StubInv => StreamInStep
  <2> SUFFICES ASSUME StubInv PROVE StreamInStep
    OBVIOUS
  <2>1. ASSUME NEW t \in Threads, pc[t] = "match"
        PROVE  header[t] = frame /\ frame \in monitors
    <3>1. header[t] = frame /\ frame # None
      BY <2>1 DEF StubInv, HandedOver
    <3>2. PICK u \in Threads : Sent(u) /\ seqid[u] = frame
      BY <2>1, <3>1 DEF StubInv, Expected, Answered
    <3> QED
      BY <3>1, <3>2 DEF StubInv, CallsOwned, Active, Sent
  <2> QED
    BY <2>1 DEF StubInv, HandedOver, StreamInStep
<1> QED
  BY <1>1, StubInvariant, PTL

(* The hand-over of the read mutex loses no caller.                        *)
THEOREM StubNobodySleepsAlone == Spec => []NobodySleepsAlone
<1>1. StubInv => NobodySleepsAlone
  BY DEF StubInv, SomebodyGoes, NobodySleepsAlone, Active, Goes, Called
<1> QED
  BY <1>1, StubInvariant, PTL

-----------------------------------------------------------------------------
(* What each step is to the contract.                                      *)
LEMMA GenerateBegins ==
  ASSUME StubInv, NEW t \in Threads, GenerateSeqId(t)
  PROVE  Contract!CBegin(nextseqid) /\ nextseqid \in Calls
<1>1. /\ nextseqid <= MaxCalls /\ nextseqid' = nextseqid + 1
      /\ UNCHANGED << outcome, result, broken >>
  BY DEF GenerateSeqId, wire
<1>2. nextseqid \in Calls /\ nextseqid \in Int /\ nextseqid >= 1
  BY <1>1, StubAssumption DEF StubInv, TypeOK, Calls
<1>3. /\ nextseqid \notin 1 .. nextseqid - 1
      /\ 1 .. nextseqid' - 1 = (1 .. nextseqid - 1) \cup {nextseqid}
  BY <1>1, <1>2
<1> QED
  BY <1>1, <1>2, <1>3 DEF Contract!CBegin

LEMMA ReceiveReturns ==
  ASSUME StubInv, NEW t \in Threads, Receive(t)
  PROVE  Contract!CReturn(seqid[t]) /\ seqid[t] \in Calls
<1>1. /\ pc[t] = "match" /\ header[t] = seqid[t]
      /\ result' = [result EXCEPT ![seqid[t]] =
                       IF frame = None THEN "garbage" ELSE outcome[frame]]
      /\ UNCHANGED << nextseqid, outcome, broken >>
  BY DEF Receive
<1>2. frame = seqid[t] /\ frame # None /\ outcome[frame] # "none"
  BY <1>1 DEF StubInv, HandedOver, OnePlace, Answered
<1>3. seqid[t] \in 1 .. nextseqid - 1 /\ result[seqid[t]] = "none" /\ seqid[t] \in Calls
  BY <1>1 DEF StubInv, CallsOwned, Active, TypeOK
<1> QED
  BY <1>1, <1>2, <1>3 DEF Contract!CReturn

LEMMA ThrowFails ==
  ASSUME StubInv, NEW t \in Threads, pc[t] # "idle", broken,
         result' = [result EXCEPT ![seqid[t]] = "failed"],
         UNCHANGED << nextseqid, outcome, broken >>
  PROVE  Contract!CFail(seqid[t]) /\ seqid[t] \in Calls
<1>1. seqid[t] \in 1 .. nextseqid - 1 /\ result[seqid[t]] = "none" /\ seqid[t] \in Calls
  BY DEF StubInv, CallsOwned, Active, TypeOK
<1> QED
  BY <1>1 DEF Contract!CFail

LEMMA ServeRuns ==
  ASSUME StubInv, Serve
  PROVE  \E c \in Calls, k \in Kinds : Contract!CRun(c, k)
<1>1. PICK i \in DOMAIN requests, k \in Kinds :
         outcome' = [outcome EXCEPT ![requests[i]] = k]
  BY DEF Serve
<1>2. ~ broken /\ UNCHANGED << nextseqid, broken, result >>
  BY DEF Serve
<1>3. /\ requests[i] \in Members(requests) /\ requests[i] \in Calls
      /\ outcome[requests[i]] = "none"
  BY DEF StubInv, TypeOK, OnePlace, Members
<1>4. PICK u \in Threads : Sent(u) /\ seqid[u] = requests[i]
  BY <1>2, <1>3 DEF StubInv, StopsWhenBroken, Expected
<1>5. requests[i] \in 1 .. nextseqid - 1
  BY <1>4 DEF StubInv, CallsOwned, Active, Sent
<1> QED
  BY <1>1, <1>2, <1>3, <1>5 DEF Contract!CRun

LEMMA StepKeepsContract ==
  ASSUME StubInv, [Next]_vars
  PROVE  [Contract!CNext]_(Contract!cvars)
<1>1. ASSUME UNCHANGED << nextseqid, outcome, result, broken >>
      PROVE  UNCHANGED Contract!cvars
  BY <1>1 DEF Contract!cvars
<1>2. CASE UNCHANGED vars
  BY <1>1, <1>2 DEF vars, wire
<1>3. ASSUME NEW t \in Threads,
             \/ LockWrite(t) \/ Write(t) \/ LockRead(t) \/ GetPending(t)
             \/ ReadMessageBegin(t) \/ UpdatePending(t) \/ WaitForWork(t)
      PROVE  UNCHANGED Contract!cvars
  <2>1. UNCHANGED << nextseqid, outcome, result, broken >>
    BY <1>3 DEF LockWrite, Write, LockRead, GetPending, ReadMessageBegin, UpdatePending,
       WaitForWork, wire
  <2> QED
    BY <1>1, <2>1
<1>4. ASSUME NEW t \in Threads,
             WriteFails(t) \/ GetPendingThrows(t) \/ ReadThrows(t) \/ WaitThrows(t)
      PROVE  Contract!CNext
  <2>1. /\ pc[t] # "idle" /\ broken /\ result' = [result EXCEPT ![seqid[t]] = "failed"]
        /\ UNCHANGED << nextseqid, outcome, broken >>
    BY <1>4 DEF WriteFails, GetPendingThrows, ReadThrows, WaitThrows, Throw, wire, StubInv,
       StopsWhenBroken
  <2> QED
    BY <2>1, ThrowFails DEF Contract!CNext
<1>5. ASSUME NEW t \in Threads, Step(t) PROVE [Contract!CNext]_(Contract!cvars)
  BY <1>3, <1>4, <1>5, ReceiveReturns DEF Step, Contract!CNext
<1>6. CASE Break
  <2>1. broken' = TRUE /\ UNCHANGED << nextseqid, outcome, result >>
    BY <1>6 DEF Break
  <2> QED
    BY <2>1 DEF Contract!CNext, Contract!CBreak
<1> QED
  BY <1>2, <1>5, <1>6, GenerateBegins, ServeRuns DEF Next, Contract!CNext

(* The stubs implement the contract of a connection: each call is run once *)
(* at most, comes back with what its own run came to, and fails only after *)
(* the connection broke.                                                   *)
THEOREM StubsKeepContract == Spec => CallsKeepContract
<1>1. Init => Contract!CInit
  <2> SUFFICES ASSUME Init PROVE Contract!CInit
    OBVIOUS
  <2>1. 1 .. nextseqid - 1 = {}
    BY DEF Init
  <2> QED
    BY <2>1 DEF Init, Contract!CInit
<1>2. StubInv /\ [Next]_vars => [Contract!CNext]_(Contract!cvars)
  BY StepKeepsContract
<1> QED
  BY <1>1, <1>2, StubInvariant, PTL DEF Spec, CallsKeepContract, Contract!CSpec
=============================================================================
