--------------------------- MODULE SessionsProofs ---------------------------
(***************************************************************************)
(* Sessions for every number of clients, connections, calls and runs, and  *)
(* for every stride and width of the integers.                             *)
(***************************************************************************)
EXTENDS Sessions, TLAPS

(* The numbers that a connection gives out while it keeps to its stride    *)
(* lie before those of every later connection.                             *)
LEMMA StrideSeparates ==
  ASSUME NEW S \in Nat, NEW k \in Nat, NEW m \in Nat, k < m
  PROVE  k * S + S <= m * S
<1> DEFINE d == m - (k + 1)
<1>1. d \in Nat /\ m = (k + 1) + d
  OBVIOUS
<1>2. m * S = (k + 1) * S + d * S
  BY <1>1
<1>3. d * S \in Nat /\ (k + 1) * S = k * S + S
  BY <1>1
<1> QED
  BY <1>2, <1>3

(* A number that fits an int is what int arithmetic leaves of it.          *)
LEMMA Int32Fits ==
  ASSUME NEW v \in Nat, v < IntWidth
  PROVE  Int32(v) = v
<1>1. (v + IntWidth) % (2 * IntWidth) = v + IntWidth
  BY SessionsAssumption
<1> QED
  BY <1>1, SessionsAssumption DEF Int32

(* The index that ++ leaves is the next one, or 0 after the last.          *)
LEMMA NextIndex ==
  ASSUME NEW p \in Nat, NEW W \in Nat \ {0}, (p + 1) % W # 0
  PROVE  (p + 1) % W = (p % W) + 1
<1> DEFINE r == p % W
           d == p \div W
<1>1. r \in 0 .. W - 1 /\ d \in Nat /\ p = W * d + r
  OBVIOUS
<1>2. CASE r = W - 1
  <2>1. W * (d + 1) = W * d + W
    BY <1>1
  <2>2. p + 1 = W * (d + 1)
    BY <1>1, <1>2, <2>1
  <2>3. (W * (d + 1)) % W = 0
    BY <1>1
  <2> QED
    BY <2>2, <2>3
<1>3. CASE r # W - 1
  <2>1. r + 1 \in 0 .. W - 1 /\ p + 1 = W * d + (r + 1)
    BY <1>1, <1>3
  <2>2. \A e \in Nat, x \in 0 .. W - 1 : (W * e + x) % W = x
    OBVIOUS
  <2> HIDE DEF r, d
  <2> QED
    BY <1>1, <2>1, <2>2 DEF r
<1> QED
  BY <1>2, <1>3

LEMMA SeqNumFits ==
  ASSUME NEW k \in Nat, NEW n \in Nat, k * Stride + n < IntWidth
  PROVE  seq_num(k, n) = k * Stride + n
<1>1. k * Stride \in Nat
  BY SessionsAssumption
<1>2. k * Stride + n \in Nat
  BY <1>1
<1> QED
  BY <1>2, Int32Fits DEF seq_num

(* A number that a later connection gives out is beyond the stride of an   *)
(* earlier one.                                                            *)
LEMMA Overrun ==
  ASSUME NEW S \in Nat, NEW k \in Nat, NEW m \in Nat, NEW p \in Nat, NEW q \in Nat \ {0},
         k < m, k * S + p = m * S + q
  PROVE  p > S
<1>1. k * S + S <= m * S
  BY StrideSeparates
<1>2. k * S \in Nat /\ m * S \in Nat
  OBVIOUS
<1> QED
  BY <1>1, <1>2

LEMMA Numbers ==
  ASSUME NEW k \in Nat, NEW n \in Nat
  PROVE  seq_num(k, n) \in Int /\ motd(n) \in Int
<1>1. k * Stride \in Nat
  BY SessionsAssumption
<1>2. (k * Stride + n + IntWidth) % (2 * IntWidth) \in Int
  BY <1>1, SessionsAssumption
<1>3. (n % UnsignedWidth) % 3 \in Int
  BY SessionsAssumption
<1> QED
  BY <1>2, <1>3, SessionsAssumption DEF seq_num, Int32, motd

-----------------------------------------------------------------------------
LEMMA SInvInit == Init => SInv
BY SessionsAssumption
   DEF Init, SInv, TypeOK, HandlersCounted, HandlersDiffer, AnswersCounted, CallsAreTold,
       Connected, Nobody, Answer

LEMMA AcceptKeeps ==
  ASSUME SInv, NEW c \in Clients, Accept(c)
  PROVE  SInv'
<1> DEFINE h == [con_id |-> con_count + 1, call_count |-> 0]
<1>1. /\ up /\ handler[c] = Nobody /\ con_count \in Nat
      /\ con_count' = con_count + 1 /\ handler' = [handler EXCEPT ![c] = h]
      /\ up' = up /\ run' = run /\ answers' = answers
  BY DEF Accept, SInv, TypeOK, Connected
<1>2. handler \in [Clients -> [con_id : Nat, call_count : Nat]]
  BY DEF SInv, TypeOK
<1>3. /\ handler'[c] = h /\ \A d \in Clients \ {c} : handler'[d] = handler[d]
      /\ h \in [con_id : Nat, call_count : Nat] /\ h.con_id = con_count + 1
  BY <1>1, <1>2
<1>4. TypeOK'
  BY <1>1, <1>2, <1>3 DEF SInv, TypeOK
<1>5. HandlersCounted'
  BY <1>1, <1>3, <1>2 DEF SInv, HandlersCounted, Connected
<1>6. HandlersDiffer'
  <2> SUFFICES ASSUME NEW d \in Clients, NEW e \in Clients, Connected(d)', Connected(e)', d # e
               PROVE  handler'[d].con_id # handler'[e].con_id
    BY DEF HandlersDiffer
  <2>1. \A f \in Clients : Connected(f) => handler[f].con_id < con_count + 1
    BY <1>1, <1>2 DEF SInv, HandlersCounted
  <2>2. \A f \in Clients \ {c} : Connected(f)' => Connected(f)
    BY <1>3 DEF Connected
  <2> QED
    BY <1>1, <1>2, <1>3, <2>1, <2>2 DEF SInv, HandlersDiffer
<1>7. AnswersCounted'
  <2> SUFFICES ASSUME NEW i \in 1 .. Len(answers)
               PROVE  /\ answers[i].run <= run
                      /\ answers[i].run = run => answers[i].con <= con_count + 1
                      /\ answers[i].seq = seq_num(answers[i].con, answers[i].n)
                      /\ answers[i].msg = motd(answers[i].n)
                      /\ \A d \in Clients : Connected(d)' /\ answers[i].run = run
                            /\ answers[i].con = handler'[d].con_id
                              => answers[i].n <= handler'[d].call_count
    BY <1>1 DEF AnswersCounted
  <2>1. answers[i] \in Answer
    BY DEF SInv, TypeOK
  <2>2. answers[i].run = run => answers[i].con <= con_count
    BY DEF SInv, AnswersCounted
  <2>3. \A d \in Clients \ {c} : Connected(d)' => Connected(d)
    BY <1>3 DEF Connected
  <2> QED
    BY <1>1, <1>3, <2>1, <2>2, <2>3 DEF SInv, AnswersCounted, Answer
<1>8. CallsAreTold'
  BY <1>1 DEF SInv, CallsAreTold
<1> QED
  BY <1>4, <1>5, <1>6, <1>7, <1>8 DEF SInv

LEMMA CallKeeps ==
  ASSUME SInv, NEW c \in Clients, Call(c)
  PROVE  SInv'
<1> DEFINE h == handler[c]
           k == [con_id |-> h.con_id, call_count |-> h.call_count + 1]
           a == [run |-> run, con |-> h.con_id, n |-> h.call_count + 1,
                 seq |-> seq_num(h.con_id, h.call_count + 1), msg |-> motd(h.call_count + 1)]
           N == Len(answers)
<1>1. /\ up /\ Connected(c) /\ handler' = [handler EXCEPT ![c] = k]
      /\ answers' = Append(answers, a)
      /\ up' = up /\ run' = run /\ con_count' = con_count
  BY DEF Call
<1>2. /\ handler \in [Clients -> [con_id : Nat, call_count : Nat]]
      /\ answers \in Seq(Answer) /\ N \in Nat /\ run \in Nat \ {0} /\ con_count \in Nat
  BY DEF SInv, TypeOK
<1>3. h.con_id \in 1 .. con_count /\ h.call_count \in Nat
  BY <1>1, <1>2 DEF SInv, HandlersCounted
<1>4. a \in Answer
  <2>1. h.con_id \in Nat \ {0} /\ h.call_count + 1 \in Nat \ {0}
    BY <1>2, <1>3
  <2>2. seq_num(h.con_id, h.call_count + 1) \in Int /\ motd(h.call_count + 1) \in Int
    BY <2>1, Numbers
  <2> QED
    BY <1>2, <2>1, <2>2 DEF Answer
<1>5. /\ handler'[c] = k /\ \A d \in Clients \ {c} : handler'[d] = handler[d]
      /\ k \in [con_id : Nat, call_count : Nat]
      /\ k.con_id = h.con_id /\ k.call_count = h.call_count + 1
  BY <1>1, <1>2, <1>3
<1>6. /\ Len(answers') = N + 1 /\ answers'[N + 1] = a
      /\ \A i \in 1 .. N : answers'[i] = answers[i] /\ answers[i] \in Answer
  BY <1>1, <1>2, <1>4
<1>7. TypeOK'
  BY <1>1, <1>2, <1>4, <1>5 DEF SInv, TypeOK
<1>8. \A d \in Clients : Connected(d)' => Connected(d) /\ handler'[d].con_id = handler[d].con_id
  BY <1>1, <1>5 DEF Connected
<1>9. HandlersCounted'
  BY <1>1, <1>8 DEF SInv, HandlersCounted
<1>10. HandlersDiffer'
  BY <1>8 DEF SInv, HandlersDiffer
<1>11. AnswersCounted'
  <2> SUFFICES ASSUME NEW i \in 1 .. N + 1
               PROVE  /\ answers'[i].run <= run
                      /\ answers'[i].run = run => answers'[i].con <= con_count
                      /\ answers'[i].seq = seq_num(answers'[i].con, answers'[i].n)
                      /\ answers'[i].msg = motd(answers'[i].n)
                      /\ \A d \in Clients : Connected(d)' /\ answers'[i].run = run
                            /\ answers'[i].con = handler'[d].con_id
                              => answers'[i].n <= handler'[d].call_count
    BY <1>1, <1>6 DEF AnswersCounted
  <2>1. CASE i \in 1 .. N
    <3>1. answers'[i] = answers[i] /\ answers[i] \in Answer
      BY <1>6, <2>1
    <3>2. \A d \in Clients : handler[d].call_count <= handler'[d].call_count
                              /\ handler[d].call_count \in Nat /\ handler'[d].call_count \in Nat
      BY <1>2, <1>3, <1>5
    <3> QED
      BY <2>1, <3>1, <3>2, <1>8 DEF SInv, AnswersCounted, Answer
  <2>2. CASE i = N + 1
    <3>1. answers'[i] = a
      BY <1>6, <2>2
    <3>2. \A d \in Clients : Connected(d)' /\ h.con_id = handler'[d].con_id => d = c
      BY <1>1, <1>8 DEF SInv, HandlersDiffer
    <3> QED
      BY <1>2, <1>3, <1>5, <3>1, <3>2
  <2> QED
    BY <1>2, <2>1, <2>2
<1>12. CallsAreTold'
  <2> SUFFICES ASSUME NEW i \in 1 .. N + 1, NEW j \in 1 .. N + 1, i # j,
                      answers'[i].run = answers'[j].run, answers'[i].con = answers'[j].con
               PROVE  answers'[i].n # answers'[j].n
    BY <1>6 DEF CallsAreTold
  <2>1. \A m \in 1 .. N : answers[m].run = run /\ answers[m].con = h.con_id
                            => answers[m].n < h.call_count + 1
    <3> SUFFICES ASSUME NEW m \in 1 .. N, answers[m].run = run, answers[m].con = h.con_id
                 PROVE  answers[m].n < h.call_count + 1
      OBVIOUS
    <3>1. answers[m].n <= h.call_count
      BY <1>1 DEF SInv, AnswersCounted
    <3>2. answers[m].n \in Nat
      BY <1>6 DEF Answer
    <3> QED
      BY <1>3, <3>1, <3>2
  <2>2. \A m \in 1 .. N : answers[m].n \in Nat
    BY <1>6 DEF Answer
  <2>3. CASE i \in 1 .. N /\ j \in 1 .. N
    BY <1>6, <2>3 DEF SInv, CallsAreTold
  <2>4. CASE i = N + 1 /\ j \in 1 .. N
    BY <1>6, <1>3, <2>1, <2>2, <2>4
  <2>5. CASE j = N + 1 /\ i \in 1 .. N
    BY <1>6, <1>3, <2>1, <2>2, <2>5
  <2> QED
    BY <1>2, <2>3, <2>4, <2>5
<1> QED
  BY <1>7, <1>9, <1>10, <1>11, <1>12 DEF SInv

(* A handler that is released takes nothing with it.                       *)
LEMMA ReleaseKeeps ==
  ASSUME SInv, NEW c \in Clients, Release(c)
  PROVE  SInv'
<1>1. /\ handler' = [handler EXCEPT ![c] = Nobody]
      /\ up' = up /\ run' = run /\ con_count' = con_count /\ answers' = answers
  BY DEF Release
<1>2. /\ handler \in [Clients -> [con_id : Nat, call_count : Nat]]
      /\ Nobody \in [con_id : Nat, call_count : Nat]
  BY DEF SInv, TypeOK, Nobody
<1>3. \A d \in Clients : Connected(d)' => Connected(d) /\ handler'[d] = handler[d]
  BY <1>1, <1>2 DEF Connected
<1>4. TypeOK'
  BY <1>1, <1>2 DEF SInv, TypeOK
<1>5. HandlersCounted' /\ HandlersDiffer'
  BY <1>1, <1>3 DEF SInv, HandlersCounted, HandlersDiffer
<1>6. AnswersCounted' /\ CallsAreTold'
  BY <1>1, <1>3 DEF SInv, AnswersCounted, CallsAreTold
<1> QED
  BY <1>4, <1>5, <1>6 DEF SInv

LEMMA StopKeeps ==
  ASSUME SInv, Stop
  PROVE  SInv'
<1>1. /\ handler' = [c \in Clients |-> Nobody] /\ up' = FALSE
      /\ run' = run /\ con_count' = con_count /\ answers' = answers
  BY DEF Stop
<1>2. \A d \in Clients : ~ Connected(d)'
  BY <1>1 DEF Connected
<1>3. TypeOK'
  BY <1>1 DEF SInv, TypeOK, Nobody
<1> QED
  BY <1>1, <1>2, <1>3
     DEF SInv, HandlersCounted, HandlersDiffer, AnswersCounted, CallsAreTold

(* A new run has answered nothing.                                         *)
LEMMA StartKeeps ==
  ASSUME SInv, Start
  PROVE  SInv'
<1>1. /\ ~ up /\ up' = TRUE /\ run' = run + 1 /\ con_count' = 0 /\ run \in Nat \ {0}
      /\ handler' = handler /\ answers' = answers
  BY DEF Start, SInv, TypeOK
<1>2. \A d \in Clients : ~ Connected(d) /\ ~ Connected(d)'
  BY <1>1 DEF SInv, HandlersCounted, Connected
<1>3. \A i \in 1 .. Len(answers) : answers[i].run <= run /\ answers[i].run \in Nat
  <2> TAKE i \in 1 .. Len(answers)
  <2>1. answers[i] \in Answer
    BY DEF SInv, TypeOK
  <2> QED
    BY <2>1 DEF SInv, AnswersCounted, Answer
<1>4. TypeOK'
  BY <1>1 DEF SInv, TypeOK
<1>5. AnswersCounted'
  BY <1>1, <1>2, <1>3 DEF SInv, AnswersCounted
<1> QED
  BY <1>1, <1>2, <1>4, <1>5 DEF SInv, HandlersCounted, HandlersDiffer, CallsAreTold

LEMMA SInvNext == SInv /\ [Next]_vars => SInv'
<1> SUFFICES ASSUME SInv, [Next]_vars PROVE SInv'
  OBVIOUS
<1>1. ASSUME NEW c \in Clients, Accept(c) PROVE SInv'
  BY <1>1, AcceptKeeps
<1>2. ASSUME NEW c \in Clients, Call(c) PROVE SInv'
  BY <1>2, CallKeeps
<1>3. ASSUME NEW c \in Clients, Release(c) PROVE SInv'
  BY <1>3, ReleaseKeeps
<1>4. CASE Stop
  BY <1>4, StopKeeps
<1>5. CASE Start
  BY <1>5, StartKeeps
<1>6. CASE UNCHANGED vars
  BY <1>6 DEF vars, SInv, TypeOK, HandlersCounted, HandlersDiffer, AnswersCounted,
              CallsAreTold, Connected
<1> QED
  BY <1>1, <1>2, <1>3, <1>4, <1>5, <1>6 DEF Next

(* What makes the answers tell each call, kept by every step of the two    *)
(* servers: handlers with different numbers, none of them used twice.      *)
THEOREM SessionsInvariant == Spec => []SInv
BY SInvInit, SInvNext, PTL DEF Spec

(* The state of the servers has its types.                                 *)
THEOREM SessionsTypeCorrect == Spec => []TypeOK
<1>1. SInv => TypeOK
  BY DEF SInv
<1> QED
  BY <1>1, SessionsInvariant, PTL

(* The number of a connection is never used again in a run.                *)
THEOREM SessionsCallsAreTold == Spec => []CallsAreTold
<1>1. SInv => CallsAreTold
  BY DEF SInv
<1> QED
  BY <1>1, SessionsInvariant, PTL

-----------------------------------------------------------------------------
LEMMA SInvRepeats == SInv => RepeatsExplained
<1> SUFFICES ASSUME SInv, NEW i \in 1 .. Len(answers), NEW j \in 1 .. Len(answers), i # j,
                    answers[i].run = answers[j].run, answers[i].con <= answers[j].con,
                    answers[i].seq = answers[j].seq, Fits(answers[i]), Fits(answers[j])
             PROVE  answers[i].con < answers[j].con /\ answers[i].n > Stride
  BY DEF RepeatsExplained
<1> DEFINE k == answers[i].con
           m == answers[j].con
           p == answers[i].n
           q == answers[j].n
<1>1. k \in Nat /\ m \in Nat /\ p \in Nat /\ q \in Nat \ {0} /\ Stride \in Nat /\ k <= m
  <2>1. answers[i] \in Answer /\ answers[j] \in Answer
    BY DEF SInv, TypeOK
  <2> QED
    BY <2>1, SessionsAssumption DEF Answer
<1>2. seq_num(k, p) = k * Stride + p
  <2>1. k * Stride + p < IntWidth
    BY DEF Fits
  <2> HIDE DEF k, p
  <2> QED
    BY <1>1, <2>1, SeqNumFits
<1>3. seq_num(m, q) = m * Stride + q
  <2>1. m * Stride + q < IntWidth
    BY DEF Fits
  <2> HIDE DEF m, q
  <2> QED
    BY <1>1, <2>1, SeqNumFits
<1>4. k * Stride + p = m * Stride + q
  BY <1>2, <1>3 DEF SInv, AnswersCounted
<1>5. k # m
  <2> SUFFICES ASSUME k = m PROVE FALSE
    OBVIOUS
  <2>1. k * Stride \in Int /\ k * Stride = m * Stride
    BY <1>1
  <2>2. p = q
    BY <1>1, <1>4, <2>1
  <2> QED
    BY <2>2 DEF SInv, CallsAreTold
<1>6. k < m
  BY <1>1, <1>5
<1>7. p > Stride
  <2> HIDE DEF k, m, p, q
  <2> QED
    BY <1>1, <1>4, <1>6, Overrun
<1> QED
  BY <1>6, <1>7

(* Two answers of a run share a sequence number only when the connection   *)
(* that came first has overrun its stride, or a number overflowed.         *)
THEOREM SessionsRepeatsExplained == Spec => []RepeatsExplained
BY SInvRepeats, SessionsInvariant, PTL

LEMMA SInvMessages == SInv => MessageChanges
<1> SUFFICES ASSUME SInv, NEW i \in 1 .. Len(answers), NEW j \in 1 .. Len(answers),
                    answers[j].n = answers[i].n + 1, answers[j].n % UnsignedWidth # 0
             PROVE  answers[i].msg # answers[j].msg
  BY DEF MessageChanges
<1> DEFINE p == answers[i].n
           W == UnsignedWidth
<1>1. p \in Nat /\ W \in Nat \ {0}
  <2>1. answers[i] \in Answer
    BY DEF SInv, TypeOK
  <2> QED
    BY <2>1, SessionsAssumption DEF Answer
<1>2. answers[i].msg = motd(p) /\ answers[j].msg = motd(p + 1)
  BY DEF SInv, AnswersCounted
<1>3. (p + 1) % W = (p % W) + 1
  BY <1>1, NextIndex
<1>4. p % W \in Nat
  BY <1>1
<1>5. \A x \in Nat : x % 3 # (x + 1) % 3
  OBVIOUS
<1> QED
  BY <1>2, <1>3, <1>4, <1>5 DEF motd

(* A client of the message server is told another message each time, up to *)
(* the wrap of its index.                                                  *)
THEOREM SessionsMessageChanges == Spec => []MessageChanges
BY SInvMessages, SessionsInvariant, PTL
=============================================================================
