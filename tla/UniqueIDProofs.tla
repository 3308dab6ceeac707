--------------------------- MODULE UniqueIDProofs ---------------------------
(***************************************************************************)
(* Theorems about UniqueID, for every set of threads, every clock range    *)
(* and every bound.                                                        *)
(***************************************************************************)
EXTENDS UniqueIDInv, TLAPS

-----------------------------------------------------------------------------
(* What Cut returns.                                                       *)
LEMMA CutInt == ASSUME NEW n \in Int, NEW mod \in Nat \ {0}
                PROVE  Cut(n, mod) \in Int
BY DEF Cut

(* A number that fits its field is left alone.                             *)
LEMMA CutFits == ASSUME NEW mod \in Nat, NEW n \in 0 .. mod - 1
                 PROVE  Cut(n, mod) = n
BY DEF Cut

(* -1, the initial CURRENT_TIMESTAMP, is cut to the largest value.         *)
LEMMA CutMinusOne == ASSUME NEW mod \in Nat \ {0, 1}
                     PROVE  Cut(-1, mod) = mod - 1
BY DEF Cut

LEMMA FieldsType == \A m, ts, c \in Int : Fields(m, ts, c) \in Int \X Int \X Int
<1> TAKE m, ts, c \in Int
<1>1. MachMod \div 2 \in Nat \ {0}
  BY FieldAssumption
<1>2. TsMod \in Nat \ {0} /\ CtrMod \in Nat \ {0}
  BY FieldAssumption
<1>3. Cut(m, MachMod \div 2) \in Int /\ Cut(ts, TsMod) \in Int /\ Cut(c, CtrMod) \in Int
  BY <1>1, <1>2, CutInt
<1> QED BY <1>3 DEF Fields

(* Two pairs of get_counter whose timestamps and counters fit their fields *)
(* give two ids, whatever the machine hashes.                              *)
LEMMA FieldsDiffer ==
  ASSUME NEW m \in Int, NEW n \in Int,
         NEW ts \in -1 .. MaxClock, NEW us \in -1 .. MaxClock,
         NEW c \in 0 .. CtrMod - 1, NEW d \in 0 .. CtrMod - 1,
         ts # us \/ c # d
  PROVE  Fields(m, ts, c) # Fields(n, us, d)
<1>1. Cut(c, CtrMod) = c /\ Cut(d, CtrMod) = d
  BY CutFits, FieldAssumption
<1>2. \A x \in -1 .. MaxClock : Cut(x, TsMod) = IF x = -1 THEN TsMod - 1 ELSE x
  <2> TAKE x \in -1 .. MaxClock
  <2>1. CASE x = -1
    BY <2>1, CutMinusOne, FieldAssumption
  <2>2. CASE x # -1
    <3>1. x \in 0 .. TsMod - 1
      BY <2>2, FieldAssumption, ServiceAssumption
    <3> QED BY <3>1, <2>2, CutFits, FieldAssumption
  <2> QED BY <2>1, <2>2
<1>3. Cut(ts, TsMod) # Cut(us, TsMod) \/ Cut(c, CtrMod) # Cut(d, CtrMod)
  BY <1>1, <1>2, FieldAssumption, ServiceAssumption
<1> QED BY <1>3 DEF Fields

-----------------------------------------------------------------------------

LEMMA AnswerType ==
  ASSUME TInv, NEW t \in Threads, NEW m \in MachineIds \cup {0}
  PROVE  Answer(m, t) \in AnswerSet
<1>1. m \in Int /\ timestamp[t] \in Int /\ counter_value[t] \in Nat /\ inc \in Nat
  BY ServiceAssumption, FieldAssumption DEF TInv, TypeOK
<1>2. \A x, y, z \in Int : Fields(x, y, z) \in Int \X Int \X Int
  BY FieldsType, Zenon
<1>3. counter_value[t] \in Int
  BY <1>1
<1>4. Fields(m, timestamp[t], counter_value[t]) \in Int \X Int \X Int
  BY <1>1, <1>2, <1>3, Zenon
<1> QED BY <1>1, <1>4 DEF Answer, AnswerSet

LEMMA InitTInv == Init => TInv
<1> SUFFICES ASSUME Init PROVE TInv
  OBVIOUS
<1>1. pc \in [Threads -> PC] /\ timestamp \in [Threads -> Int] /\ counter_value \in [Threads -> Nat]
  BY DEF Init, PC
<1>2. issued \in Seq(AnswerSet)
  BY DEF Init
<1>3. \A t \in Threads : pc[t] \notin Passed
  BY DEF Init, Passed
<1>4. up \in BOOLEAN /\ raced \in BOOLEAN
  BY Zenon DEF Init
<1> QED BY <1>1, <1>2, <1>3, <1>4, ServiceAssumption DEF Init, TInv, TypeOK

LEMMA NextTInv == TInv /\ [Next]_vars => TInv'
<1> SUFFICES ASSUME TInv, [Next]_vars PROVE TInv'
  OBVIOUS
<1> USE DEF TInv, TypeOK
<1>1. CASE UNCHANGED vars
  BY <1>1 DEF vars, Idle, statics, locals, process
<1>2. ASSUME NEW t \in Threads, Enter(t) PROVE TInv'
  <2>1. raced' \in BOOLEAN
    BY <1>2, Zenon DEF Enter
  <2>2. begun' \in 0 .. MaxCalls
    BY <1>2, ServiceAssumption DEF Enter
  <2>3. pc' \in [Threads -> PC]
    BY <1>2 DEF Enter, Goto, PC, Section
  <2>4. \A u \in Threads : pc'[u] \in Passed => timestamp'[u] >= -1
    BY <1>2 DEF Enter, Goto, Passed
  <2> QED BY <1>2, <2>1, <2>2, <2>3, <2>4 DEF Enter, Idle, statics, process
<1>3. ASSUME NEW t \in Threads, ReadClock(t) PROVE TInv'
  BY <1>3, ServiceAssumption DEF ReadClock, Goto, PC, Section, Passed, Idle, statics, process
<1>4. ASSUME NEW t \in Threads, Check(t) PROVE TInv'
  BY <1>4 DEF Check, Goto, PC, Section, Passed, Idle, statics, process
<1>5. ASSUME NEW t \in Threads, Compare(t) PROVE TInv'
  BY <1>5 DEF Compare, Goto, PC, Section, Passed, Idle, statics, process
<1>6. ASSUME NEW t \in Threads, SetTime(t) PROVE TInv'
  BY <1>6 DEF SetTime, Goto, PC, Section, Passed, Idle, process
<1>7. ASSUME NEW t \in Threads, Zero(t) PROVE TInv'
  BY <1>7 DEF Zero, Goto, PC, Section, Passed, Idle, process
<1>8. ASSUME NEW t \in Threads, Load(t) PROVE TInv'
  BY <1>8 DEF Load, Goto, PC, Section, Passed, Idle, statics, process
<1>9. ASSUME NEW t \in Threads, Store(t) PROVE TInv'
  BY <1>9 DEF Store, Goto, PC, Section, Passed, Idle, process
<1>10. ASSUME NEW t \in Threads, Return(t) PROVE TInv'
  <2>1. PICK m \in MachineIds \cup {0} : issued' = Append(issued, Answer(m, t))
    BY <1>10 DEF Return
  <2>2. issued' \in Seq(AnswerSet)
    BY <2>1, AnswerType
  <2> QED BY <1>10, <2>2 DEF Return, Goto, PC, Section, Passed, Idle, statics, process
<1>11. CASE ExitProcess
  BY <1>11 DEF ExitProcess, Down, PC, Passed, Idle, statics
<1>12. CASE Kill
  BY <1>12 DEF Kill, Down, PC, Passed, Idle, statics
<1>13. CASE Restart
  BY <1>13, ServiceAssumption DEF Restart, Passed, Idle
<1>14. CASE Tick
  BY <1>14, ServiceAssumption DEF Tick, Passed, Idle, statics, locals, process
<1>15. CASE SetBack
  BY <1>15, ServiceAssumption DEF SetBack, Passed, Idle, statics, locals, process
<1> QED BY <1>1, <1>2, <1>3, <1>4, <1>5, <1>6, <1>7, <1>8, <1>9, <1>10, <1>11, <1>12,
           <1>13, <1>14, <1>15 DEF Next, Step

(* Every behaviour is well typed: in particular CURRENT_TIMESTAMP never    *)
(* falls below its initial value and a counter is never negative.          *)
THEOREM TypeCorrect == Spec => []TypeOK
<1>1. TInv => TypeOK
  BY DEF TInv
<1> QED BY <1>1, InitTInv, NextTInv, PTL DEF Spec

-----------------------------------------------------------------------------
(* A process under a clock that only goes forward, and calls that never    *)
(* overlap: the step of every action keeps Forward.                        *)
LEMMA InitEInv == Init => EInv
BY InitTInv, ServiceAssumption
   DEF Init, EInv, Forward, Owner, InSection, Section, Reached

LEMMA NextEInv == EInv /\ [Next]_vars => EInv'
<1> SUFFICES ASSUME EInv, [Next]_vars PROVE EInv'
  OBVIOUS
<1>0. TInv /\ TInv'
  BY NextTInv DEF EInv
<1> SUFFICES ASSUME ~ raced', back' = 0 PROVE Forward'
  BY <1>0 DEF EInv
<1> USE ServiceAssumption DEF TInv, TypeOK
<1>1. CASE UNCHANGED vars
  BY <1>1 DEF vars, statics, locals, process, EInv, Forward, Owner, InSection, Reached
<1>2. ASSUME NEW t \in Threads, Enter(t) PROVE Forward'
  <2>1. ~ raced /\ \A u \in Threads : ~ InSection(u)
    BY <1>2, Zenon DEF Enter
  <2>2. Forward
    BY <1>2, <2>1 DEF Enter, EInv
  <2> QED BY <1>0, <1>2, <2>1, <2>2 DEF Enter, Goto, statics, Forward, Owner, InSection, Reached
<1>3. ASSUME NEW t \in Threads, ReadClock(t) PROVE Forward'
  <2>1. Forward
    BY <1>3 DEF ReadClock, EInv
  <2>2. /\ pc[t] = "now" /\ pc'[t] = "check" /\ timestamp'[t] = clock
        /\ \A u \in Threads \ {t} : pc'[u] = pc[u] /\ timestamp'[u] = timestamp[u]
        /\ CURRENT_TIMESTAMP' = CURRENT_TIMESTAMP /\ clock' = clock
    BY <1>0, <1>3 DEF ReadClock, Goto, statics
  <2>3. \A u \in Threads : InSection(u)' <=> InSection(u)
    BY <2>2 DEF InSection, Section
  <2> HIDE DEF TInv, TypeOK
  <2>4. \A u, v \in Threads : Owner(u, v)'
    BY <2>1, <2>3 DEF Forward, Owner
  <2>5. Reached(CURRENT_TIMESTAMP)'
    BY <2>1, <2>2 DEF Forward, Reached
  <2>6. clock \in Int /\ CURRENT_TIMESTAMP \in Int
    BY <1>0 DEF TInv, TypeOK
  <2> QED BY <2>1, <2>2, <2>4, <2>5, <2>6 DEF Forward, Reached
<1>4. ASSUME NEW t \in Threads, Check(t) PROVE Forward'
  <2>1. Forward
    BY <1>4 DEF Check, EInv
  <2>2. /\ UNCHANGED << CURRENT_TIMESTAMP, timestamp, clock >> /\ pc[t] = "check"
        /\ \A u \in Threads \ {t} : pc'[u] = pc[u]
    BY <1>0, <1>4 DEF Check, Goto, statics
  <2>3. pc'[t] = IF CURRENT_TIMESTAMP > timestamp[t] THEN "exit" ELSE "compare"
    BY <1>0, <1>4 DEF Check, Goto
  <2>4. \A u \in Threads : InSection(u)' => InSection(u)
    BY <2>2, <2>3 DEF InSection, Section
  <2>5. CURRENT_TIMESTAMP \in Int /\ timestamp[t] \in Int /\ clock \in Int
    BY <1>0
  <2>6. /\ timestamp[t] <= clock
        /\ CURRENT_TIMESTAMP = -1 \/ CURRENT_TIMESTAMP <= timestamp[t]
    BY <2>1, <2>2 DEF Forward
  <2> HIDE DEF TInv, TypeOK
  <2>7. \A u, v \in Threads : Owner(u, v)'
    BY <2>1, <2>4 DEF Forward, Owner
  <2>8. Reached(CURRENT_TIMESTAMP)'
    BY <2>1, <2>2 DEF Forward, Reached
  <2>9. pc'[t] = "exit" => timestamp[t] < -1
    BY <2>3, <2>5, <2>6
  <2> QED BY <2>1, <2>2, <2>3, <2>6, <2>7, <2>8, <2>9 DEF Forward
<1>5. ASSUME NEW t \in Threads, Compare(t) PROVE Forward'
  <2>1. Forward
    BY <1>5 DEF Compare, EInv
  <2> QED BY <1>0, <1>5, <2>1 DEF Compare, Goto, statics, Forward, Owner, InSection, Section, Reached
<1>6. ASSUME NEW t \in Threads, SetTime(t) PROVE Forward'
  <2>1. Forward
    BY <1>6 DEF SetTime, EInv
  <2>2. /\ pc[t] = "settime" /\ pc' = [pc EXCEPT ![t] = "zero"]
        /\ CURRENT_TIMESTAMP' = timestamp[t] /\ UNCHANGED << timestamp, clock >>
    BY <1>6 DEF SetTime, Goto
  <2> HIDE DEF TInv, TypeOK
  <2>3. TypeOK
    BY <1>0 DEF TInv
  <2>4. pc \in [Threads -> PC] /\ timestamp \in [Threads -> Int] /\ clock \in Int
    BY <2>3 DEF TypeOK
  <2> QED BY <2>1, <2>2, <2>4 DEF Forward, Owner, InSection, Section, Reached
<1>7. ASSUME NEW t \in Threads, Zero(t) PROVE Forward'
  <2>1. Forward
    BY <1>7 DEF Zero, EInv
  <2> QED BY <1>0, <1>7, <2>1 DEF Zero, Goto, Forward, Owner, InSection, Section, Reached
<1>8. ASSUME NEW t \in Threads, Load(t) PROVE Forward'
  <2>1. Forward
    BY <1>8 DEF Load, EInv
  <2> QED BY <1>0, <1>8, <2>1 DEF Load, Goto, statics, Forward, Owner, InSection, Section, Reached
<1>9. ASSUME NEW t \in Threads, Store(t) PROVE Forward'
  <2>1. Forward
    BY <1>9 DEF Store, EInv
  <2> QED BY <1>0, <1>9, <2>1 DEF Store, Goto, Forward, Owner, InSection, Section, Reached
<1>10. ASSUME NEW t \in Threads, Return(t) PROVE Forward'
  <2>1. Forward
    BY <1>10 DEF Return, EInv
  <2> QED BY <1>0, <1>10, <2>1 DEF Return, Goto, statics, Forward, Owner, InSection, Section, Reached
<1>11. ASSUME Down PROVE Forward'
  <2>1. Forward
    BY <1>11 DEF Down, EInv
  <2> QED BY <1>0, <1>11, <2>1 DEF Down, statics, Forward, Owner, InSection, Section, Reached
<1>12. CASE Restart
  <2>1. Forward
    BY <1>12 DEF Restart, EInv
  <2> QED BY <1>0, <1>12, <2>1 DEF Restart, Forward, Owner, InSection, Idle, Section, Reached
<1>13. CASE Tick
  <2>1. Forward
    BY <1>13 DEF Tick, EInv
  <2>2. clock' \in Int /\ clock \in Int /\ clock < clock'
    BY <1>0, <1>13 DEF Tick
  <2>3. UNCHANGED << CURRENT_TIMESTAMP, pc, timestamp >>
    BY <1>13 DEF Tick, statics, locals
  <2> HIDE DEF TInv, TypeOK
  <2>4. Reached(CURRENT_TIMESTAMP)'
    <3>1. CURRENT_TIMESTAMP \in Int
      BY <1>0 DEF TInv, TypeOK
    <3> QED BY <2>1, <2>2, <2>3, <3>1 DEF Forward, Reached
  <2>5. \A t \in Threads : pc[t] \notin {"idle", "now"} => timestamp[t] <= clock'
    <3>1. \A t \in Threads : timestamp[t] \in Int
      BY <1>0 DEF TInv, TypeOK
    <3> QED BY <2>1, <2>2, <3>1 DEF Forward
  <2> QED BY <2>1, <2>3, <2>4, <2>5 DEF Forward, Owner, InSection
<1>14. CASE SetBack
  BY <1>0, <1>14 DEF SetBack
<1> QED BY <1>1, <1>2, <1>3, <1>4, <1>5, <1>6, <1>7, <1>8, <1>9, <1>10, <1>11, <1>12,
           <1>13, <1>14 DEF Next, Step, ExitProcess, Kill

(* get_counter never ends the process under a clock that is not set back   *)
(* and a host past CUSTOM_EPOCH, unless two calls overlapped.              *)
THEOREM UnracedExits == Spec => []UnracedExitOnlyOnSetBack
<1>1. EInv => UnracedExitOnlyOnSetBack
  BY DEF EInv, TInv, TypeOK, Forward, UnracedExitOnlyOnSetBack, ExitOnlyOnSetBack
<1> QED BY <1>1, InitEInv, NextEInv, PTL DEF Spec

-----------------------------------------------------------------------------
(* One answer more: the old answers stay where they are.                   *)
LEMMA AnswerAppended ==
  ASSUME TInv, NEW t \in Threads, NEW m \in MachineIds \cup {0},
         issued' = Append(issued, Answer(m, t))
  PROVE  /\ DOMAIN issued' = DOMAIN issued \cup {Len(issued) + 1}
         /\ DOMAIN issued = 1 .. Len(issued) /\ Len(issued) \in Nat
         /\ \A i \in DOMAIN issued : issued'[i] = issued[i]
         /\ issued'[Len(issued) + 1] = Answer(m, t)
<1>1. issued \in Seq(AnswerSet) /\ Answer(m, t) \in AnswerSet
  BY AnswerType DEF TInv, TypeOK
<1> QED BY <1>1

LEMMA AnswerParts ==
  TInv => \A i \in DOMAIN issued : /\ issued[i].inc \in Nat /\ issued[i].ts \in Int
                                    /\ issued[i].ctr \in Nat /\ i \in Nat
<1> SUFFICES ASSUME TInv, NEW i \in DOMAIN issued
             PROVE  /\ issued[i].inc \in Nat /\ issued[i].ts \in Int
                    /\ issued[i].ctr \in Nat /\ i \in Nat
  OBVIOUS
<1>1. issued \in Seq(AnswerSet)
  BY DEF TInv, TypeOK
<1>2. issued[i] \in AnswerSet /\ i \in Nat
  BY <1>1
<1> QED BY <1>2 DEF AnswerSet

LEMMA InitUInv == Init => UInv
<1> SUFFICES ASSUME Init PROVE UInv
  OBVIOUS
<1>1. DOMAIN issued = {}
  BY DEF Init
<1>2. TimesBounded /\ AllWellFormed
  BY <1>1 DEF Init, TimesBounded, AllWellFormed
<1>3. Exclusive
  BY <1>1 DEF Init, Exclusive, OneOwner, AllOwned, HeldPast, AnswersPast, HeldDiffer, HeldNew,
     AnswersDiffer, Owner, InSection, Section, Owned, Held
<1> QED BY <1>2, <1>3, InitTInv DEF UInv

LEMMA NextTimesBounded ==
  ASSUME TInv, TimesBounded, [Next]_vars PROVE TimesBounded'
<1> USE ServiceAssumption DEF TInv, TypeOK, TimesBounded
<1>1. CASE UNCHANGED vars
  BY <1>1 DEF vars, locals
<1>2. ASSUME NEW t \in Threads, Enter(t) PROVE TimesBounded'
  BY <1>2 DEF Enter, Goto
<1>3. ASSUME NEW t \in Threads, ReadClock(t) PROVE TimesBounded'
  BY <1>3 DEF ReadClock, Goto
<1>4. ASSUME NEW t \in Threads, Check(t) \/ Compare(t) \/ SetTime(t) \/ Zero(t) PROVE TimesBounded'
  BY <1>4 DEF Check, Compare, SetTime, Zero, Goto
<1>5. ASSUME NEW t \in Threads, Load(t) \/ Store(t) \/ Return(t) PROVE TimesBounded'
  BY <1>5 DEF Load, Store, Return, Goto
<1>6. CASE ExitProcess \/ Kill
  BY <1>6 DEF ExitProcess, Kill, Down
<1>7. CASE Restart
  BY <1>7 DEF Restart, Idle
<1>8. CASE Tick \/ SetBack
  BY <1>8 DEF Tick, SetBack, locals
<1> QED BY <1>1, <1>2, <1>3, <1>4, <1>5, <1>6, <1>7, <1>8 DEF Next, Step

(* Only Return adds an answer; the process number only grows.              *)
LEMMA AnswersKept ==
  ASSUME TInv, [Next]_vars
  PROVE  /\ inc <= inc'
         /\ issued' = issued \/ \E t \in Threads : Return(t)
<1>1. CASE UNCHANGED vars
  BY <1>1 DEF vars, process, TInv, TypeOK
<1>2. ASSUME NEW t \in Threads, Enter(t) \/ Step(t)
      PROVE  inc' = inc /\ (issued' = issued \/ Return(t))
  BY <1>2 DEF Enter, Step, ReadClock, Check, Compare, SetTime, Zero, Load, Store, Return, process
<1>3. CASE ExitProcess \/ Kill
  BY <1>3 DEF ExitProcess, Kill, Down, TInv, TypeOK
<1>4. CASE Restart
  BY <1>4 DEF Restart, TInv, TypeOK
<1>5. CASE Tick \/ SetBack
  BY <1>5 DEF Tick, SetBack, process, TInv, TypeOK
<1> QED BY <1>1, <1>2, <1>3, <1>4, <1>5 DEF Next, TInv, TypeOK

LEMMA NextAllWellFormed ==
  ASSUME TInv, TimesBounded, AllWellFormed, [Next]_vars PROVE AllWellFormed'
<1> USE ServiceAssumption DEF TInv, TypeOK
<1>1. inc \in Nat /\ inc' \in Nat /\ inc <= inc'
  <2> HIDE DEF TInv, TypeOK
  <2>1. TInv'
    BY NextTInv
  <2>2. inc \in Nat /\ inc' \in Nat
    BY <2>1, ServiceAssumption DEF TInv, TypeOK
  <2> QED BY <2>2, AnswersKept
<1>2. \A a \in AnswerSet : WellFormed(a) => WellFormed(a)'
  <2> HIDE DEF TInv, TypeOK
  <2> TAKE a \in AnswerSet
  <2>1. a.inc \in Nat
    BY DEF AnswerSet
  <2>2. a.inc <= inc => a.inc <= inc'
    BY <1>1, <2>1
  <2> QED BY <2>2 DEF WellFormed
<1>3. \A i \in DOMAIN issued : issued[i] \in AnswerSet /\ WellFormed(issued[i])
  <2>1. \A i \in DOMAIN issued : issued[i] \in AnswerSet
    <3>1. issued \in Seq(AnswerSet)
      OBVIOUS
    <3> HIDE DEF TInv, TypeOK
    <3> QED BY <3>1
  <2> HIDE DEF TInv, TypeOK
  <2> QED BY <2>1 DEF AllWellFormed
<1>4. CASE issued' = issued
  BY <1>2, <1>3, <1>4 DEF AllWellFormed
<1>5. ASSUME NEW t \in Threads, Return(t) PROVE AllWellFormed'
  <2>1. PICK m \in MachineIds \cup {0} : issued' = Append(issued, Answer(m, t))
    BY <1>5 DEF Return
  <2>2. timestamp[t] \in -1 .. MaxClock
    <3>1. pc[t] = "compose"
      BY <1>5 DEF Return
    <3>2. timestamp[t] \in Int /\ timestamp[t] >= -1 /\ timestamp[t] <= MaxClock
      BY <3>1 DEF Passed, TimesBounded
    <3> HIDE DEF TInv, TypeOK
    <3> QED BY <3>2
  <2>3. m \in MachineIds \cup {0} /\ inc' = inc
    BY <1>5 DEF Return, process
  <2>4. Answer(m, t) \in AnswerSet
    BY AnswerType
  <2>5. WellFormed(Answer(m, t))
    BY <1>1, <2>2, <2>3 DEF WellFormed, Answer
  <2>6. \A i \in DOMAIN issued' :
           \/ issued'[i] = Answer(m, t)
           \/ i \in DOMAIN issued /\ issued'[i] = issued[i]
    BY <2>1, AnswerAppended
  <2>7. \A i \in DOMAIN issued' : issued'[i] \in AnswerSet /\ WellFormed(issued'[i])
    BY <1>3, <2>4, <2>5, <2>6
  <2> QED BY <1>2, <2>7 DEF AllWellFormed
<1> QED BY <1>4, <1>5, AnswersKept

(* A statement of a call leaves the pairs that are past behind.            *)
LEMMA PastKept ==
  ASSUME TInv, Exclusive, NEW t \in Threads, SetTime(t) \/ Zero(t) \/ Store(t)
  PROVE  \A x \in Int, c \in Nat : Past(x, c) => Past(x, c)'
<1> USE DEF TInv, TypeOK, Exclusive, Past, Goto
<1>1. CASE SetTime(t)
  BY <1>1 DEF SetTime, AllOwned, Owned
<1>2. CASE Zero(t)
  BY <1>2 DEF Zero
<1>3. CASE Store(t)
  BY <1>3 DEF Store, AllOwned, Owned
<1> QED BY <1>1, <1>2, <1>3

(* The clock, the checks: the owner goes on, the statics stay as they are.  *)
LEMMA TestKeepsExclusive ==
  ASSUME TInv, Exclusive, NEW t \in Threads, InSection(t),
         NEW l \in {"check", "exit", "compare", "settime", "load"}, Goto(t, l), pc[t] # "zero",
         UNCHANGED << CURRENT_TIMESTAMP, counter, inc, issued, counter_value >>,
         \A u \in Threads \ {t} : timestamp'[u] = timestamp[u], Owned(t)'
  PROVE  Exclusive'
<1>1. pc'[t] = l /\ \A u \in Threads \ {t} : pc'[u] = pc[u]
  BY DEF Goto, TInv, TypeOK
<1>2. \A u \in Threads : /\ Held(u)' => Held(u) /\ u # t
                         /\ InSection(u)' => InSection(u)
  BY <1>1 DEF Held, InSection
<1>3. \A x, c : Past(x, c) => Past(x, c)'
  BY <1>1 DEF Past
<1>4. OneOwner'
  BY <1>2 DEF Exclusive, OneOwner, Owner
<1>5. AllOwned'
  BY <1>1 DEF Exclusive, AllOwned, Owned
<1>6. HeldPast' /\ AnswersPast'
  BY <1>2, <1>3 DEF Exclusive, HeldPast, AnswersPast
<1>7. HeldDiffer' /\ HeldNew' /\ AnswersDiffer'
  BY <1>2 DEF Exclusive, HeldDiffer, HeldNew, AnswersDiffer
<1> QED BY <1>4, <1>5, <1>6, <1>7 DEF Exclusive

(* The heart of it: the step of every action keeps Exclusive.              *)
LEMMA NextExclusive ==
  ASSUME UInv, [Next]_vars, ~ raced' PROVE Exclusive'
<1>0. TInv
  BY DEF UInv
<1>a. \A i \in DOMAIN issued :
         issued[i].inc \in Nat /\ issued[i].ts \in Int /\ issued[i].ctr \in Nat
  BY <1>0, AnswerParts
<1> USE DEF TInv, TypeOK
<1>1. CASE UNCHANGED vars
  BY <1>1 DEF vars, statics, locals, process, UInv, Exclusive, OneOwner, AllOwned, HeldPast, AnswersPast, HeldDiffer, HeldNew,
     AnswersDiffer, Owner, InSection, Section, Owned, Past, Held
<1>2. ASSUME NEW t \in Threads, Enter(t) PROVE Exclusive'
  <2>1. ~ raced /\ \A u \in Threads : ~ InSection(u)
    BY <1>2, Zenon DEF Enter
  <2>2. Exclusive /\ UNCHANGED << CURRENT_TIMESTAMP, counter, inc, issued >>
    BY <1>2, <2>1 DEF Enter, UInv, statics, process
  <2> QED BY <1>0, <1>2, <2>1, <2>2 DEF Enter, Goto, Exclusive, OneOwner, AllOwned, HeldPast, AnswersPast, HeldDiffer, HeldNew,
     AnswersDiffer, Owner, InSection, Section, Owned, Past, Held
<1>3. ASSUME NEW t \in Threads, ReadClock(t) PROVE Exclusive'
  <2>1. Exclusive /\ UNCHANGED << CURRENT_TIMESTAMP, counter, inc, issued >>
    BY <1>3 DEF ReadClock, UInv, statics, process
  <2>2. /\ pc[t] = "now" /\ Goto(t, "check") /\ counter_value' = counter_value
        /\ \A u \in Threads \ {t} : timestamp'[u] = timestamp[u]
    BY <1>0, <1>3 DEF ReadClock
  <2>3. Owned(t)'
    BY <1>0, <2>2 DEF Goto, Owned
  <2> QED BY <1>0, <2>1, <2>2, <2>3, TestKeepsExclusive DEF InSection, Section
<1>4. ASSUME NEW t \in Threads, Check(t) PROVE Exclusive'
  <2>1. Exclusive /\ UNCHANGED << CURRENT_TIMESTAMP, counter, inc, issued >>
    BY <1>4 DEF Check, UInv, statics, process
  <2>2. /\ pc[t] = "check" /\ UNCHANGED << timestamp, counter_value >>
        /\ Goto(t, IF CURRENT_TIMESTAMP > timestamp[t] THEN "exit" ELSE "compare")
    BY <1>4 DEF Check
  <2>3. Owned(t)'
    BY <1>0, <2>1, <2>2 DEF Goto, Owned
  <2> QED BY <1>0, <2>1, <2>2, <2>3, TestKeepsExclusive DEF InSection, Section
<1>5. ASSUME NEW t \in Threads, Compare(t) PROVE Exclusive'
  <2>1. Exclusive /\ UNCHANGED << CURRENT_TIMESTAMP, counter, inc, issued >>
    BY <1>5 DEF Compare, UInv, statics, process
  <2>2. /\ pc[t] = "compare" /\ UNCHANGED << timestamp, counter_value >>
        /\ Goto(t, IF CURRENT_TIMESTAMP = timestamp[t] THEN "load" ELSE "settime")
    BY <1>5 DEF Compare
  <2>3. CURRENT_TIMESTAMP <= timestamp[t]
    BY <2>1, <2>2 DEF Exclusive, AllOwned, Owned
  <2>4. Owned(t)'
    BY <1>0, <2>1, <2>2, <2>3 DEF Goto, Owned
  <2> QED BY <1>0, <2>1, <2>2, <2>4, TestKeepsExclusive DEF InSection, Section
<1>6. ASSUME NEW t \in Threads, SetTime(t) PROVE Exclusive'
  <2>1. Exclusive /\ UNCHANGED << counter, inc, issued, timestamp, counter_value >>
    BY <1>6 DEF SetTime, UInv, process
  <2>2. \A x \in Int, c \in Nat : Past(x, c) => Past(x, c)'
    BY <1>0, <1>6, <2>1, PastKept
  <2>3. HeldPast' /\ AnswersPast'
    BY <1>0, <1>a, <1>6, <2>1, <2>2 DEF SetTime, Goto, Exclusive, HeldPast, AnswersPast, Held
  <2>4. OneOwner' /\ AllOwned'
    BY <1>0, <1>6, <2>1 DEF SetTime, Goto, Exclusive, OneOwner, AllOwned, Owner, InSection,
       Section, Owned
  <2>5. HeldDiffer' /\ HeldNew' /\ AnswersDiffer'
    BY <1>0, <1>6, <2>1 DEF SetTime, Goto, Exclusive, HeldDiffer, HeldNew, AnswersDiffer, Held
  <2> QED BY <2>3, <2>4, <2>5 DEF Exclusive
<1>7. ASSUME NEW t \in Threads, Zero(t) PROVE Exclusive'
  <2>1. Exclusive /\ UNCHANGED << CURRENT_TIMESTAMP, inc, issued >>
    BY <1>7 DEF Zero, UInv, statics, process
  <2> QED BY <1>0, <1>7, <2>1 DEF Zero, Goto, Exclusive, OneOwner, AllOwned, HeldPast, AnswersPast, HeldDiffer, HeldNew,
     AnswersDiffer, Owner, InSection, Section, Owned, Past, Held
<1>8. ASSUME NEW t \in Threads, Load(t) PROVE Exclusive'
  <2>1. Exclusive /\ UNCHANGED << CURRENT_TIMESTAMP, counter, inc, issued >>
    BY <1>8 DEF Load, UInv, statics, process
  <2> QED BY <1>0, <1>8, <2>1 DEF Load, Goto, Exclusive, OneOwner, AllOwned, HeldPast, AnswersPast, HeldDiffer, HeldNew,
     AnswersDiffer, Owner, InSection, Section, Owned, Past, Held
<1>9. ASSUME NEW t \in Threads, Store(t) PROVE Exclusive'
  <2>1. Exclusive /\ UNCHANGED << CURRENT_TIMESTAMP, inc, issued, timestamp, counter_value >>
    BY <1>9 DEF Store, UInv, process
  <2>2. \A x \in Int, c \in Nat : Past(x, c) => Past(x, c)'
    BY <1>0, <1>9, <2>1, PastKept
  <2>3. /\ timestamp[t] = CURRENT_TIMESTAMP /\ counter_value[t] = counter
        /\ \A u \in Threads : InSection(u) => u = t
        /\ pc' = [pc EXCEPT ![t] = "compose"] /\ counter' = counter + 1
    BY <1>0, <1>9, <2>1 DEF Store, Goto, Exclusive, OneOwner, AllOwned, Owner, InSection,
       Section, Owned
  <2>4. OneOwner' /\ AllOwned'
    BY <1>0, <2>1, <2>3 DEF Exclusive, OneOwner, AllOwned, Owner, InSection, Section, Owned
  <2>5. Past(timestamp[t], counter_value[t])'
    BY <1>0, <2>1, <2>3 DEF Past, InSection, Section
  <2>6. HeldPast' /\ AnswersPast'
    BY <1>0, <1>a, <2>1, <2>2, <2>3, <2>5 DEF Exclusive, HeldPast, AnswersPast, Held
  <2>7. \A x \in Int, c \in Nat : Past(x, c) => x # timestamp[t] \/ c # counter_value[t]
    BY <1>0, <2>3 DEF Past
  <2> DEFINE Other(x, c) == x # timestamp[t] \/ c # counter_value[t]
  <2>8. /\ \A u \in Threads : Held(u) => Other(timestamp[u], counter_value[u])
        /\ \A i \in DOMAIN issued : issued[i].inc = inc => Other(issued[i].ts, issued[i].ctr)
    <3>1. \A u \in Threads : timestamp[u] \in Int /\ counter_value[u] \in Nat
      BY <1>0
    <3> QED BY <1>a, <2>1, <2>7, <3>1 DEF Exclusive, HeldPast, AnswersPast
  <2>9. \A u \in Threads : Held(u)' => u = t \/ Held(u)
    BY <1>0, <2>3 DEF Held
  <2>10. HeldDiffer'
    BY <2>1, <2>8, <2>9 DEF Exclusive, HeldDiffer
  <2>11. HeldNew'
    BY <2>1, <2>8, <2>9 DEF Exclusive, HeldNew
  <2>12. AnswersDiffer'
    BY <2>1 DEF Exclusive, AnswersDiffer
  <2> QED BY <2>4, <2>6, <2>10, <2>11, <2>12 DEF Exclusive
<1>10. ASSUME NEW t \in Threads, Return(t) PROVE Exclusive'
  <2>1. /\ Exclusive /\ pc[t] = "compose" /\ pc' = [pc EXCEPT ![t] = "idle"]
        /\ UNCHANGED << CURRENT_TIMESTAMP, counter, inc, timestamp, counter_value >>
    BY <1>10 DEF Return, Goto, UInv, statics, process
  <2>2. PICK m \in MachineIds \cup {0} : issued' = Append(issued, Answer(m, t))
    BY <1>10 DEF Return
  <2> DEFINE n == Len(issued) + 1
  <2>3. /\ issued'[n].inc = inc /\ issued'[n].ts = timestamp[t]
        /\ issued'[n].ctr = counter_value[t]
    BY <1>0, <2>2, AnswerAppended DEF Answer
  <2>4. /\ DOMAIN issued' = DOMAIN issued \cup {n} /\ n \in Nat
        /\ \A i \in DOMAIN issued : issued'[i] = issued[i] /\ i \in Nat /\ i < n
    BY <1>0, <2>2, AnswerAppended
  <2> HIDE DEF n
  <2>5. OneOwner' /\ AllOwned'
    BY <1>0, <2>1 DEF Exclusive, OneOwner, AllOwned, Owner, InSection, Section, Owned
  <2>6. HeldPast' /\ AnswersPast'
    BY <1>0, <2>1, <2>3, <2>4 DEF Exclusive, HeldPast, AnswersPast, Held, Past
  <2>7. HeldDiffer' /\ HeldNew'
    <3>1. \A u \in Threads : Held(u)' => Held(u) /\ u # t
      BY <1>0, <2>1 DEF Held
    <3>2. HeldDiffer'
      BY <2>1, <3>1 DEF Exclusive, HeldDiffer
    <3>3. ASSUME NEW u \in Threads, NEW i \in DOMAIN issued', Held(u)', issued'[i].inc = inc
          PROVE  timestamp[u] # issued'[i].ts \/ counter_value[u] # issued'[i].ctr
      <4>1. CASE i \in DOMAIN issued
        BY <2>1, <2>4, <3>1, <3>3, <4>1 DEF Exclusive, HeldNew
      <4>2. CASE i = n
        BY <2>1, <2>3, <3>1, <3>3, <4>2 DEF Exclusive, HeldDiffer, Held
      <4> QED BY <2>4, <4>1, <4>2
    <3> QED BY <2>1, <3>2, <3>3 DEF HeldNew
  <2>8. AnswersDiffer'
    <3> SUFFICES ASSUME NEW i \in DOMAIN issued', NEW j \in DOMAIN issued', i < j,
                        issued'[i].inc = issued'[j].inc
                 PROVE  issued'[i].ts # issued'[j].ts \/ issued'[i].ctr # issued'[j].ctr
      BY DEF AnswersDiffer
    <3>1. i \in DOMAIN issued /\ issued'[i] = issued[i]
      BY <2>4
    <3>2. CASE j \in DOMAIN issued
      BY <2>1, <2>4, <3>1, <3>2 DEF Exclusive, AnswersDiffer
    <3>3. CASE j = n
      BY <2>1, <2>3, <3>1, <3>3 DEF Exclusive, HeldNew, Held
    <3> QED BY <2>4, <3>2, <3>3
  <2> QED BY <2>5, <2>6, <2>7, <2>8 DEF Exclusive
<1>11. ASSUME Down PROVE Exclusive'
  <2>1. Exclusive /\ UNCHANGED << CURRENT_TIMESTAMP, counter, inc, issued >>
    BY <1>11 DEF Down, UInv, statics
  <2> QED BY <1>0, <1>11, <2>1 DEF Down, Exclusive, OneOwner, AllOwned, HeldPast, AnswersPast, HeldDiffer, HeldNew,
     AnswersDiffer, Owner, InSection, Section, Owned, Past, Held
<1>12. CASE Restart
  <2>1. /\ ~ raced /\ UNCHANGED << issued, pc >> /\ inc' = inc + 1
        /\ \A t \in Threads : pc[t] = "idle"
    BY <1>0, <1>12 DEF Restart, Idle
  <2>2. \A i \in DOMAIN issued : issued'[i].inc # inc'
    BY <1>0, <1>a, <2>1 DEF UInv, AllWellFormed, WellFormed
  <2>3. AnswersDiffer'
    BY <2>1 DEF UInv, Exclusive, AnswersDiffer
  <2> QED BY <2>1, <2>2, <2>3 DEF Exclusive, OneOwner, AllOwned, HeldPast, AnswersPast,
     HeldDiffer, HeldNew, Owner, InSection, Section, Owned, Held
<1>13. CASE Tick \/ SetBack
  <2>1. Exclusive /\ UNCHANGED << statics, locals, inc, issued >>
    BY <1>13 DEF Tick, SetBack, UInv, process
  <2> QED BY <2>1 DEF statics, locals, Exclusive, OneOwner, AllOwned, HeldPast, AnswersPast, HeldDiffer, HeldNew,
     AnswersDiffer, Owner, InSection, Section, Owned, Past, Held
<1> QED BY <1>1, <1>2, <1>3, <1>4, <1>5, <1>6, <1>7, <1>8, <1>9, <1>10, <1>11, <1>12,
           <1>13 DEF Next, Step, ExitProcess, Kill

LEMMA NextUInv == UInv /\ [Next]_vars => UInv'
BY NextTInv, NextTimesBounded, NextAllWellFormed, NextExclusive DEF UInv

(* Two answers of different pairs have different ids.                      *)
LEMMA PairsDiffer ==
  ASSUME UInv, ~ Wrapped, NEW i \in DOMAIN issued, NEW j \in DOMAIN issued,
         issued[i].ts # issued[j].ts \/ issued[i].ctr # issued[j].ctr
  PROVE  issued[i].id # issued[j].id
<1>1. \A k \in DOMAIN issued : issued[k].ctr \in Nat /\ issued[k].ctr < CtrMod
  BY FieldAssumption, AnswerParts DEF UInv, Wrapped
<1>2. \A k \in DOMAIN issued :
         /\ issued[k].ts \in -1 .. MaxClock
         /\ \E m \in Int : issued[k].id = Fields(m, issued[k].ts, issued[k].ctr)
  BY ServiceAssumption, FieldAssumption DEF UInv, AllWellFormed, WellFormed
<1>3. \A k \in DOMAIN issued : issued[k].ctr \in 0 .. CtrMod - 1
  BY <1>1, FieldAssumption
<1>4. PICK m \in Int, n \in Int :
         /\ issued[i].id = Fields(m, issued[i].ts, issued[i].ctr)
         /\ issued[j].id = Fields(n, issued[j].ts, issued[j].ctr)
  BY <1>2
<1>5. /\ issued[i].ts \in -1 .. MaxClock /\ issued[j].ts \in -1 .. MaxClock
      /\ issued[i].ctr \in 0 .. CtrMod - 1 /\ issued[j].ctr \in 0 .. CtrMod - 1
  BY <1>2, <1>3
<1> QED BY <1>4, <1>5, FieldsDiffer

LEMMA UInvIds == UInv => UnracedUniqueIds
<1> SUFFICES ASSUME UInv, ~ raced, ~ Wrapped,
                    NEW i \in DOMAIN issued, NEW j \in DOMAIN issued,
                    i < j, issued[i].inc = issued[j].inc
             PROVE  issued[i].id # issued[j].id
  BY DEF UnracedUniqueIds, UniqueIds
<1>1. issued[i].ts # issued[j].ts \/ issued[i].ctr # issued[j].ctr
  BY DEF UInv, Exclusive, AnswersDiffer
<1> QED BY <1>1, PairsDiffer

(* Whatever the clock does, a process never answers two calls with the     *)
(* same id, unless two calls overlapped between lock() and unlock() or     *)
(* more ids were taken in a millisecond than the counter field holds.      *)
THEOREM UnracedUniqueness == Spec => []UnracedUniqueIds
<1> QED BY UInvIds, InitUInv, NextUInv, PTL DEF Spec

-----------------------------------------------------------------------------
(* Ids of two processes.                                                   *)
LEMMA InitRInv == Init => RInv
<1> SUFFICES ASSUME Init PROVE Separated
  BY InitTInv DEF RInv
<1>1. DOMAIN issued = {}
  BY DEF Init
<1> QED BY <1>1, ServiceAssumption DEF Init, Separated, Read

LEMMA NextRInv == RInv /\ [Next]_vars => RInv'
<1> SUFFICES ASSUME RInv, [Next]_vars, back' = 0, RestartMs > 0 PROVE Separated'
  BY NextTInv DEF RInv
<1>0. TInv
  BY DEF RInv
<1>a. clock \in Int /\ downAt \in Int /\ inc \in Nat
  BY <1>0, ServiceAssumption DEF TInv, TypeOK
<1>b. pc \in [Threads -> PC] /\ timestamp \in [Threads -> Int]
  BY <1>0 DEF TInv, TypeOK
<1>c. \A i \in DOMAIN issued : issued[i].inc \in Nat /\ issued[i].ts \in Int /\ i \in Nat
  BY <1>0, AnswerParts
<1>1. CASE UNCHANGED vars
  BY <1>1 DEF vars, locals, process, RInv, Separated, Read
<1>2. ASSUME NEW t \in Threads, Enter(t) PROVE Separated'
  BY <1>b, <1>2 DEF Enter, Goto, process, RInv, Separated, Read
<1>3. ASSUME NEW t \in Threads, ReadClock(t) PROVE Separated'
  BY <1>a, <1>b, <1>3 DEF ReadClock, Goto, process, RInv, Separated, Read
<1>4. ASSUME NEW t \in Threads, Check(t) \/ Compare(t) \/ SetTime(t) \/ Zero(t) \/ Load(t) \/ Store(t)
      PROVE  Separated'
  <2>1. UNCHANGED << up, inc, downAt, clock, issued, timestamp >> /\ Separated
    BY <1>4 DEF Check, Compare, SetTime, Zero, Load, Store, process, RInv
  <2>2. Read(t) /\ \E l \in PC : pc' = [pc EXCEPT ![t] = l]
    BY <1>4 DEF Check, Compare, SetTime, Zero, Load, Store, Goto, Read, PC, Section
  <2> QED BY <1>b, <2>1, <2>2 DEF Separated, Read
<1>5. ASSUME NEW t \in Threads, Return(t) PROVE Separated'
  <2>1. /\ UNCHANGED << up, inc, downAt, clock, timestamp >> /\ Separated /\ up
        /\ Read(t) /\ pc' = [pc EXCEPT ![t] = "idle"]
    BY <1>5 DEF Return, Goto, Read, process, RInv
  <2>2. PICK m \in MachineIds \cup {0} : issued' = Append(issued, Answer(m, t))
    BY <1>5 DEF Return
  <2> DEFINE n == Len(issued) + 1
  <2>3. issued'[n].inc = inc /\ issued'[n].ts = timestamp[t]
    BY <1>0, <2>2, AnswerAppended DEF Answer
  <2>4. /\ DOMAIN issued' = DOMAIN issued \cup {n} /\ n \in Nat
        /\ \A i \in DOMAIN issued : issued'[i] = issued[i] /\ i \in Nat /\ i < n
    BY <1>0, <2>2, AnswerAppended
  <2> HIDE DEF n
  <2>5. \A u \in Threads : Read(u)' => Read(u)
    BY <1>b, <2>1 DEF Read
  <2>6. ASSUME NEW i \in DOMAIN issued, issued[i].inc # inc PROVE issued[i].ts # timestamp[t]
    BY <1>a, <1>b, <1>c, <2>1, <2>6 DEF Separated
  <2>7. \A i, j \in DOMAIN issued' :
           i < j /\ issued'[i].inc # issued'[j].inc => issued'[i].ts # issued'[j].ts
    <3> SUFFICES ASSUME NEW i \in DOMAIN issued', NEW j \in DOMAIN issued', i < j,
                        issued'[i].inc # issued'[j].inc
                 PROVE  issued'[i].ts # issued'[j].ts
      OBVIOUS
    <3>1. i \in DOMAIN issued /\ issued'[i] = issued[i]
      BY <2>4
    <3>2. CASE j \in DOMAIN issued
      BY <2>1, <2>4, <3>1, <3>2 DEF Separated
    <3>3. CASE j = n
      BY <2>3, <2>6, <3>1, <3>3
    <3> QED BY <2>4, <3>2, <3>3
  <2>8. \A i \in DOMAIN issued' :
           /\ issued'[i].inc <= inc /\ issued'[i].ts <= clock
           /\ issued'[i].inc < inc => issued'[i].ts <= downAt
           /\ inc > 0 /\ issued'[i].inc = inc => downAt < issued'[i].ts
    BY <1>a, <2>1, <2>3, <2>4 DEF Separated
  <2> QED BY <2>1, <2>5, <2>7, <2>8 DEF Separated
<1>6. ASSUME Down PROVE Separated'
  BY <1>a, <1>c, <1>6 DEF Down, RInv, Separated, Read
<1>7. CASE Restart
  BY <1>0, <1>a, <1>c, <1>7, ServiceAssumption DEF Restart, TInv, Idle, RInv, Separated, Read
<1>8. CASE Tick
  <2>1. UNCHANGED << up, inc, downAt, issued, timestamp, pc >> /\ clock' = clock + 1 /\ Separated
    BY <1>8 DEF Tick, locals, process, RInv
  <2> QED BY <1>a, <1>b, <1>c, <2>1 DEF Separated, Read
<1>9. CASE SetBack
  BY <1>0, <1>9, ServiceAssumption DEF SetBack, TInv, TypeOK
<1> QED BY <1>1, <1>2, <1>3, <1>4, <1>5, <1>6, <1>7, <1>8, <1>9
        DEF Next, Step, ExitProcess, Kill

(* The ids of all processes differ, although the statics are lost, when    *)
(* the clock is never set back and a restart takes at least a millisecond. *)
THEOREM RestartUniqueness == Spec => []UniqueAcrossRestarts
<1>1. UInv /\ RInv => UniqueAcrossRestarts
  <2> SUFFICES ASSUME UInv, RInv, ~ raced, ~ Wrapped, back = 0, RestartMs > 0,
                      NEW i \in DOMAIN issued, NEW j \in DOMAIN issued, i < j
               PROVE  issued[i].id # issued[j].id
    BY DEF UniqueAcrossRestarts
  <2>1. issued[i].ts # issued[j].ts \/ issued[i].ctr # issued[j].ctr
    BY DEF UInv, Exclusive, AnswersDiffer, RInv, Separated
  <2> QED BY <2>1, PairsDiffer
<1> QED BY <1>1, InitUInv, NextUInv, InitRInv, NextRInv, PTL DEF Spec

-----------------------------------------------------------------------------
(* Overtaken calls.  Only the check and the store of the else branch touch *)
(* what NotOvertaken speaks of.                                            *)
LEMMA StampsAndChecks ==
  ASSUME TInv, [Next]_vars
  PROVE  \/ \E t \in Threads : Check(t) \/ SetTime(t)
         \/ inc' # inc /\ overtaken' = overtaken /\ (\A t \in Threads : pc'[t] = "idle")
         \/ /\ UNCHANGED << CURRENT_TIMESTAMP, overtaken >>
            /\ \A t \in Threads : pc'[t] \in {"compare", "settime"} =>
                  pc[t] \in {"compare", "settime"} /\ timestamp'[t] = timestamp[t]
<1>0. /\ pc \in [Threads -> PC] /\ timestamp \in [Threads -> Int] /\ inc \in Int
      /\ ~ up => \A t \in Threads : pc[t] = "idle"
  BY DEF TInv, TypeOK, Idle
<1>1. CASE UNCHANGED vars
  BY <1>1 DEF vars, statics, locals
<1>2. ASSUME NEW t \in Threads,
             Enter(t) \/ ReadClock(t) \/ Compare(t) \/ Zero(t) \/ Load(t) \/ Store(t) \/ Return(t)
      PROVE  /\ UNCHANGED << CURRENT_TIMESTAMP, overtaken >>
             /\ \A u \in Threads : pc'[u] \in {"compare", "settime"} =>
                   pc[u] \in {"compare", "settime"} /\ timestamp'[u] = timestamp[u]
  BY <1>0, <1>2 DEF Enter, ReadClock, Compare, Zero, Load, Store, Return, Goto, statics
<1>3. CASE ExitProcess \/ Kill
  BY <1>3 DEF ExitProcess, Kill, Down, statics
<1>4. CASE Restart
  BY <1>0, <1>4 DEF Restart
<1>5. CASE Tick \/ SetBack
  BY <1>5 DEF Tick, SetBack, statics, locals
<1> QED BY <1>1, <1>2, <1>3, <1>4, <1>5 DEF Next, Step

LEMMA InitOInv == Init => OInv
BY DEF Init, OInv, NotOvertaken

LEMMA NextOInv == UInv /\ OInv /\ [Next]_vars => OInv'
<1> SUFFICES ASSUME UInv, OInv, [Next]_vars PROVE OInv'
  OBVIOUS
<1>0. /\ TInv /\ NotOvertaken /\ (~ raced => overtaken = {} /\ OneOwner)
      /\ pc \in [Threads -> PC] /\ timestamp \in [Threads -> Int]
      /\ CURRENT_TIMESTAMP \in Int
  BY DEF UInv, OInv, Exclusive, TInv, TypeOK
<1>1. ASSUME NEW t \in Threads, Check(t) PROVE OInv'
  <2>1. /\ pc' = [pc EXCEPT ![t] = IF CURRENT_TIMESTAMP > timestamp[t] THEN "exit" ELSE "compare"]
        /\ overtaken' = overtaken \ {t}
        /\ UNCHANGED << CURRENT_TIMESTAMP, timestamp, raced >>
    BY <1>1 DEF Check, Goto, statics
  <2> QED BY <1>0, <2>1 DEF OInv, NotOvertaken
<1>2. ASSUME NEW t \in Threads, SetTime(t) PROVE OInv'
  <2> DEFINE passed == { u \in Threads : pc[u] \in {"compare", "settime"}
                                         /\ timestamp[u] < timestamp[t] }
  <2>1. /\ pc[t] = "settime" /\ pc' = [pc EXCEPT ![t] = "zero"]
        /\ CURRENT_TIMESTAMP' = timestamp[t] /\ overtaken' = overtaken \cup passed
        /\ UNCHANGED << timestamp, raced >>
    BY <1>2 DEF SetTime, Goto
  <2>2. NotOvertaken'
    BY <1>0, <2>1 DEF NotOvertaken
  <2>3. ~ raced => passed = {}
    <3> SUFFICES ASSUME ~ raced, NEW u \in passed PROVE FALSE
      OBVIOUS
    <3>1. InSection(t) /\ InSection(u) /\ u \in Threads /\ timestamp[u] < timestamp[t]
      BY <2>1 DEF InSection, Section
    <3>2. u = t
      BY <1>0, <3>1 DEF OneOwner, Owner
    <3> QED BY <1>0, <3>1, <3>2
  <2> QED BY <1>0, <2>1, <2>2, <2>3 DEF OInv
<1>3. raced => raced'
  BY DEF Next, Step, Enter, ReadClock, Check, Compare, SetTime, Zero, Load, Store, Return,
     ExitProcess, Kill, Down, Restart, Tick, SetBack, vars
<1>4. CASE \A t \in Threads : ~ Check(t) /\ ~ SetTime(t)
  <2>1. overtaken' = overtaken /\ NotOvertaken'
    BY <1>0, <1>4, StampsAndChecks DEF NotOvertaken
  <2> QED BY <1>0, <1>3, <2>1 DEF OInv
<1> QED BY <1>1, <1>2, <1>4

(* Within a process CURRENT_TIMESTAMP is lowered only by a call that       *)
(* another one has overtaken since its check, and so only when calls       *)
(* overlap, whatever the clock does and however many there are.            *)
THEOREM OvertakenLower == Spec => LoweredOnlyByOvertaken
<1>1. UInv /\ OInv /\ [Next]_vars =>
        [inc' = inc /\ CURRENT_TIMESTAMP' < CURRENT_TIMESTAMP =>
           raced /\ \E t \in overtaken :
                       pc[t] = "settime" /\ CURRENT_TIMESTAMP' = timestamp[t]]_vars
  <2> SUFFICES ASSUME UInv, OInv, [Next]_vars, inc' = inc,
                      CURRENT_TIMESTAMP' < CURRENT_TIMESTAMP
               PROVE  raced /\ \E t \in overtaken :
                                  pc[t] = "settime" /\ CURRENT_TIMESTAMP' = timestamp[t]
    OBVIOUS
  <2>1. /\ TInv /\ NotOvertaken /\ (~ raced => overtaken = {}) /\ CURRENT_TIMESTAMP \in Int
        /\ \A t \in Threads : timestamp[t] \in Int
    BY DEF UInv, OInv, TInv, TypeOK
  <2>2. CURRENT_TIMESTAMP' # CURRENT_TIMESTAMP
    BY <2>1
  <2>3. \A t \in Threads : ~ Check(t)
    BY <2>2 DEF Check, statics
  <2>4. PICK t \in Threads : SetTime(t)
    BY <2>1, <2>2, <2>3, StampsAndChecks
  <2>5. pc[t] = "settime" /\ CURRENT_TIMESTAMP' = timestamp[t]
    BY <2>4 DEF SetTime
  <2>6. t \in overtaken
    BY <2>1, <2>5 DEF NotOvertaken
  <2> QED BY <2>1, <2>5, <2>6
<1> QED BY <1>1, InitUInv, NextUInv, InitOInv, NextOInv, PTL DEF Spec, LoweredOnlyByOvertaken

-----------------------------------------------------------------------------
(* Serial calls.                                                           *)
LEMMA InitSInv == Init => SInv
BY DEF Init, SInv, Idle

LEMMA NextSInv == TInv /\ SInv /\ [Next]_vars => SInv'
<1> SUFFICES ASSUME TInv, SInv, [Next]_vars, SerialCalls PROVE SInv'
  BY DEF SInv
<1>0. pc \in [Threads -> PC]
  BY DEF TInv, TypeOK
<1>1. CASE UNCHANGED vars
  BY <1>1 DEF vars, locals, SInv, Idle
<1>2. ASSUME NEW t \in Threads, Enter(t) PROVE SInv'
  <2>1. \A u \in Threads : Idle(u)
    BY <1>2, Zenon DEF Enter, Busy
  <2>2. \A u \in Threads : ~ InSection(u)
    BY <2>1 DEF Idle, InSection, Section
  <2>3. ~ raced'
    BY <1>2, <2>2, Zenon DEF Enter, SInv
  <2> QED BY <1>0, <1>2, <2>1, <2>3 DEF Enter, Goto, SInv, Idle
<1>3. ASSUME NEW t \in Threads, Step(t) PROVE SInv'
  <2>1. raced' = raced /\ ~ Idle(t) /\ \A u \in Threads \ {t} : pc'[u] = pc[u]
    BY <1>0, <1>3 DEF Step, ReadClock, Check, Compare, SetTime, Zero, Load, Store, Return,
       Goto, Idle
  <2> QED BY <2>1 DEF SInv, Idle
<1>4. CASE ExitProcess \/ Kill
  BY <1>4 DEF ExitProcess, Kill, Down, SInv, Idle
<1>5. CASE Restart \/ Tick \/ SetBack
  BY <1>5 DEF Restart, Tick, SetBack, locals, SInv, Idle
<1> QED BY <1>1, <1>2, <1>3, <1>4, <1>5 DEF Next

(* To a client that makes one call at a time, as a proxy with one thread   *)
(* does, every id of a process is new.                                     *)
THEOREM SerialUniqueness == ASSUME SerialCalls PROVE Spec => []UniqueIds
<1>1. UInv /\ SInv => UniqueIds
  BY UInvIds DEF SInv, UnracedUniqueIds
<1> QED BY <1>1, InitUInv, NextUInv, InitTInv, NextTInv, InitSInv, NextSInv, PTL DEF Spec

(* To such a client the process ends itself only when the clock was set    *)
(* back, or reads a time before CUSTOM_EPOCH.                              *)
THEOREM SerialExits == ASSUME SerialCalls PROVE Spec => []ExitOnlyOnSetBack
<1>1. EInv /\ SInv => ExitOnlyOnSetBack
  BY DEF EInv, TInv, TypeOK, Forward, SInv, ExitOnlyOnSetBack
<1> QED BY <1>1, InitEInv, NextEInv, InitTInv, NextTInv, InitSInv, NextSInv, PTL DEF Spec

(* The inductive invariant, which a run checks as well: until two calls    *)
(* race, get_counter's statics are past every pair it gave; until the      *)
(* clock is set back, no call that read it is behind CURRENT_TIMESTAMP,    *)
(* and the end of a process separates its timestamps from later ones.      *)
THEOREM HandlerInvariant == Spec => []HandlerInv
BY InitUInv, NextUInv, InitOInv, NextOInv, InitEInv, NextEInv, InitRInv, NextRInv, PTL
   DEF Spec, HandlerInv

-----------------------------------------------------------------------------
(* Serial calls see a generator of increasing pairs.                       *)
LEMMA InitGInv == Init => GInv
<1> SUFFICES ASSUME Init PROVE HeldLater /\ CountersBounded /\ StampsRead
  BY DEF GInv
<1> QED BY DEF Init, HeldLater, CountersBounded, StampsRead, Held, InSection, Section, Read

LEMMA NextGInv == UInv /\ SInv /\ GInv /\ [Next]_vars => GInv'
<1> SUFFICES ASSUME UInv, SInv, GInv, [Next]_vars, SerialCalls
             PROVE  HeldLater' /\ CountersBounded' /\ StampsRead'
  BY DEF GInv
<1>0. /\ TInv /\ Exclusive /\ HeldLater /\ CountersBounded /\ StampsRead
      /\ \A t, u \in Threads : ~ Idle(t) /\ ~ Idle(u) => t = u
  BY DEF UInv, SInv, GInv
<1>a. /\ pc \in [Threads -> PC] /\ timestamp \in [Threads -> Int]
      /\ counter_value \in [Threads -> Nat]
      /\ counter \in Nat /\ begun \in Nat /\ CURRENT_TIMESTAMP \in Int
      /\ clock \in Int /\ MinClock \in Int /\ MinClock <= clock
  BY <1>0, ServiceAssumption DEF TInv, TypeOK
<1>b. \A i \in DOMAIN issued :
         issued[i].inc \in Nat /\ issued[i].ts \in Int /\ issued[i].ctr \in Nat
  BY <1>0, AnswerParts
<1> DEFINE Later(t, i) ==
      Generator!Later(<< timestamp[t], counter_value[t] >>, Pair(issued[i]))
<1>1. CASE UNCHANGED vars
  BY <1>0, <1>1 DEF vars, statics, locals, process, HeldLater, CountersBounded, StampsRead,
     OfThisProcess, Pair, Held, InSection, Read
<1>2. ASSUME NEW t \in Threads, Enter(t)
      PROVE  HeldLater' /\ CountersBounded' /\ StampsRead'
  <2>1. /\ begun' = begun + 1 /\ pc' = [pc EXCEPT ![t] = "now"]
        /\ UNCHANGED << CURRENT_TIMESTAMP, counter, inc, issued, timestamp, counter_value >>
    BY <1>2 DEF Enter, Goto, statics, process
  <2> QED BY <1>0, <1>a, <2>1 DEF HeldLater, CountersBounded, StampsRead, OfThisProcess, Pair,
          Held, InSection, Section, Read
<1>3. ASSUME NEW t \in Threads, ReadClock(t) \/ Check(t) \/ Compare(t) \/ SetTime(t) \/ Load(t)
      PROVE  HeldLater' /\ CountersBounded' /\ StampsRead'
  <2>1. /\ InSection(t) /\ \E l \in PC \ {"compose", "idle", "now"} : pc' = [pc EXCEPT ![t] = l]
        /\ UNCHANGED << counter, begun, inc, issued >>
    BY <1>3 DEF ReadClock, Check, Compare, SetTime, Load, Goto, statics, process, InSection,
       Section, PC
  <2>2. \A u \in Threads \ {t} : /\ pc'[u] = pc[u]
                                 /\ timestamp'[u] = timestamp[u]
                                 /\ counter_value'[u] = counter_value[u]
    BY <1>3, <1>a, <2>1 DEF ReadClock, Check, Compare, SetTime, Load
  <2>3. ~ Held(t)' /\ (InSection(t)' => InSection(t))
    BY <1>a, <2>1 DEF Held
  <2>4. Read(t)' => MinClock <= timestamp'[t]
    BY <1>0, <1>3, <1>a DEF ReadClock, Check, Compare, SetTime, Load, StampsRead, Read
  <2>5. \A u \in Threads \ {t} : /\ Held(u)' <=> Held(u)
                                 /\ Read(u)' <=> Read(u)
                                 /\ InSection(u)' <=> InSection(u)
    BY <2>2 DEF Held, Read, InSection
  <2>6. HeldLater'
    BY <1>0, <2>1, <2>2, <2>3, <2>5 DEF HeldLater, OfThisProcess, Pair
  <2>7. CountersBounded' /\ StampsRead'
    BY <1>0, <2>1, <2>2, <2>3, <2>4, <2>5 DEF CountersBounded, StampsRead
  <2> QED BY <2>6, <2>7
<1>4. ASSUME NEW t \in Threads, Zero(t)
      PROVE  HeldLater' /\ CountersBounded' /\ StampsRead'
  <2>1. /\ counter' = 0 /\ pc' = [pc EXCEPT ![t] = "load"] /\ pc[t] = "zero"
        /\ UNCHANGED << begun, inc, issued, timestamp, counter_value >>
    BY <1>4 DEF Zero, Goto, process
  <2> QED BY <1>0, <1>a, <2>1 DEF HeldLater, CountersBounded, StampsRead, OfThisProcess, Pair,
          Held, InSection, Section, Read
<1>5. ASSUME NEW t \in Threads, Store(t)
      PROVE  HeldLater' /\ CountersBounded' /\ StampsRead'
  <2>1. /\ counter' = counter_value[t] + 1 /\ pc' = [pc EXCEPT ![t] = "compose"]
        /\ pc[t] = "store"
        /\ UNCHANGED << begun, inc, issued, timestamp, counter_value >>
    BY <1>5 DEF Store, Goto, process
  <2>2. counter_value[t] = counter /\ CURRENT_TIMESTAMP = timestamp[t] /\ counter < begun
    BY <1>0, <2>1 DEF Exclusive, AllOwned, Owned, CountersBounded, InSection, Section
  <2>3. \A u \in Threads \ {t} : pc[u] = "idle"
    BY <1>0, <2>1 DEF Idle
  <2>4. \A i \in OfThisProcess : Later(t, i)
    <3> SUFFICES ASSUME NEW i \in OfThisProcess PROVE Later(t, i)
      OBVIOUS
    <3>1. i \in DOMAIN issued /\ Past(issued[i].ts, issued[i].ctr)
      BY <1>0 DEF OfThisProcess, Exclusive, AnswersPast
    <3> QED BY <1>a, <1>b, <2>2, <3>1 DEF Past, Pair, Generator!Later
  <2>5. HeldLater'
    BY <1>a, <2>1, <2>3, <2>4 DEF HeldLater, OfThisProcess, Pair, Held
  <2>6. CountersBounded'
    BY <1>a, <2>1, <2>2, <2>3 DEF CountersBounded, Held, InSection, Section
  <2>7. StampsRead'
    BY <1>0, <1>a, <2>1 DEF StampsRead, Read
  <2> QED BY <2>5, <2>6, <2>7
<1>6. ASSUME NEW t \in Threads, Return(t)
      PROVE  HeldLater' /\ CountersBounded' /\ StampsRead'
  <2>1. /\ pc' = [pc EXCEPT ![t] = "idle"] /\ pc[t] = "compose"
        /\ UNCHANGED << counter, begun, timestamp >>
    BY <1>6 DEF Return, Goto, statics
  <2>2. \A u \in Threads : pc'[u] = "idle"
    BY <1>0, <1>a, <2>1 DEF Idle
  <2> QED BY <1>0, <2>1, <2>2 DEF HeldLater, CountersBounded, StampsRead, Held, InSection,
          Section, Read
<1>7. CASE ExitProcess \/ Kill
  <2>1. UNCHANGED << counter, begun >> /\ \A t \in Threads : pc'[t] = "idle"
    BY <1>7 DEF ExitProcess, Kill, Down, statics
  <2> QED BY <1>0, <2>1 DEF HeldLater, CountersBounded, StampsRead, Held, InSection,
          Section, Read
<1>8. CASE Restart
  <2>1. counter' = 0 /\ begun' = begun /\ \A t \in Threads : pc'[t] = "idle"
    BY <1>0, <1>8 DEF Restart, TInv, Idle
  <2> QED BY <1>a, <2>1 DEF HeldLater, CountersBounded, StampsRead, Held, InSection,
          Section, Read
<1>9. CASE Tick \/ SetBack
  <2>1. UNCHANGED << counter, begun, inc, issued, pc, timestamp, counter_value >>
    BY <1>9 DEF Tick, SetBack, statics, locals, process
  <2> QED BY <1>0, <2>1 DEF HeldLater, CountersBounded, StampsRead, OfThisProcess, Pair,
          Held, InSection, Read
<1> QED BY <1>1, <1>2, <1>3, <1>4, <1>5, <1>6, <1>7, <1>8, <1>9 DEF Next, Step

(* A held pair is the latest, and the counter counts calls.                *)
THEOREM GeneratorInvariant == Spec => []GInv
BY InitGInv, NextGInv, InitUInv, NextUInv, InitTInv, NextTInv, InitSInv, NextSInv, PTL
   DEF Spec, UInv

(* What each step is to the generator.                                     *)
LEMMA PairsKept ==
  ASSUME inc' = inc, issued' = issued PROVE PairsGiven' = PairsGiven
BY DEF PairsGiven, OfThisProcess, Pair

LEMMA ReturnGives ==
  ASSUME UInv, SInv, GInv, SerialCalls, NEW t \in Threads, Return(t)
  PROVE  Generator!Give
<1> DEFINE p == << timestamp[t], counter_value[t] >>
           n == Len(issued) + 1
<1>1. /\ TInv /\ HeldLater /\ CountersBounded /\ StampsRead /\ TimesBounded
      /\ up /\ pc[t] = "compose" /\ up' = up /\ inc' = inc
  BY DEF UInv, GInv, Return, process
<1>2. PICK m \in MachineIds \cup {0} : issued' = Append(issued, Answer(m, t))
  BY DEF Return
<1>3. p \in (MinClock .. MaxClock) \X (0 .. MaxCalls)
  <2>1. /\ timestamp[t] \in Int /\ counter_value[t] \in Nat
        /\ begun <= MaxCalls /\ begun \in Nat
    BY <1>1, ServiceAssumption DEF TInv, TypeOK
  <2>2. counter_value[t] < begun /\ MinClock <= timestamp[t] /\ timestamp[t] <= MaxClock
    BY <1>1 DEF CountersBounded, StampsRead, TimesBounded, Held, Read
  <2> QED BY <2>1, <2>2, ServiceAssumption
<1>4. \A q \in PairsGiven : Generator!Later(p, q)
  BY <1>1 DEF HeldLater, Held, PairsGiven
<1>5. PairsGiven' = PairsGiven \cup {p}
  <2>1. /\ DOMAIN issued' = DOMAIN issued \cup {n}
        /\ \A i \in DOMAIN issued : issued'[i] = issued[i]
        /\ issued'[n] = Answer(m, t)
    BY <1>1, <1>2, AnswerAppended
  <2>2. issued'[n].inc = inc /\ Pair(issued'[n]) = p
    BY <2>1 DEF Answer, Pair
  <2> HIDE DEF n, p
  <2>3. /\ OfThisProcess' = OfThisProcess \cup {n}
        /\ \A i \in OfThisProcess : issued'[i] = issued[i]
    <3>1. OfThisProcess' = { i \in DOMAIN issued' : issued'[i].inc = inc }
      BY <1>1 DEF OfThisProcess
    <3> QED BY <2>1, <2>2, <3>1 DEF OfThisProcess
  <2>4. PairsGiven' = { Pair(issued'[i]) : i \in OfThisProcess' }
    BY DEF PairsGiven, Pair
  <2> QED BY <2>2, <2>3, <2>4 DEF PairsGiven
<1> QED BY <1>1, <1>3, <1>4, <1>5 DEF Generator!Give

LEMMA RestartBegins ==
  ASSUME UInv, Restart PROVE Generator!Begin
<1>1. ~ up /\ up' /\ inc' = inc + 1 /\ issued' = issued /\ up' = TRUE
  BY DEF Restart
<1>2. \A i \in DOMAIN issued : issued[i].inc \in Nat /\ issued[i].inc <= inc
  BY AnswerParts DEF UInv, AllWellFormed, WellFormed
<1>3. inc \in Nat
  BY ServiceAssumption DEF UInv, TInv, TypeOK
<1>4. PairsGiven' = {}
  BY <1>1, <1>2, <1>3 DEF PairsGiven, OfThisProcess
<1> QED BY <1>1, <1>4 DEF Generator!Begin

LEMMA StepGenerates ==
  ASSUME UInv, SInv, GInv, SerialCalls, [Next]_vars
  PROVE  [Generator!GNext]_(Generator!gvars)
<1>1. ASSUME up' = up, inc' = inc, issued' = issued PROVE UNCHANGED Generator!gvars
  BY <1>1, PairsKept DEF Generator!gvars
<1>2. CASE UNCHANGED vars
  BY <1>1, <1>2 DEF vars, process
<1>3. ASSUME NEW t \in Threads, Enter(t) \/ Step(t), ~ Return(t)
      PROVE  UNCHANGED Generator!gvars
  <2>1. up' = up /\ inc' = inc /\ issued' = issued
    BY <1>3 DEF Enter, Step, ReadClock, Check, Compare, SetTime, Zero, Load, Store, process
  <2> QED BY <1>1, <2>1
<1>4. CASE ExitProcess \/ Kill
  <2>1. up /\ up' = FALSE /\ inc' = inc /\ issued' = issued
    BY <1>4 DEF ExitProcess, Kill, Down
  <2>2. up = TRUE
    BY <2>1 DEF UInv, TInv, TypeOK
  <2> QED BY <2>1, <2>2, PairsKept DEF Generator!GNext, Generator!Stop
<1>5. CASE Tick \/ SetBack
  <2>1. up' = up /\ inc' = inc /\ issued' = issued
    BY <1>5 DEF Tick, SetBack, process
  <2> QED BY <1>1, <2>1
<1> QED BY <1>2, <1>3, <1>4, <1>5, ReturnGives, RestartBegins DEF Next, Generator!GNext

(* Serial calls implement the generator: each answer carries a pair later  *)
(* than all the process gave before, made of a clock that was read and a   *)
(* counter no greater than the calls begun.                                *)
THEOREM SerialGenerator == ASSUME SerialCalls PROVE Spec => IncreasingPairs
<1>1. Init => Generator!GInit
  BY DEF Init, Generator!GInit, PairsGiven, OfThisProcess
<1>2. UInv /\ SInv /\ GInv /\ [Next]_vars => [Generator!GNext]_(Generator!gvars)
  BY StepGenerates
<1> QED BY <1>1, <1>2, InitUInv, NextUInv, InitTInv, NextTInv, InitSInv, NextSInv, InitGInv,
        NextGInv, PTL DEF Spec, IncreasingPairs, Generator!GSpec
=============================================================================
