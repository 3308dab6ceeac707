---------------------------- MODULE UniqueIDInv ----------------------------
(***************************************************************************)
(* Inductive invariants of UniqueID: TInv of the types, UInv of the        *)
(* uniqueness of ids, OInv of overtaken calls, EInv of the exits, RInv of  *)
(* restarts, GInv of the refinement of IdGenerator.  TLC checks them on    *)
(* the small instances, UniqueIDProofs proves them for all.                *)
(***************************************************************************)
EXTENDS UniqueID

(* TypeOK, with what its proof needs to know of the threads: the timestamp *)
(* of a call that passed the check is at least -1, like CURRENT_TIMESTAMP, *)
(* and a process that is down runs no call.                                *)
Passed == {"compare", "settime", "zero", "load", "store", "compose"}

TInv == /\ TypeOK
        /\ \A t \in Threads : pc[t] \in Passed => timestamp[t] >= -1
        /\ ~ up => \A t \in Threads : Idle(t)

-----------------------------------------------------------------------------
(* While no two calls have been in the section at once, one thread owns    *)
(* the statics, and they are past every pair this process has handed out.  *)
Owner(t, u) == InSection(t) /\ InSection(u) => t = u

(* The statics will not give the pair (ts, c) again.  Between the store to *)
(* CURRENT_TIMESTAMP and the store to counter only the timestamp counts.   *)
Past(ts, c) ==
  \/ ts < CURRENT_TIMESTAMP
  \/ /\ ts = CURRENT_TIMESTAMP /\ c < counter
     /\ \A t \in Threads : pc[t] # "zero"

(* What a thread in the section has established about its own timestamp.   *)
Owned(t) ==
  /\ pc[t] = "compare" => CURRENT_TIMESTAMP <= timestamp[t]
  /\ pc[t] = "settime" => CURRENT_TIMESTAMP < timestamp[t]
  /\ pc[t] \in {"zero", "load", "store"} => CURRENT_TIMESTAMP = timestamp[t]
  /\ pc[t] = "store" => counter_value[t] = counter

Held(t) == pc[t] = "compose"

OneOwner    == \A t, u \in Threads : Owner(t, u)
AllOwned    == \A t \in Threads : Owned(t)
HeldPast    == \A t \in Threads : Held(t) => Past(timestamp[t], counter_value[t])
AnswersPast == \A i \in DOMAIN issued :
                  issued[i].inc = inc => Past(issued[i].ts, issued[i].ctr)

(* The pairs held by threads and those in answers of this process differ.  *)
HeldDiffer ==
  \A t, u \in Threads :
     Held(t) /\ Held(u) /\ t # u =>
        timestamp[t] # timestamp[u] \/ counter_value[t] # counter_value[u]
HeldNew ==
  \A t \in Threads : \A i \in DOMAIN issued :
     Held(t) /\ issued[i].inc = inc =>
        timestamp[t] # issued[i].ts \/ counter_value[t] # issued[i].ctr
AnswersDiffer ==
  \A i, j \in DOMAIN issued :
     i < j /\ issued[i].inc = issued[j].inc =>
        issued[i].ts # issued[j].ts \/ issued[i].ctr # issued[j].ctr

Exclusive == /\ OneOwner /\ AllOwned /\ HeldPast /\ AnswersPast
             /\ HeldDiffer /\ HeldNew /\ AnswersDiffer

(* Answers belong to this process or an earlier one, carry a timestamp the *)
(* check let through, and the id made of their pair.                       *)
WellFormed(a) ==
  /\ a.inc <= inc
  /\ a.ts \in -1 .. MaxClock
  /\ \E m \in MachineIds \cup {0} : a.id = Fields(m, a.ts, a.ctr)

AllWellFormed == \A i \in DOMAIN issued : WellFormed(issued[i])

(* No call has read a clock beyond MaxClock.                               *)
TimesBounded ==
  \A t \in Threads : pc[t] \notin {"idle", "now"} => timestamp[t] <= MaxClock

UInv == TInv /\ TimesBounded /\ AllWellFormed /\ (~ raced => Exclusive)

(* What the check found still holds of a call that nobody has overtaken,   *)
(* and without a race nobody is.                                           *)
NotOvertaken ==
  \A t \in Threads \ overtaken :
     pc[t] \in {"compare", "settime"} => CURRENT_TIMESTAMP <= timestamp[t]

OInv == NotOvertaken /\ (~ raced => overtaken = {})

-----------------------------------------------------------------------------
(* While, besides, the clock only went forward, CURRENT_TIMESTAMP is not     *)
(* ahead of it, and a call that is between reading the clock and the check *)
(* is not behind CURRENT_TIMESTAMP.                                        *)
Reached(x) == x <= clock \/ x = -1

Forward ==
  /\ \A t, u \in Threads : Owner(t, u)
  /\ Reached(CURRENT_TIMESTAMP)
  /\ \A t \in Threads :
        /\ pc[t] \notin {"idle", "now"} => timestamp[t] <= clock
        /\ pc[t] \in {"check", "compare", "settime"} =>
              CURRENT_TIMESTAMP = -1 \/ CURRENT_TIMESTAMP <= timestamp[t]
        /\ pc[t] = "exit" => timestamp[t] < -1

EInv == TInv /\ (~ raced /\ back = 0 => Forward)

-----------------------------------------------------------------------------
(* While the clock only went forward and a restart takes a millisecond,    *)
(* the end of the last process separates its timestamps from those of the  *)
(* running one.                                                            *)
Read(t) == pc[t] \notin {"idle", "now"}

Separated ==
  /\ downAt <= clock
  /\ up /\ inc > 0 => downAt < clock
  /\ \A t \in Threads : Read(t) =>
        timestamp[t] <= clock /\ (inc > 0 => downAt < timestamp[t])
  /\ \A i \in DOMAIN issued :
        /\ issued[i].inc <= inc /\ issued[i].ts <= clock
        /\ ~ up \/ issued[i].inc < inc => issued[i].ts <= downAt
        /\ up /\ inc > 0 /\ issued[i].inc = inc => downAt < issued[i].ts
  /\ \A i, j \in DOMAIN issued :
        i < j /\ issued[i].inc # issued[j].inc => issued[i].ts # issued[j].ts

RInv == TInv /\ (back = 0 /\ RestartMs > 0 => Separated)

(* What the handler keeps to, whatever calls overlap: a call that nobody   *)
(* has overtaken is not behind the static; as long as none do overlap, the *)
(* statics are past every pair they gave; as long as the clock, too,   *)
(* only goes forward, they are not ahead of it; and as long as a restart   *)
(* takes a millisecond, its end separates the timestamps of a process from *)
(* those of the next.                                                      *)
HandlerInv == UInv /\ OInv /\ EInv /\ RInv

(* With serial calls one thread at most is busy, and so none ever overlap. *)
SInv == SerialCalls => ~ raced /\ \A t, u \in Threads : ~ Idle(t) /\ ~ Idle(u) => t = u

-----------------------------------------------------------------------------
(* The pairs handed out by the running process: with them it is an         *)
(* IdGenerator, when calls are serial.                                     *)
Pair(a)       == << a.ts, a.ctr >>
OfThisProcess == { i \in DOMAIN issued : issued[i].inc = inc }
PairsGiven    == { Pair(issued[i]) : i \in OfThisProcess }

Generator == INSTANCE IdGenerator WITH
  alive <- up, given <- PairsGiven,
  Stamps <- MinClock .. MaxClock, Counters <- 0 .. MaxCalls

(* Serial calls see an atomic generator of increasing pairs: the reads and *)
(* writes of the statics between two answers cannot be observed.           *)
IncreasingPairs == Generator!GSpec

(* The pair a call holds is later than those of the answers before it, and *)
(* made of a clock that was read and of a counter that no more than the    *)
(* calls begun have raised.                                                *)
HeldLater ==
  \A t \in Threads : Held(t) =>
     \A i \in OfThisProcess :
        Generator!Later(<< timestamp[t], counter_value[t] >>, Pair(issued[i]))
CountersBounded ==
  /\ counter <= begun
  /\ \A t \in Threads : /\ InSection(t) => counter < begun
                        /\ Held(t) => counter_value[t] < begun
StampsRead == \A t \in Threads : Read(t) => MinClock <= timestamp[t]

GInv == SerialCalls => HeldLater /\ CountersBounded /\ StampsRead
=============================================================================
