------------------------------ MODULE UniqueID ------------------------------
(***************************************************************************)
(* One process of the unique-id service: compute_unique_id and             *)
(* get_counter, as the threads of the server run them.                     *)
(*                                                                         *)
(* The two statics CURRENT_TIMESTAMP and counter are shared by every       *)
(* thread.  The std::mutex that compute_unique_id locks is a local         *)
(* variable, a new one in every call, so it never makes anybody wait: the  *)
(* model has no lock, only the interval between lock() and unlock()        *)
(* (InSection) that the mutex was written for.  The Makefiles compile      *)
(* without optimisation, so each access to a static is a load or a store   *)
(* of its own, and each is one step here.                                  *)
(*                                                                         *)
(* The same code is in the three DSBUniqueIDService servers and, with a    *)
(* oneway result, in the three of DSBUniqueIDAsyncService; they differ in  *)
(* how many threads call it, which is the constant Threads here.           *)
(***************************************************************************)
EXTENDS IdFields, Sequences

CONSTANTS
  Threads,      (* server threads that may run the handler                 *)
  MachineIds,   (* machine hashes GetMachineId can come to                 *)
  MinClock,     (* the clock, in ms since CUSTOM_EPOCH, ranges over        *)
  MaxClock,     (*   MinClock .. MaxClock (bound)                          *)
  MaxBack,      (* how often the clock may be set back (bound)             *)
  MaxCalls,     (* calls ever begun (bound)                                *)
  MaxRestarts,  (* processes started after the first one (bound)           *)
  RestartMs,    (* ms that pass at least between two processes             *)
  SerialCalls   (* TRUE: the only client is a proxy with one thread, so    *)
                (*   a call begins when no other is being served           *)

ASSUME ServiceAssumption ==
  /\ Threads # {}
  /\ MachineIds # {} /\ MachineIds \subseteq 0 .. MachMod - 1
  /\ MinClock \in Int /\ MaxClock \in Int /\ MinClock <= MaxClock
  /\ MaxClock < TsMod - 1
  /\ MaxBack \in Nat /\ MaxCalls \in Nat
  /\ MaxRestarts \in Nat /\ RestartMs \in Nat
  /\ SerialCalls \in BOOLEAN

VARIABLES
  up,                (* the process is running                             *)
  inc,               (* its number among the processes started so far      *)
  CURRENT_TIMESTAMP, (* static: timestamp of the last counter              *)
  counter,           (* static: next counter for CURRENT_TIMESTAMP         *)
  pc,                (* where each thread is                               *)
  timestamp,         (* each thread's local: the clock it read             *)
  counter_value,     (* each thread's local: the counter it loaded         *)
  clock,             (* system_clock::now(), in ms since CUSTOM_EPOCH      *)
  back,              (* how often the clock has been set back              *)
  downAt,            (* the clock when the last process ended              *)
  begun,             (* calls begun so far                                 *)
  issued,            (* history: the answers, in the order they left       *)
  raced,             (* history: two calls were between lock() and         *)
                     (*   unlock() at the same time                        *)
  overtaken          (* history: threads that another call, with a later   *)
                     (*   timestamp, has overtaken since their own check   *)

statics == << CURRENT_TIMESTAMP, counter >>
locals  == << pc, timestamp, counter_value >>
process == << up, inc, downAt >>
vars    == << statics, locals, process, clock, back, begun, issued, raced, overtaken >>

-----------------------------------------------------------------------------
(* The statements of a call at which a thread can be interrupted.          *)
Section == {"now", "check", "compare", "settime", "zero", "load", "store"}
PC      == {"idle", "compose", "exit"} \cup Section

InSection(t) == pc[t] \in Section
Idle(t)      == pc[t] = "idle"
Busy         == { t \in Threads : ~ Idle(t) }

(* An answer: the process that gave it, the pair of get_counter, and the   *)
(* number the client is sent.                                              *)
Answer(m, t) == [ inc |-> inc, ts |-> timestamp[t], ctr |-> counter_value[t],
                  id |-> Fields(m, timestamp[t], counter_value[t]) ]
AnswerSet == [ inc : Nat, ts : Int, ctr : Nat, id : Int \X Int \X Int ]

Goto(t, label) == pc' = [pc EXCEPT ![t] = label]

Init ==
  /\ up = TRUE /\ inc = 0
  /\ CURRENT_TIMESTAMP = -1 /\ counter = 0
  /\ pc = [t \in Threads |-> "idle"]
  /\ timestamp = [t \in Threads |-> 0]
  /\ counter_value = [t \in Threads |-> 0]
  /\ clock = MinClock /\ back = 0 /\ downAt = MinClock
  /\ begun = 0 /\ issued = << >> /\ raced = FALSE
  /\ overtaken = {}

-----------------------------------------------------------------------------
(* compute_unique_id up to thread_lock.lock(), which never blocks.         *)
Enter(t) ==
  /\ up /\ Idle(t) /\ begun < MaxCalls
  /\ SerialCalls => Busy = {}
  /\ Goto(t, "now")
  /\ begun' = begun + 1
  /\ raced' = (raced \/ \E u \in Threads : InSection(u))
  /\ UNCHANGED << statics, timestamp, counter_value, process, clock, back, issued,
                  overtaken >>

(* Mutant: the clock is read in seconds (two ticks of the model's clock).   *)
ReadClock_Seconds(t) ==
  /\ up /\ pc[t] = "now"
  /\ timestamp' = [timestamp EXCEPT ![t] = clock \div 2]
  /\ Goto(t, "check")
  /\ UNCHANGED << statics, counter_value, process, clock, back, begun,
                  issued, raced, overtaken >>

(* timestamp = system_clock::now() - CUSTOM_EPOCH                          *)
ReadClock(t) ==
  /\ up /\ pc[t] = "now"
  /\ timestamp' = [timestamp EXCEPT ![t] = clock]
  /\ Goto(t, "check")
  /\ UNCHANGED << statics, counter_value, process, clock, back, begun,
                  issued, raced, overtaken >>

(* Mutants: no check, and a check that takes an equal timestamp for a step  *)
(* back.                                                                   *)
Check_Missing(t) ==
  /\ up /\ pc[t] = "check"
  /\ Goto(t, "compare")
  /\ overtaken' = overtaken \ {t}
  /\ UNCHANGED << statics, timestamp, counter_value, process, clock, back, begun,
                  issued, raced >>

Check_Strict(t) ==
  /\ up /\ pc[t] = "check"
  /\ Goto(t, IF CURRENT_TIMESTAMP >= timestamp[t] THEN "exit" ELSE "compare")
  /\ overtaken' = overtaken \ {t}
  /\ UNCHANGED << statics, timestamp, counter_value, process, clock, back, begun,
                  issued, raced >>

(* if (CURRENT_TIMESTAMP > timestamp) exit(EXIT_FAILURE)                   *)
Check(t) ==
  /\ up /\ pc[t] = "check"
  /\ Goto(t, IF CURRENT_TIMESTAMP > timestamp[t] THEN "exit" ELSE "compare")
  /\ overtaken' = overtaken \ {t}
  /\ UNCHANGED << statics, timestamp, counter_value, process, clock, back, begun,
                  issued, raced >>

(* if (CURRENT_TIMESTAMP == timestamp): the static is loaded once more.    *)
Compare(t) ==
  /\ up /\ pc[t] = "compare"
  /\ Goto(t, IF CURRENT_TIMESTAMP = timestamp[t] THEN "load" ELSE "settime")
  /\ UNCHANGED << statics, timestamp, counter_value, process, clock, back, begun,
                  issued, raced, overtaken >>

(* CURRENT_TIMESTAMP = timestamp                                           *)
SetTime(t) ==
  /\ up /\ pc[t] = "settime"
  /\ CURRENT_TIMESTAMP' = timestamp[t]
  /\ Goto(t, "zero")
  /\ overtaken' = overtaken \cup { u \in Threads : pc[u] \in {"compare", "settime"}
                                                    /\ timestamp[u] < timestamp[t] }
  /\ UNCHANGED << counter, timestamp, counter_value, process, clock, back, begun,
                  issued, raced >>

(* Mutant: counter = -1, for a pre-increment.                               *)
Zero_MinusOne(t) ==
  /\ up /\ pc[t] = "zero"
  /\ counter' = -1
  /\ Goto(t, "load")
  /\ UNCHANGED << CURRENT_TIMESTAMP, timestamp, counter_value, process, clock, back,
                  begun, issued, raced, overtaken >>

(* counter = 0                                                             *)
Zero(t) ==
  /\ up /\ pc[t] = "zero"
  /\ counter' = 0
  /\ Goto(t, "load")
  /\ UNCHANGED << CURRENT_TIMESTAMP, timestamp, counter_value, process, clock, back,
                  begun, issued, raced, overtaken >>

(* return counter++: the load ...                                          *)
Load(t) ==
  /\ up /\ pc[t] = "load"
  /\ counter_value' = [counter_value EXCEPT ![t] = counter]
  /\ Goto(t, "store")
  /\ UNCHANGED << statics, timestamp, process, clock, back, begun,
                  issued, raced, overtaken >>

(* Mutant: return counter, without the increment.                           *)
Store_Lost(t) ==
  /\ up /\ pc[t] = "store"
  /\ counter' = counter_value[t]
  /\ Goto(t, "compose")
  /\ UNCHANGED << CURRENT_TIMESTAMP, timestamp, counter_value, process, clock, back,
                  begun, issued, raced, overtaken >>

(* ... and the store, after which the call unlocks its own mutex.          *)
Store(t) ==
  /\ up /\ pc[t] = "store"
  /\ counter' = counter_value[t] + 1
  /\ Goto(t, "compose")
  /\ UNCHANGED << CURRENT_TIMESTAMP, timestamp, counter_value, process, clock, back,
                  begun, issued, raced, overtaken >>

(* The rest of compute_unique_id, and the answer to the client.            *)
(* GetMachineId is called anew for every id: it hashes bytes past the end  *)
(* of a string (module MachineId), so two calls need not agree; when it    *)
(* fails the machine field stays empty, and nobody looks at its result.    *)
Return(t) ==
  /\ up /\ pc[t] = "compose"
  /\ \E m \in MachineIds \cup {0} : issued' = Append(issued, Answer(m, t))
  /\ Goto(t, "idle")
  /\ UNCHANGED << statics, timestamp, counter_value, process, clock, back, begun,
                  raced,
                  overtaken >>

-----------------------------------------------------------------------------
(* The process ends: exit() has run in some thread, while the other        *)
(* threads went on, or it is killed.  Calls in progress are lost.          *)
Down ==
  /\ up' = FALSE
  /\ downAt' = clock
  /\ pc' = [t \in Threads |-> "idle"]
  /\ UNCHANGED << statics, timestamp, counter_value, inc, clock, back, begun,
                  issued, raced, overtaken >>

ExitProcess == up /\ (\E t \in Threads : pc[t] = "exit") /\ Down

Kill == up /\ inc < MaxRestarts /\ Down

(* A new process: fresh statics.                                           *)
Restart ==
  /\ ~ up /\ inc < MaxRestarts /\ clock >= downAt + RestartMs
  /\ up' = TRUE /\ inc' = inc + 1
  /\ CURRENT_TIMESTAMP' = -1 /\ counter' = 0
  /\ timestamp' = [t \in Threads |-> 0]
  /\ counter_value' = [t \in Threads |-> 0]
  /\ UNCHANGED << pc, downAt, clock, back, begun, issued, raced, overtaken >>

(* The system clock, which an administrator or NTP may set back.           *)
Tick ==
  /\ clock < MaxClock
  /\ clock' = clock + 1
  /\ UNCHANGED << statics, locals, process, back, begun, issued, raced, overtaken >>

SetBack ==
  /\ back < MaxBack
  /\ back' = back + 1
  /\ clock' \in MinClock .. clock - 1
  /\ UNCHANGED << statics, locals, process, begun, issued, raced, overtaken >>

-----------------------------------------------------------------------------
Step(t) == \/ ReadClock(t) \/ Check(t) \/ Compare(t) \/ SetTime(t) \/ Zero(t)
           \/ Load(t) \/ Store(t) \/ Return(t)

Next == \/ \E t \in Threads : Enter(t) \/ Step(t)
        \/ ExitProcess \/ Kill \/ Restart \/ Tick \/ SetBack

Spec == Init /\ [][Next]_vars

-----------------------------------------------------------------------------
(* Types.  A timestamp that got past the check is at least the initial     *)
(* CURRENT_TIMESTAMP, and a counter is never negative.                     *)
TypeOK ==
  /\ up \in BOOLEAN /\ inc \in 0 .. MaxRestarts
  /\ CURRENT_TIMESTAMP \in Int /\ CURRENT_TIMESTAMP >= -1
  /\ counter \in Nat
  /\ pc \in [Threads -> PC]
  /\ timestamp \in [Threads -> Int]
  /\ counter_value \in [Threads -> Nat]
  /\ clock \in MinClock .. MaxClock /\ downAt \in MinClock .. MaxClock
  /\ back \in 0 .. MaxBack /\ begun \in 0 .. MaxCalls
  /\ issued \in Seq(AnswerSet)
  /\ raced \in BOOLEAN /\ overtaken \subseteq Threads

(* More than CtrMod ids were taken in one millisecond: the counter field   *)
(* holds no more, and the code cuts it.                                    *)
Wrapped == \E i \in DOMAIN issued : issued[i].ctr >= CtrMod

(* What compute_unique_id is for: no process answers two calls with the    *)
(* same id.  It holds when calls are serial; the run with concurrent calls *)
(* shows two equal ids, because the mutex is local to the call.            *)
UniqueIds ==
  ~ Wrapped => \A i, j \in DOMAIN issued :
                  i < j /\ issued[i].inc = issued[j].inc => issued[i].id # issued[j].id

(* What get_counter guarantees by itself, whatever the clock does: unless  *)
(* two calls were between lock() and unlock() at once, the ids differ.     *)
UnracedUniqueIds == ~ raced => UniqueIds

(* get_counter ends the process, printing "Timestamps are not              *)
(* incremental.", only when the clock was set back (or reads a time before *)
(* CUSTOM_EPOCH).  It holds when calls are serial; a concurrent call that  *)
(* read the clock before another one and gets to the check after it ends   *)
(* the process under a clock that only goes forward.                       *)
ExitOnlyOnSetBack ==
  \A t \in Threads : pc[t] = "exit" => back > 0 \/ timestamp[t] < -1

(* The same, with the condition that makes it true for concurrent calls.   *)
UnracedExitOnlyOnSetBack == ~ raced => ExitOnlyOnSetBack

(* Restarts lose CURRENT_TIMESTAMP and counter.  Ids still differ across   *)
(* processes, even when every call comes to the same machine hash, if the  *)
(* clock is never set back and at least one millisecond passes before the  *)
(* next process starts.                                                    *)
UniqueAcrossRestarts ==
  ~ raced /\ ~ Wrapped /\ back = 0 /\ RestartMs > 0 =>
     \A i, j \in DOMAIN issued : i < j => issued[i].id # issued[j].id

(* What the check of get_counter leaves open.  It refuses a timestamp      *)
(* earlier than CURRENT_TIMESTAMP, but the static is loaded again behind   *)
(* it, and then tested for equality only: a call that another one, with a  *)
(* later timestamp, has overtaken since its check sets the static back.    *)
(* Nothing else lowers CURRENT_TIMESTAMP within a process, so nothing does *)
(* unless calls overlap.                                                   *)
LoweredOnlyByOvertaken ==
  [][inc' = inc /\ CURRENT_TIMESTAMP' < CURRENT_TIMESTAMP =>
        raced /\ \E t \in overtaken : pc[t] = "settime" /\ CURRENT_TIMESTAMP' = timestamp[t]]_vars
=============================================================================
