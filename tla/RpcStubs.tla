------------------------------ MODULE RpcStubs ------------------------------
(***************************************************************************)
(* The generated stubs of a service: UniqueIDConcurrentClient, which the   *)
(* threads of a client share with one connection, and the processor at the *)
(* other end.  A thread sends its call, then competes for the read mutex.  *)
(* Whoever has it reads the next message; if it answers another call, its  *)
(* header is left in the sync object, the caller is notified, and the      *)
(* reader waits.                                                           *)
(*                                                                         *)
(* The sync object (TConcurrentClientSyncInfo and the two sentries of the  *)
(* Thrift library) is external: two mutexes, the monitors of the calls     *)
(* that wait, the header handed over, and the flags stop and wakeup.  A    *)
(* monitor's wait releases the read mutex; a notification of a thread that *)
(* is not waiting is lost.  The processor of the repository writes replies *)
(* and exceptions with the name and the sequence id of the request, so the *)
(* branches for other messages are not taken.                              *)
(***************************************************************************)
EXTENDS Integers, Sequences, FiniteSets

CONSTANTS
  Threads,    (* the threads that share the client                         *)
  MaxCalls,   (* calls ever made (bound)                                   *)
  None        (* no thread, no message                                     *)

ASSUME StubAssumption == MaxCalls \in Nat /\ None \notin Threads \cup Nat

VARIABLES
  pc,         (* where each thread is                                      *)
  seqid,      (* the sequence id of each thread's call                     *)
  header,     (* rseqid, as each thread got it, or None                    *)
  nextseqid,  (* sync: the next sequence id                                *)
  monitors,   (* sync: sequence ids with a monitor                         *)
  pending,    (* sync: rseqid of the header handed over, or None           *)
  stop,       (* sync: the connection is dead                              *)
  wakeup,     (* sync: wakeupSomeone                                       *)
  readMutex,  (* sync: its owner, or None                                  *)
  writeMutex, (* sync: its owner, or None                                  *)
  requests,   (* sent and not yet served                                   *)
  replies,    (* frames on their way back                                  *)
  frame,      (* the frame whose body is still to be read, or None         *)
  broken,     (* the connection                                            *)
  outcome,    (* history: of each call the server has run                  *)
  result      (* history: what each call came back with                    *)

sync  == << monitors, pending, stop, wakeup, readMutex, writeMutex >>
wire  == << requests, replies, frame, broken, outcome >>
vars  == << pc, seqid, header, nextseqid, sync, wire, result >>

Calls  == 1 .. MaxCalls
Kinds  == {"reply", "exception"}
PC     == {"idle", "lockwrite", "write", "lockread", "pending", "read", "match",
           "check", "waiting", "woken"}

Goto(t, label) == pc' = [pc EXCEPT ![t] = label]

(* notify(): of the thread that waits on the monitor of s, if one does.    *)
Notified(f, S) == [t \in Threads |-> IF f[t] = "waiting" /\ seqid[t] \in S
                                     THEN "woken" ELSE f[t]]
LastOf(S) == { s \in S : \A u \in S : u <= s }

Init ==
  /\ pc = [t \in Threads |-> "idle"]
  /\ seqid = [t \in Threads |-> 0]
  /\ header = [t \in Threads |-> None]
  /\ nextseqid = 1 /\ monitors = {} /\ pending = None
  /\ stop = FALSE /\ wakeup = FALSE /\ readMutex = None /\ writeMutex = None
  /\ requests = << >> /\ replies = << >> /\ frame = None /\ broken = FALSE
  /\ outcome = [c \in Calls |-> "none"]
  /\ result  = [c \in Calls |-> "none"]

-----------------------------------------------------------------------------
(* Mutant: int32_t cseqid = 0, as in the plain client.                     *)
GenerateSeqId_Zero(t) ==
  /\ pc[t] = "idle" /\ nextseqid <= MaxCalls /\ ~ stop
  /\ seqid' = [seqid EXCEPT ![t] = 0]
  /\ monitors' = monitors \cup {0}
  /\ nextseqid' = nextseqid + 1
  /\ Goto(t, "lockwrite")
  /\ UNCHANGED << header, pending, stop, wakeup, readMutex, writeMutex, wire, result >>

(* generateSeqId, which throws when the connection is dead.                *)
GenerateSeqId(t) ==
  /\ pc[t] = "idle" /\ nextseqid <= MaxCalls /\ ~ stop
  /\ seqid' = [seqid EXCEPT ![t] = nextseqid]
  /\ monitors' = monitors \cup {nextseqid}
  /\ nextseqid' = nextseqid + 1
  /\ Goto(t, "lockwrite")
  /\ UNCHANGED << header, pending, stop, wakeup, readMutex, writeMutex, wire, result >>

(* The send sentry.                                                        *)
LockWrite(t) ==
  /\ pc[t] = "lockwrite" /\ writeMutex = None
  /\ writeMutex' = t
  /\ Goto(t, "write")
  /\ UNCHANGED << seqid, header, nextseqid, monitors, pending, stop, wakeup, readMutex,
                  wire, result >>

(* The message is flushed and the sentry committed.  A connection that     *)
(* broke may still take it.                                                *)
Write(t) ==
  /\ pc[t] = "write"
  /\ requests' = IF broken THEN requests ELSE Append(requests, seqid[t])
  /\ writeMutex' = None
  /\ Goto(t, "lockread")
  /\ UNCHANGED << seqid, header, nextseqid, monitors, pending, stop, wakeup, readMutex,
                  replies, frame, broken, outcome, result >>

(* The flush throws: the sentry marks the connection dead and wakes all.   *)
WriteFails(t) ==
  /\ pc[t] = "write" /\ broken
  /\ stop' = TRUE /\ writeMutex' = None
  /\ result' = [result EXCEPT ![seqid[t]] = "failed"]
  /\ pc' = Notified([pc EXCEPT ![t] = "idle"], monitors)
  /\ UNCHANGED << seqid, header, nextseqid, monitors, pending, wakeup, readMutex, wire >>

-----------------------------------------------------------------------------
(* The receive sentry.                                                     *)
LockRead(t) ==
  /\ pc[t] \in {"lockread", "woken"} /\ readMutex = None
  /\ readMutex' = t
  /\ Goto(t, IF pc[t] = "lockread" THEN "pending" ELSE "check")
  /\ UNCHANGED << seqid, header, nextseqid, monitors, pending, stop, wakeup, writeMutex,
                  wire, result >>

(* The receive sentry is left without commit: the connection is dead.      *)
Throw(t) ==
  /\ monitors' = monitors \ {seqid[t]}
  /\ stop' = TRUE /\ readMutex' = None
  /\ result' = [result EXCEPT ![seqid[t]] = "failed"]
  /\ header' = [header EXCEPT ![t] = None]
  /\ pc' = Notified([pc EXCEPT ![t] = "idle"], monitors')
  /\ UNCHANGED << seqid, nextseqid, writeMutex, requests, replies, frame, broken, outcome >>

(* Mutant: a header is read from the connection whether one is handed over *)
(* or not.                                                                 *)
GetPending_Ignored(t) ==
  /\ pc[t] = "pending" /\ ~ stop
  /\ wakeup' = FALSE
  /\ Goto(t, "read")
  /\ UNCHANGED << seqid, header, nextseqid, monitors, pending, stop, readMutex, writeMutex,
                  wire, result >>

(* if (!getPending(...)): a header that was handed over, or to be read.    *)
GetPending(t) ==
  /\ pc[t] = "pending" /\ ~ stop
  /\ wakeup' = FALSE /\ pending' = None
  /\ header' = [header EXCEPT ![t] = pending]
  /\ Goto(t, IF pending = None THEN "read" ELSE "match")
  /\ UNCHANGED << seqid, nextseqid, monitors, stop, readMutex, writeMutex, wire, result >>

GetPendingThrows(t) == pc[t] = "pending" /\ stop /\ Throw(t) /\ UNCHANGED << pending, wakeup >>

(* readMessageBegin                                                        *)
ReadMessageBegin(t) ==
  /\ pc[t] = "read" /\ replies # << >>
  /\ frame' = Head(replies) /\ replies' = Tail(replies)
  /\ header' = [header EXCEPT ![t] = Head(replies)]
  /\ Goto(t, "match")
  /\ UNCHANGED << seqid, nextseqid, sync, requests, broken, outcome, result >>

ReadThrows(t) ==
  /\ pc[t] = "read" /\ replies = << >> /\ broken
  /\ Throw(t) /\ UNCHANGED << pending, wakeup >>

(* Mutant: the body is taken for one's own, whatever the sequence id, as   *)
(* the plain client does.                                                  *)
Receive_Any(t) ==
  /\ pc[t] = "match" /\ frame # None
  /\ frame' = None
  /\ result' = [result EXCEPT ![seqid[t]] = outcome[frame]]
  /\ monitors' = monitors \ {seqid[t]}
  /\ wakeup' = TRUE /\ readMutex' = None
  /\ header' = [header EXCEPT ![t] = None]
  /\ pc' = Notified([pc EXCEPT ![t] = "idle"], LastOf(monitors'))
  /\ UNCHANGED << seqid, nextseqid, pending, stop, writeMutex, requests, replies, broken, outcome >>

(* if (seqid == rseqid): the body is read and returned, or thrown, and the *)
(* sentry committed: its destructor wakes the latest caller.               *)
Receive(t) ==
  /\ pc[t] = "match" /\ header[t] = seqid[t]
  /\ frame' = None
  /\ result' = [result EXCEPT ![seqid[t]] = IF frame = None THEN "garbage" ELSE outcome[frame]]
  /\ monitors' = monitors \ {seqid[t]}
  /\ wakeup' = TRUE /\ readMutex' = None
  /\ header' = [header EXCEPT ![t] = None]
  /\ pc' = Notified([pc EXCEPT ![t] = "idle"], LastOf(monitors'))
  /\ UNCHANGED << seqid, nextseqid, pending, stop, writeMutex, requests, replies, broken, outcome >>

(* Mutant: the caller of the message is not looked for.                    *)
UpdatePending_Silent(t) ==
  /\ pc[t] = "match" /\ header[t] # seqid[t] /\ header[t] \in monitors
  /\ pending' = header[t]
  /\ header' = [header EXCEPT ![t] = None]
  /\ Goto(t, "check")
  /\ UNCHANGED << seqid, nextseqid, monitors, stop, wakeup, readMutex, writeMutex, wire, result >>

(* updatePending: hand the header over and notify its caller.  It throws   *)
(* when no caller has that sequence id, which never happens (StreamInStep). *)
UpdatePending(t) ==
  /\ pc[t] = "match" /\ header[t] # seqid[t] /\ header[t] \in monitors
  /\ pending' = header[t]
  /\ header' = [header EXCEPT ![t] = None]
  /\ pc' = Notified([pc EXCEPT ![t] = "check"], {header[t]})
  /\ UNCHANGED << seqid, nextseqid, monitors, stop, wakeup, readMutex, writeMutex, wire, result >>

(* waitForWork: goes on when there is something to do, else waits, which   *)
(* releases the read mutex.                                                *)
WaitForWork(t) ==
  /\ pc[t] = "check" /\ ~ stop
  /\ IF wakeup \/ pending = seqid[t]
     THEN Goto(t, "pending") /\ UNCHANGED readMutex
     ELSE Goto(t, "waiting") /\ readMutex' = None
  /\ UNCHANGED << seqid, header, nextseqid, monitors, pending, stop, wakeup, writeMutex,
                  wire, result >>

WaitThrows(t) == pc[t] = "check" /\ stop /\ Throw(t) /\ UNCHANGED << pending, wakeup >>

-----------------------------------------------------------------------------
Without(s, i) == SubSeq(s, 1, i - 1) \o SubSeq(s, i + 1, Len(s))

(* dispatchCall and process_compute_unique_id: the handler runs; what it   *)
(* returns is written as a reply, what it throws as an exception.  A       *)
(* processor takes the requests in order; the client is documented to      *)
(* handle answers in any order, and gets them in any order here.           *)
Serve ==
  /\ ~ broken
  /\ \E i \in DOMAIN requests, k \in Kinds :
        /\ requests' = Without(requests, i)
        /\ replies' = Append(replies, requests[i])
        /\ outcome' = [outcome EXCEPT ![requests[i]] = k]
  /\ UNCHANGED << pc, seqid, header, nextseqid, sync, frame, broken, result >>

(* The server process ends, or the network fails: requests are lost, and   *)
(* some of the replies.                                                    *)
Break ==
  /\ ~ broken
  /\ broken' = TRUE /\ requests' = << >>
  /\ \E n \in 0 .. Len(replies) : replies' = SubSeq(replies, 1, n)
  /\ UNCHANGED << pc, seqid, header, nextseqid, sync, frame, outcome, result >>

-----------------------------------------------------------------------------
Step(t) == \/ LockWrite(t) \/ Write(t) \/ WriteFails(t)
           \/ LockRead(t) \/ GetPending(t) \/ GetPendingThrows(t)
           \/ ReadMessageBegin(t) \/ ReadThrows(t) \/ Receive(t)
           \/ UpdatePending(t) \/ WaitForWork(t) \/ WaitThrows(t)

Next == \/ \E t \in Threads : GenerateSeqId(t) \/ Step(t)
        \/ Serve \/ Break

Spec == Init /\ [][Next]_vars

(* Threads run, a mutex that is free is taken in the end, and the server   *)
(* runs what it was sent.                                                  *)
Fairness == WF_vars(Serve) /\ \A t \in Threads : WF_vars(Step(t))

FairSpec == Spec /\ Fairness

-----------------------------------------------------------------------------
TypeOK ==
  /\ pc \in [Threads -> PC]
  /\ seqid \in [Threads -> Calls \cup {0}]
  /\ header \in [Threads -> Calls \cup {None}]
  /\ nextseqid \in 1 .. MaxCalls + 1
  /\ monitors \subseteq Calls
  /\ pending \in Calls \cup {None} /\ frame \in Calls \cup {None}
  /\ stop \in BOOLEAN /\ wakeup \in BOOLEAN /\ broken \in BOOLEAN
  /\ readMutex \in Threads \cup {None} /\ writeMutex \in Threads \cup {None}
  /\ requests \in Seq(Calls) /\ replies \in Seq(Calls)
  /\ outcome \in [Calls -> Kinds \cup {"none"}]
  /\ result \in [Calls -> Kinds \cup {"none", "failed", "garbage"}]

(* The stream stays in step, although its reader changes between a header  *)
(* and its body: a thread reads a header only when no body is left, and    *)
(* the header that threads hand over is that of the body that is left, and *)
(* its caller is there.                                                    *)
StreamInStep ==
  /\ \A t \in Threads : pc[t] = "read" => frame = None
  /\ \A t \in Threads : pc[t] = "match" => header[t] = frame /\ frame \in monitors
  /\ pending # None => pending = frame

(* The hand-over of the read mutex loses no caller: when some wait, there  *)
(* is one who does not, and it will read or hand over.                     *)
NobodySleepsAlone ==
  (\E t \in Threads : pc[t] = "waiting") =>
     \E t \in Threads : pc[t] \notin {"idle", "waiting"}

-----------------------------------------------------------------------------
(* What makes them so.  A call belongs to the one thread that makes it,    *)
(* until it comes back.                                                    *)
Active(t)  == pc[t] # "idle"
Sent(t)    == pc[t] \notin {"idle", "lockwrite", "write"}
Reading(t) == pc[t] \in {"pending", "read", "match", "check"}

CallsOwned ==
  /\ \A t \in Threads : Active(t) =>
        /\ seqid[t] \in monitors /\ result[seqid[t]] = "none"
        /\ ~ Sent(t) => outcome[seqid[t]] = "none"
  /\ \A t, u \in Threads : Active(t) /\ Active(u) /\ seqid[t] = seqid[u] => t = u
  /\ monitors \subseteq 1 .. nextseqid - 1
  /\ ~ stop => \A s \in monitors : \E t \in Threads : Active(t) /\ seqid[t] = s
  /\ \A c \in Calls : c >= nextseqid => outcome[c] = "none" /\ result[c] = "none"
ReadersHold == \A t \in Threads : Reading(t) <=> readMutex = t

(* A call on its way is in one place, and as long as anybody may still     *)
(* read, the thread that made it is there to come for it.                  *)
Members(s) == { s[i] : i \in DOMAIN s }
Distinct(s) == \A i, j \in DOMAIN s : s[i] = s[j] => i = j
Answered    == Members(replies) \cup ({frame} \ {None})
OnePlace ==
  /\ Distinct(requests) /\ Distinct(replies) /\ frame \notin Members(replies)
  /\ \A c \in Members(requests) : outcome[c] = "none"
  /\ \A c \in Answered : outcome[c] # "none"
Expected ==
  (~ stop \/ \E t \in Threads : pc[t] \in {"read", "match"}) =>
     \A c \in Members(requests) \cup Answered : \E t \in Threads : Sent(t) /\ seqid[t] = c
StopsWhenBroken == /\ stop => broken
                   /\ broken => requests = << >>

(* The header of a body that is left is in one reader's hand, or handed    *)
(* over.                                                                   *)
HandedOver ==
  /\ \A t \in Threads : pc[t] = "read" => frame = None /\ pending = None
  /\ \A t \in Threads : pc[t] = "match" => frame # None /\ header[t] = frame /\ pending = None
  /\ pending # None => pending = frame
  /\ frame # None => pending = frame \/ \E t \in Threads : pc[t] = "match"

(* Somebody goes on by himself; or who was called will find wakeupSomeone, *)
(* or the header handed over to him.                                       *)
Goes(t)   == pc[t] \in {"lockwrite", "write", "lockread", "pending", "read", "match"}
Called(t) == pc[t] \in {"woken", "check"}
SomebodyGoes ==
  /\ stop => \A t \in Threads : pc[t] # "waiting"
  /\ ~ stop /\ (\E t \in Threads : Active(t)) =>
        \E t \in Threads : Goes(t) \/ (Called(t) /\ (wakeup \/ pending = seqid[t]))

StubInv == /\ TypeOK /\ CallsOwned /\ ReadersHold /\ OnePlace /\ Expected
           /\ StopsWhenBroken /\ HandedOver /\ SomebodyGoes

-----------------------------------------------------------------------------
(* One call of a client never fails because of another one, and each comes *)
(* back with what the server did for it, in whatever order threads read    *)
(* and the server answers: the stubs implement RpcContract.                *)
Contract == INSTANCE RpcContract WITH
  open <- 1 .. nextseqid - 1, NotYet <- "none", Failed <- "failed"

CallsKeepContract == Contract!CSpec

(* Every call comes back, also when the connection breaks under it.        *)
EveryCallReturns == \A t \in Threads : pc[t] # "idle" ~> pc[t] = "idle"
=============================================================================
