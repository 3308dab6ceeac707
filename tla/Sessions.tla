------------------------------ MODULE Sessions ------------------------------
(***************************************************************************)
(* The two servers with a handler factory that counts: TradeHistory        *)
(* (dump/nonblocking) and Message (dump/tthreaded).  The factory numbers   *)
(* the connections and gives each a handler of its own, the handler        *)
(* numbers its calls, and an answer is made of the two numbers.  Both      *)
(* libraries ask the factory on the thread that accepts, and run the calls *)
(* of one connection one after the other, so each of these is one step.    *)
(* The numbers are in memory: a restart begins again.                      *)
(***************************************************************************)
EXTENDS Integers, Sequences, FiniteSets

CONSTANTS
  Clients,          (* who connects                                        *)
  Stride,           (* numbers of a connection: 10000                      *)
  IntWidth,         (* an int is in -IntWidth .. IntWidth - 1: 2^31        *)
  UnsignedWidth,    (* an unsigned int is in 0 .. UnsignedWidth - 1: 2^32  *)
  MaxConnections,   (* connections of one run of the server (bound)        *)
  MaxCalls,         (* calls of one connection (bound)                     *)
  MaxRuns           (* runs of the server (bound)                          *)

ASSUME SessionsAssumption ==
  /\ Stride \in Nat \ {0} /\ IntWidth \in Nat \ {0} /\ UnsignedWidth \in Nat \ {0}
  /\ MaxConnections \in Nat /\ MaxCalls \in Nat /\ MaxRuns \in Nat \ {0}

VARIABLES
  up,          (* the server runs                                          *)
  run,         (* which run of the server it is, or was                    *)
  con_count,   (* the factory's count of connections                       *)
  handler,     (* each client's handler: con_id and call_count, or Nobody  *)
  answers      (* history: the calls that were answered, in order          *)

vars == << up, run, con_count, handler, answers >>

Nobody == [con_id |-> 0, call_count |-> 0]
Connected(c) == handler[c] # Nobody

Init ==
  /\ up = TRUE /\ run = 1 /\ con_count = 0 /\ answers = << >>
  /\ handler = [c \in Clients |-> Nobody]

(* What int arithmetic leaves of a number; overflow wraps, as it is built. *)
Int32(v) == ((v + IntWidth) % (2 * IntWidth)) - IntWidth

(* Mutant: a connection has one number less.                               *)
seq_num_Short(con_id, calls) == Int32((con_id * (Stride - 1)) + calls)

(* (con_id * 10000) + (++call_count): calls is what ++ left.               *)
seq_num(con_id, calls) == Int32((con_id * Stride) + calls)

(* Mutant: the last message is told again instead of the first.            *)
motd_Stays(calls) == IF calls < 3 THEN calls ELSE 2

(* msgs[++msg_index % 3], as the index of the message.                     *)
motd(calls) == (calls % UnsignedWidth) % 3

-----------------------------------------------------------------------------
(* Mutant: the factory counts the connections that are open.               *)
Accept_Reuses(c) ==
  /\ up /\ ~ Connected(c) /\ con_count < MaxConnections
  /\ con_count' = con_count + 1
  /\ handler' = [handler EXCEPT ![c] =
       [con_id |-> 1 + Cardinality({ d \in Clients : Connected(d) }), call_count |-> 0]]
  /\ UNCHANGED << up, run, answers >>

(* A client connects: getProcessor and getHandler.                         *)
Accept(c) ==
  /\ up /\ ~ Connected(c) /\ con_count < MaxConnections
  /\ con_count' = con_count + 1
  /\ handler' = [handler EXCEPT ![c] = [con_id |-> con_count + 1, call_count |-> 0]]
  /\ UNCHANGED << up, run, answers >>

(* Mutant: call_count++, the number of the calls before.                   *)
Call_Post(c) ==
  /\ up /\ Connected(c) /\ handler[c].call_count < MaxCalls
  /\ LET h == handler[c] IN
     /\ handler' = [handler EXCEPT ![c] = [con_id |-> h.con_id, call_count |-> h.call_count + 1]]
     /\ answers' = Append(answers, [run |-> run, con |-> h.con_id, n |-> h.call_count,
                                    seq |-> seq_num(h.con_id, h.call_count),
                                    msg |-> motd(h.call_count)])
  /\ UNCHANGED << up, run, con_count >>

(* get_last_sale, or motd, of a connection.                                *)
Call(c) ==
  /\ up /\ Connected(c) /\ handler[c].call_count < MaxCalls
  /\ LET h == handler[c] IN
     /\ handler' = [handler EXCEPT ![c] = [con_id |-> h.con_id, call_count |-> h.call_count + 1]]
     /\ answers' = Append(answers, [run |-> run, con |-> h.con_id, n |-> h.call_count + 1,
                                    seq |-> seq_num(h.con_id, h.call_count + 1),
                                    msg |-> motd(h.call_count + 1)])
  /\ UNCHANGED << up, run, con_count >>

(* The client is gone: releaseHandler.                                     *)
Release(c) ==
  /\ up /\ Connected(c)
  /\ handler' = [handler EXCEPT ![c] = Nobody]
  /\ UNCHANGED << up, run, con_count, answers >>

(* Mutant: the connections outlive the server.                             *)
Stop_Keeps ==
  /\ up /\ up' = FALSE
  /\ UNCHANGED << run, con_count, handler, answers >>

(* The server ends: killed, or, TradeHistory, stopped with 'q'.            *)
Stop ==
  /\ up /\ up' = FALSE
  /\ handler' = [c \in Clients |-> Nobody]
  /\ UNCHANGED << run, con_count, answers >>

(* It is started again, with a factory that has counted nothing.           *)
Start ==
  /\ ~ up /\ run < MaxRuns
  /\ up' = TRUE /\ run' = run + 1 /\ con_count' = 0
  /\ UNCHANGED << handler, answers >>

Next == (\E c \in Clients : Accept(c) \/ Call(c) \/ Release(c)) \/ Stop \/ Start

Spec == Init /\ [][Next]_vars

-----------------------------------------------------------------------------
Answer == [run : Nat \ {0}, con : Nat \ {0}, n : Nat \ {0}, seq : Int, msg : Int]

TypeOK ==
  /\ up \in BOOLEAN /\ run \in Nat \ {0} /\ con_count \in Nat
  /\ handler \in [Clients -> [con_id : Nat, call_count : Nat]]
  /\ answers \in Seq(Answer)

(* No two answers of a run come from the same call of the same connection, *)
(* although clients come, go and come back: the number of a connection is  *)
(* never used again.                                                       *)
CallsAreTold ==
  \A i, j \in 1 .. Len(answers) :
    i # j /\ answers[i].run = answers[j].run /\ answers[i].con = answers[j].con
      => answers[i].n # answers[j].n

(* Within a run two answers have the same sequence number only if the      *)
(* connection that came first has made more than 10000 calls, or a number  *)
(* did not fit an int.                                                     *)
Fits(a) == a.con * Stride + a.n < IntWidth
RepeatsExplained ==
  \A i, j \in 1 .. Len(answers) :
    LET a == answers[i]  b == answers[j] IN
    i # j /\ a.run = b.run /\ a.con <= b.con /\ a.seq = b.seq /\ Fits(a) /\ Fits(b)
      => a.con < b.con /\ a.n > Stride

(* A client is told another message each time, unless its index has come   *)
(* to 2^32, which is not a multiple of three.                              *)
MessageChanges ==
  \A i, j \in 1 .. Len(answers) :
    LET a == answers[i]  b == answers[j] IN
    a.run = b.run /\ a.con = b.con /\ b.n = a.n + 1 /\ b.n % UnsignedWidth # 0
      => a.msg # b.msg

-----------------------------------------------------------------------------
(* What makes them so, step by step.                                       *)
HandlersCounted ==
  \A c \in Clients : Connected(c) => up /\ handler[c].con_id \in 1 .. con_count
HandlersDiffer ==
  \A c, d \in Clients : Connected(c) /\ Connected(d) /\ c # d
                          => handler[c].con_id # handler[d].con_id
AnswersCounted ==
  \A i \in 1 .. Len(answers) : LET a == answers[i] IN
    /\ a.run <= run /\ (a.run = run => a.con <= con_count)
    /\ a.seq = seq_num(a.con, a.n) /\ a.msg = motd(a.n)
    /\ \A c \in Clients : Connected(c) /\ a.run = run /\ a.con = handler[c].con_id
                            => a.n <= handler[c].call_count

SInv == TypeOK /\ HandlersCounted /\ HandlersDiffer /\ AnswersCounted /\ CallsAreTold
=============================================================================
