----------------------------- MODULE ThreadPool -----------------------------
(***************************************************************************)
(* The thread pool of the TThreadPoolServer programs and the event handler *)
(* PoolSvrEvtHandler that grows and shrinks it.                            *)
(*                                                                         *)
(* The server accepts a connection and adds it to the ThreadManager, where *)
(* it waits for a worker.  The worker that takes it runs createContext,    *)
(* serves the connection until the client closes it, and runs              *)
(* deleteContext.  Both hooks read the counts of the pool in calls of      *)
(* their own and then act on what they read: each read is a step here, and *)
(* other workers run in between.                                           *)
(*                                                                         *)
(* The ThreadManager of the Thrift library is modelled by its contract:    *)
(* addWorker raises the limit of workers, starts one and returns when as   *)
(* many run as the limit says; removeWorker lowers the limit and returns   *)
(* when as many run as the limit says; both sleep until then, and whoever  *)
(* makes the count reach the limit wakes one of those that sleep; a worker *)
(* retires when more run than the limit, but only between two connections; *)
(* add blocks the accepting thread while the queue is full.                *)
(***************************************************************************)
EXTENDS Naturals, Sequences, FiniteSets

CONSTANTS
  Workers,     (* threads the pool can start (bound)                       *)
  Conns,       (* connections clients open (bound)                         *)
  InitWorkers, (* newSimpleThreadManager, first argument                   *)
  PendingMax,  (* newSimpleThreadManager, second argument: queue capacity  *)
  TMin,        (* thread_min of PoolSvrEvtHandler                          *)
  TMax,        (* thread_max of PoolSvrEvtHandler                          *)
  Staying,     (* connections of clients that may keep them for ever, as   *)
               (*   the proxy of MLInfer/threadpool does                   *)
  None         (* no connection                                            *)

ASSUME PoolAssumption ==
  /\ IsFiniteSet(Workers) /\ IsFiniteSet(Conns)
  /\ TMin \in Nat \ {0} /\ TMax \in Nat /\ TMin <= TMax
  /\ InitWorkers \in TMin .. TMax /\ InitWorkers <= Cardinality(Workers)
  /\ PendingMax \in Nat \ {0}
  /\ None \notin Conns /\ Staying \subseteq Conns

VARIABLES
  offered,  (* connection the accepting thread is adding, or None          *)
  arrived,  (* connections accepted so far                                 *)
  queue,    (* connections waiting for a worker                            *)
  limit,    (* workers the ThreadManager wants to run                      *)
  woken,    (* workers notified while they slept in addWorker/removeWorker *)
  pc,       (* where each worker is                                        *)
  conn,     (* the connection each worker serves, or None                  *)
  seen,     (* idleWorkerCount() as a worker's deleteContext read it       *)
  closed,   (* connections served to the end                               *)
  overlap   (* history: two hooks ran at the same time                     *)

pool == << queue, limit, woken >>
vars == << offered, arrived, pool, pc, conn, seen, closed, overlap >>

-----------------------------------------------------------------------------
(* "off": not started, or retired; "start": started but not yet counted;   *)
(* "loop": between two connections; "idle": waiting for one; the others    *)
(* are the statements of the hooks and the serving of a connection.        *)
Creating == {"create", "ifmax", "add", "adding"}
Deleting == {"delete", "ifhalf", "ifmin", "remove", "removing"}
Counted  == {"loop", "idle", "serve"} \cup Creating \cup Deleting
PC       == {"off", "start"} \cup Counted

Count(L)        == Cardinality({ w \in Workers : pc[w] \in L })
workerCount     == Count(Counted)
idleWorkerCount == Count({"idle"})

Hooked      == { w \in Workers : pc[w] \in Creating \cup Deleting }
Asleep      == { w \in Workers : pc[w] \in {"adding", "removing"} /\ w \notin woken }
Goto(w, l)  == pc' = [pc EXCEPT ![w] = l]

(* A hook begins in worker w: does another one run?                        *)
HookBegins(w) == overlap' = (overlap \/ Hooked \ {w} # {})

(* workerMonitor_.notify(), when the count has reached the limit: one of   *)
(* those that sleep is woken.                                              *)
Notify(reached) ==
  IF reached /\ Asleep # {}
  THEN \E u \in Asleep : woken' = woken \cup {u}
  ELSE UNCHANGED woken

Init ==
  /\ offered = None /\ arrived = {} /\ queue = << >>
  /\ limit = InitWorkers /\ woken = {}
  /\ \E S \in SUBSET Workers :
        /\ Cardinality(S) = InitWorkers
        /\ pc = [w \in Workers |-> IF w \in S THEN "idle" ELSE "off"]
  /\ conn = [w \in Workers |-> None]
  /\ seen = [w \in Workers |-> 0]
  /\ closed = {} /\ overlap = FALSE

-----------------------------------------------------------------------------
(* Mutant: the second argument of newSimpleThreadManager is forgotten, and  *)
(* the queue has no capacity.                                              *)
Add_Unbounded ==
  /\ offered # None
  /\ queue' = Append(queue, offered) /\ offered' = None
  /\ UNCHANGED << arrived, limit, woken, pc, conn, seen, closed, overlap >>

(* TServer::serve accepts a connection, and add() queues it: at once, or   *)
(* when a worker has made room.                                            *)
Accept(c) ==
  /\ offered = None /\ c \notin arrived
  /\ offered' = c /\ arrived' = arrived \cup {c}
  /\ UNCHANGED << pool, pc, conn, seen, closed, overlap >>

Add ==
  /\ offered # None /\ Len(queue) < PendingMax
  /\ queue' = Append(queue, offered) /\ offered' = None
  /\ UNCHANGED << arrived, limit, woken, pc, conn, seen, closed, overlap >>

(* A worker between two connections takes the next one and enters          *)
(* createContext, or waits, or retires.                                    *)
Take(w) ==
  /\ pc[w] \in {"loop", "idle"} /\ workerCount <= limit /\ queue # << >>
  /\ conn' = [conn EXCEPT ![w] = Head(queue)] /\ queue' = Tail(queue)
  /\ Goto(w, "create") /\ HookBegins(w)
  /\ UNCHANGED << offered, arrived, limit, woken, seen, closed >>

Wait(w) ==
  /\ pc[w] = "loop" /\ workerCount <= limit /\ queue = << >>
  /\ Goto(w, "idle")
  /\ UNCHANGED << offered, arrived, pool, conn, seen, closed, overlap >>

Retire(w) ==
  /\ pc[w] \in {"loop", "idle"} /\ workerCount > limit
  /\ Goto(w, "off")
  /\ Notify(workerCount - 1 = limit)
  /\ UNCHANGED << offered, arrived, queue, limit, conn, seen, closed, overlap >>

(* A new thread runs: the pool counts it, unless the limit was lowered.    *)
Start(w) ==
  /\ pc[w] = "start"
  /\ Goto(w, IF workerCount < limit THEN "loop" ELSE "off")
  /\ Notify(workerCount + 1 = limit)
  /\ UNCHANGED << offered, arrived, queue, limit, conn, seen, closed, overlap >>

-----------------------------------------------------------------------------
(* createContext: if (idleWorkerCount() == 0 ...                           *)
CreateIfIdle(w) ==
  /\ pc[w] = "create"
  /\ Goto(w, IF idleWorkerCount = 0 THEN "ifmax" ELSE "serve")
  /\ UNCHANGED << offered, arrived, pool, conn, seen, closed, overlap >>

(* Mutants: workerCount() < t_min, and workerCount() <= t_max.             *)
CreateIfMax_Min(w) ==
  /\ pc[w] = "ifmax"
  /\ Goto(w, IF workerCount < TMin THEN "add" ELSE "serve")
  /\ UNCHANGED << offered, arrived, pool, conn, seen, closed, overlap >>

CreateIfMax_AtMost(w) ==
  /\ pc[w] = "ifmax"
  /\ Goto(w, IF workerCount <= TMax THEN "add" ELSE "serve")
  /\ UNCHANGED << offered, arrived, pool, conn, seen, closed, overlap >>

(* ... && workerCount() < t_max)                                           *)
CreateIfMax(w) ==
  /\ pc[w] = "ifmax"
  /\ Goto(w, IF workerCount < TMax THEN "add" ELSE "serve")
  /\ UNCHANGED << offered, arrived, pool, conn, seen, closed, overlap >>

(* addWorker(): the limit goes up, a thread is started, and the caller     *)
(* sleeps unless as many run as the limit now says ...                     *)
AddWorker(w) ==
  /\ pc[w] = "add"
  /\ LET next == IF workerCount = limit + 1 THEN "serve" ELSE "adding" IN
     \E n \in Workers :
        /\ pc[n] = "off"
        /\ pc' = [pc EXCEPT ![w] = next, ![n] = "start"]
  /\ limit' = limit + 1
  /\ UNCHANGED << offered, arrived, queue, woken, conn, seen, closed, overlap >>

(* ... until it is woken and the count is the limit.                       *)
Added(w) ==
  /\ pc[w] = "adding" /\ w \in woken /\ workerCount = limit
  /\ Goto(w, "serve") /\ woken' = woken \ {w}
  /\ UNCHANGED << offered, arrived, queue, limit, conn, seen, closed, overlap >>

(* A worker that was woken finds that the count has changed again.         *)
SleepOn(w) ==
  /\ w \in woken /\ workerCount # limit
  /\ woken' = woken \ {w}
  /\ UNCHANGED << offered, arrived, queue, limit, pc, conn, seen, closed, overlap >>

(* The client closes the connection: the worker enters deleteContext.      *)
Close(w) ==
  /\ pc[w] = "serve"
  /\ Goto(w, "delete") /\ HookBegins(w)
  /\ UNCHANGED << offered, arrived, pool, conn, seen, closed >>

(* deleteContext: if (idleWorkerCount() ...                                *)
DeleteReadIdle(w) ==
  /\ pc[w] = "delete"
  /\ seen' = [seen EXCEPT ![w] = idleWorkerCount]
  /\ Goto(w, "ifhalf")
  /\ UNCHANGED << offered, arrived, pool, conn, closed, overlap >>

(* deleteContext returns, and with it the task of the connection.          *)
Finish(w) ==
  /\ closed' = closed \cup {conn[w]}
  /\ conn' = [conn EXCEPT ![w] = None]
  /\ seen' = [seen EXCEPT ![w] = 0]
  /\ Goto(w, "loop")

(* ... >= workerCount()/2 ...                                              *)
DeleteIfHalf(w) ==
  /\ pc[w] = "ifhalf"
  /\ IF seen[w] >= workerCount \div 2
     THEN Goto(w, "ifmin") /\ UNCHANGED << conn, seen, closed >>
     ELSE Finish(w)
  /\ UNCHANGED << offered, arrived, pool, overlap >>

(* ... && workerCount() > t_min)                                           *)
DeleteIfMin(w) ==
  /\ pc[w] = "ifmin"
  /\ IF workerCount > TMin
     THEN Goto(w, "remove") /\ UNCHANGED << conn, seen, closed >>
     ELSE Finish(w)
  /\ UNCHANGED << offered, arrived, pool, overlap >>

(* Mutant: removeWorker(2)                                                 *)
RemoveWorker_Two(w) ==
  /\ pc[w] = "remove"
  /\ limit' = limit - 2
  /\ IF workerCount = limit - 2
     THEN Finish(w) ELSE Goto(w, "removing") /\ UNCHANGED << conn, seen, closed >>
  /\ UNCHANGED << offered, arrived, queue, woken, overlap >>

(* removeWorker(): the limit goes down, and the caller, a worker itself,   *)
(* sleeps unless no more run than the limit now says ...                   *)
RemoveWorker(w) ==
  /\ pc[w] = "remove"
  /\ limit' = limit - 1
  /\ IF workerCount = limit - 1
     THEN Finish(w) ELSE Goto(w, "removing") /\ UNCHANGED << conn, seen, closed >>
  /\ UNCHANGED << offered, arrived, queue, woken, overlap >>

(* ... until it is woken and the count is the limit.                       *)
Removed(w) ==
  /\ pc[w] = "removing" /\ w \in woken /\ workerCount = limit
  /\ Finish(w) /\ woken' = woken \ {w}
  /\ UNCHANGED << offered, arrived, queue, limit, overlap >>

-----------------------------------------------------------------------------
Worker(w) == \/ Take(w) \/ Wait(w) \/ Retire(w) \/ Start(w)
             \/ CreateIfIdle(w) \/ CreateIfMax(w) \/ AddWorker(w) \/ Added(w)
             \/ SleepOn(w)
             \/ DeleteReadIdle(w) \/ DeleteIfHalf(w) \/ DeleteIfMin(w)
             \/ RemoveWorker(w) \/ Removed(w)

Next == \/ \E c \in Conns : Accept(c)
        \/ Add
        \/ \E w \in Workers : Worker(w) \/ Close(w)

Spec == Init /\ [][Next]_vars

(* Threads run unless they sleep, and a client closes its connection in    *)
(* the end unless it is one of those that may stay.                        *)
Fairness ==
  /\ WF_vars(Add)
  /\ \A w \in Workers : /\ WF_vars(Worker(w))
                         /\ WF_vars(conn[w] \notin Staying /\ Close(w))

FairSpec == Spec /\ Fairness

-----------------------------------------------------------------------------
TypeOK ==
  /\ offered \in Conns \cup {None} /\ arrived \subseteq Conns /\ closed \subseteq arrived
  /\ queue \in Seq(Conns) /\ Len(queue) <= PendingMax
  /\ limit \in Nat /\ woken \subseteq Workers
  /\ pc \in [Workers -> PC]
  /\ conn \in [Workers -> Conns \cup {None}]
  /\ seen \in [Workers -> Nat]
  /\ overlap \in BOOLEAN

(* The bounds PoolSvrEvtHandler is constructed with.  They hold when no    *)
(* two hooks run at the same time, and a hook then never leaves the pool   *)
(* between them.                                                           *)
UnoverlappedBounds == ~ overlap => limit \in TMin .. TMax /\ workerCount <= TMax

(* Every check of workerCount() < t_max can be passed by all the workers   *)
(* there are before the first of them adds one: the pool outgrows t_max    *)
(* (a fourth worker runs when TMax = 3), but never beyond this.            *)
OvershootBound == IF TMax = 1 THEN 1 ELSE 2 * TMax - 2
OvershootBounded == workerCount <= OvershootBound

(* Nobody is left to wake those that sleep in addWorker or removeWorker,   *)
(* or to take the next connection: every other worker is with a client     *)
(* that may stay.                                                          *)
Holding == { w \in Workers : pc[w] = "serve" /\ conn[w] \in Staying }
Hung == /\ \A w \in Workers : pc[w] = "off" \/ w \in Asleep \cup Holding
        /\ Asleep # {}

(* Only two hooks at the same time can hang the pool, whoever stays.       *)
HangNeedsOverlap == Hung => overlap

-----------------------------------------------------------------------------
(* What makes them so.  The limit and the count differ by no more than the *)
(* workers that wait for them to be equal, and whoever is about to raise   *)
(* the limit has seen a count below t_max.                                 *)
LimitApproached ==
  /\ limit <= workerCount + Count({"adding"})
  /\ workerCount <= limit + Count({"removing"})
AddsBounded == limit + Count({"add"}) <= OvershootBound

(* A worker has a connection from the moment it takes one to the end of    *)
(* its hooks, and that is one the server has accepted.                     *)
ConnsAccepted ==
  /\ offered # None => offered \in arrived
  /\ \A i \in 1 .. Len(queue) : queue[i] \in arrived
  /\ \A w \in Workers :
        IF pc[w] \in {"serve"} \cup Creating \cup Deleting
        THEN conn[w] \in arrived ELSE conn[w] = None

(* While no two hooks have run at the same time, the limit and the count   *)
(* are equal but for the one thread that is being started or retired, and  *)
(* a test of the count still holds when the worker acts on it.             *)
OneHook == \A v, w \in Hooked : v = w
OneStart ==
  \A w \in Workers : pc[w] = "start" =>
    /\ \E v \in Workers : pc[v] = "adding"
    /\ \A v \in Workers : pc[v] = "start" => v = w
InStep ==
  /\ workerCount # limit => \E w \in Workers : pc[w] \in {"adding", "removing"}
  /\ \A w \in Workers : pc[w] = "adding" =>
        limit = workerCount + IF \E v \in Workers : pc[v] = "start" THEN 1 ELSE 0
  /\ \A w \in Workers : pc[w] = "removing" => workerCount \in {limit, limit + 1}
TestsHold ==
  \A w \in Workers : /\ pc[w] = "add" => workerCount < TMax
                     /\ pc[w] = "remove" => workerCount > TMin
Alone == /\ OneHook /\ OneStart /\ InStep /\ TestsHold
         /\ limit \in TMin .. TMax /\ workerCount <= TMax

(* Nor has a worker slept through its notification, and whoever removes a  *)
(* worker has seen one idle that is so still, or has just retired.         *)
Notified == workerCount = limit => Asleep = {}
SomeIdle == \E v \in Workers : pc[v] = "idle"
IdleLeft ==
  \A w \in Workers :
    /\ pc[w] = "ifhalf" /\ seen[w] > 0 => SomeIdle
    /\ pc[w] = "ifmin" /\ workerCount > 1 => SomeIdle
    /\ pc[w] = "remove" => SomeIdle
    /\ pc[w] = "removing" /\ workerCount # limit => SomeIdle

PInv == /\ TypeOK /\ ConnsAccepted /\ LimitApproached /\ AddsBounded /\ OvershootBounded
        /\ ~ overlap => Alone /\ Notified /\ IdleLeft

-----------------------------------------------------------------------------
(* A connection the server accepted is taken by a worker, however long     *)
(* some clients keep theirs, unless as many of those as t_max hold a       *)
(* worker each, or the pool hangs: the hooks let it grow in time, and      *)
(* never let it shrink to nothing.                                         *)
Taken(c) == c \in closed \/ \E w \in Workers : conn[w] = c
AllHeld  == Cardinality(Holding) >= TMax
EveryConnectionTaken == \A c \in Conns : c \in arrived ~> Taken(c) \/ Hung \/ AllHeld

(* A hook that removes a worker comes back, and says that it has deleted   *)
(* one.  It fails for TMax = 3: two workers that remove one each wait for  *)
(* one another, although every client closes its connection.               *)
RemovalsReturn == \A w \in Workers : pc[w] = "removing" ~> pc[w] # "removing"
=============================================================================
