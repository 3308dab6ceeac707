-------------------------- MODULE ThreadPoolProofs --------------------------
(***************************************************************************)
(* ThreadPool for every number of workers and connections, every queue and *)
(* every t_min and t_max.                                                  *)
(***************************************************************************)
EXTENDS ThreadPool, FiniteSetTheorems, TLAPS

(* The workers at the labels L, when f says where each worker is.          *)
CountIn(f, L) == Cardinality({ w \in Workers : f[w] \in L })

LEMMA CountFinite ==
  ASSUME NEW f, NEW L
  PROVE  IsFiniteSet({ w \in Workers : f[w] \in L })
BY PoolAssumption, FS_Subset

LEMMA CountInType ==
  ASSUME NEW f, NEW L
  PROVE  CountIn(f, L) \in Nat
BY CountFinite, FS_CardinalityType DEF CountIn

(* What a move of one worker does to a count.                              *)
Moved(f, g, w, l) == g = [f EXCEPT ![w] = l]

LEMMA CountMoves ==
  ASSUME NEW f \in [Workers -> PC], NEW g, NEW w \in Workers, NEW l \in PC, NEW L,
         Moved(f, g, w, l)
  PROVE  CountIn(g, L) =
           CountIn(f, L) + (IF l \in L THEN 1 ELSE 0) - (IF f[w] \in L THEN 1 ELSE 0)
<1> DEFINE S == { v \in Workers : f[v] \in L }
           T == { v \in Workers : g[v] \in L }
<1>1. IsFiniteSet(S) /\ Cardinality(S) \in Nat /\ CountIn(f, L) = Cardinality(S)
  BY CountFinite, CountInType DEF CountIn
<1>2. CountIn(g, L) = Cardinality(T)
  BY DEF CountIn
<1>3. g[w] = l /\ \A v \in Workers \ {w} : g[v] = f[v]
  BY DEF Moved
<1>4. CASE l \in L /\ f[w] \in L
  <2>1. T = S
    BY <1>3, <1>4
  <2> QED
    BY <1>1, <1>2, <1>4, <2>1
<1>5. CASE l \in L /\ f[w] \notin L
  <2>1. T = S \cup {w} /\ w \notin S
    BY <1>3, <1>5
  <2>2. Cardinality(T) = Cardinality(S) + 1
    <3> HIDE DEF S, T
    <3> QED
      BY <1>1, <2>1, FS_AddElement
  <2> QED
    BY <1>1, <1>2, <1>5, <2>2
<1>6. CASE l \notin L /\ f[w] \in L
  <2>1. T = S \ {w} /\ w \in S
    BY <1>3, <1>6
  <2>2. Cardinality(T) = Cardinality(S) - 1
    <3> HIDE DEF S, T
    <3> QED
      BY <1>1, <2>1, FS_RemoveElement
  <2> QED
    BY <1>1, <1>2, <1>6, <2>2
<1>7. CASE l \notin L /\ f[w] \notin L
  <2>1. T = S
    BY <1>3, <1>7
  <2> QED
    BY <1>1, <1>2, <1>7, <2>1
<1> QED
  BY <1>4, <1>5, <1>6, <1>7

(* Workers at other labels than those of L are not counted in it, and all  *)
(* those of L and M are in a set that has both.                            *)
LEMMA CountsAdd ==
  ASSUME NEW f, NEW L, NEW M, NEW K, L \subseteq K, M \subseteq K, L \cap M = {}
  PROVE  CountIn(f, L) + CountIn(f, M) <= CountIn(f, K)
<1> DEFINE S == { w \in Workers : f[w] \in L }
           T == { w \in Workers : f[w] \in M }
           U == { w \in Workers : f[w] \in K }
<1>1. IsFiniteSet(S) /\ IsFiniteSet(T) /\ IsFiniteSet(U)
  BY CountFinite
<1>2. S \cap T = {} /\ S \cup T \in SUBSET U
  OBVIOUS
<1>3. Cardinality(S \cup T) = Cardinality(S) + Cardinality(T) - Cardinality(S \cap T)
  BY <1>1, FS_Union
<1>4. Cardinality(S \cap T) = 0
  BY <1>2, FS_EmptySet
<1>5. Cardinality(S \cup T) <= Cardinality(U)
  BY <1>1, <1>2, FS_Subset
<1>6. Cardinality(S) \in Nat /\ Cardinality(T) \in Nat
  BY <1>1, FS_CardinalityType
<1> QED
  BY <1>3, <1>4, <1>5, <1>6 DEF CountIn

(* A worker at a label of L is counted, and a count of none is zero.       *)
LEMMA CountPositive ==
  ASSUME NEW f, NEW L, NEW w \in Workers, f[w] \in L
  PROVE  CountIn(f, L) >= 1
<1> DEFINE S == { v \in Workers : f[v] \in L }
<1>1. IsFiniteSet(S) /\ S # {} /\ CountIn(f, L) \in Nat /\ CountIn(f, L) = Cardinality(S)
  BY CountFinite, CountInType DEF CountIn
<1>2. Cardinality(S) # 0
  BY <1>1, FS_EmptySet
<1> QED
  BY <1>1, <1>2

LEMMA CountNone ==
  ASSUME NEW f, NEW L, \A w \in Workers : f[w] \notin L
  PROVE  CountIn(f, L) = 0
<1>1. { w \in Workers : f[w] \in L } = {}
  OBVIOUS
<1> QED
  BY <1>1, FS_EmptySet DEF CountIn

-----------------------------------------------------------------------------
LEMMA CountTypes ==
  /\ workerCount \in Nat /\ idleWorkerCount \in Nat
  /\ Count({"add"}) \in Nat /\ Count({"adding"}) \in Nat /\ Count({"removing"}) \in Nat
  /\ Count({"remove"}) \in Nat
BY CountInType DEF workerCount, idleWorkerCount, Count, CountIn

(* The counts after one worker has moved.                                  *)
LEMMA WorkerMoves ==
  ASSUME pc \in [Workers -> PC], NEW w \in Workers, NEW l \in PC, Goto(w, l)
  PROVE  /\ workerCount' =
              workerCount + (IF l \in Counted THEN 1 ELSE 0) - (IF pc[w] \in Counted THEN 1 ELSE 0)
         /\ \A x \in {"add", "adding", "removing"} :
              Count({x})' =
                Count({x}) + (IF l = x THEN 1 ELSE 0) - (IF pc[w] = x THEN 1 ELSE 0)
<1>1. Moved(pc, pc', w, l)
  BY DEF Goto, Moved
<1>2. workerCount' = CountIn(pc', Counted) /\ workerCount = CountIn(pc, Counted)
  BY DEF workerCount, Count, CountIn
<1>3. CountIn(pc', Counted) = CountIn(pc, Counted)
        + (IF l \in Counted THEN 1 ELSE 0) - (IF pc[w] \in Counted THEN 1 ELSE 0)
  BY <1>1, CountMoves
<1>4. ASSUME NEW x \in {"add", "adding", "removing"}
      PROVE  Count({x})' =
               Count({x}) + (IF l = x THEN 1 ELSE 0) - (IF pc[w] = x THEN 1 ELSE 0)
  <2>1. Count({x})' = CountIn(pc', {x}) /\ Count({x}) = CountIn(pc, {x})
    BY DEF Count, CountIn
  <2>2. CountIn(pc', {x}) = CountIn(pc, {x})
          + (IF l \in {x} THEN 1 ELSE 0) - (IF pc[w] \in {x} THEN 1 ELSE 0)
    BY <1>1, CountMoves
  <2> QED
    BY <1>1, <2>1, <2>2
<1> QED
  BY <1>1, <1>2, <1>3, <1>4

LEMMA CountsStay ==
  ASSUME pc' = pc
  PROVE  workerCount' = workerCount /\ \A L : Count(L)' = Count(L)
BY DEF workerCount, Count

(* addWorker() moves its caller, which sleeps or goes on, and the thread   *)
(* it starts.                                                              *)
AfterAdd == {"adding", "serve"}

LEMMA AddWorkerCounts ==
  ASSUME NEW f \in [Workers -> PC], NEW h, NEW g, NEW w \in Workers, NEW n \in Workers, NEW L,
         NEW l \in AfterAdd, f[w] = "add", f[n] = "off",
         Moved(f, h, w, l), Moved(h, g, n, "start")
  PROVE  CountIn(g, L) = CountIn(f, L)
           + (IF l \in L THEN 1 ELSE 0) - (IF "add" \in L THEN 1 ELSE 0)
           + (IF "start" \in L THEN 1 ELSE 0) - (IF "off" \in L THEN 1 ELSE 0)
<1>1. h \in [Workers -> PC] /\ h[n] = "off" /\ l \in PC /\ "start" \in PC
  BY DEF Moved, PC, Counted, Creating, Deleting, AfterAdd
<1> QED
  BY <1>1, CountMoves, CountInType

LEMMA AddWorkerMoves ==
  ASSUME pc \in [Workers -> PC], NEW w \in Workers, AddWorker(w)
  PROVE  /\ workerCount' = workerCount
         /\ Count({"add"})' = Count({"add"}) - 1
         /\ Count({"adding"})' =
              Count({"adding"}) + IF workerCount = limit + 1 THEN 0 ELSE 1
         /\ Count({"removing"})' = Count({"removing"})
<1> DEFINE l == IF workerCount = limit + 1 THEN "serve" ELSE "adding"
<1>0. l \in AfterAdd
  BY DEF AfterAdd
<1>1. PICK n \in Workers : /\ pc[n] = "off" /\ pc[w] = "add"
                          /\ \E h : Moved(pc, h, w, l) /\ Moved(h, pc', n, "start")
  BY DEF AddWorker, Moved
<1>a. \/ l = "serve" /\ workerCount = limit + 1
      \/ l = "adding" /\ workerCount # limit + 1
  OBVIOUS
<1> HIDE DEF l
<1>2. \A L : /\ CountIn(pc, L) \in Nat
            /\ CountIn(pc', L) = CountIn(pc, L)
                 + (IF l \in L THEN 1 ELSE 0) - (IF "add" \in L THEN 1 ELSE 0)
                 + (IF "start" \in L THEN 1 ELSE 0) - (IF "off" \in L THEN 1 ELSE 0)
  BY <1>0, <1>1, AddWorkerCounts, CountInType
<1>3. CountIn(pc', Counted) = CountIn(pc, Counted)
  BY <1>a, <1>2 DEF Counted, Creating, Deleting
<1>4. /\ CountIn(pc', {"add"}) = CountIn(pc, {"add"}) - 1
      /\ CountIn(pc', {"adding"}) =
           CountIn(pc, {"adding"}) + IF workerCount = limit + 1 THEN 0 ELSE 1
      /\ CountIn(pc', {"removing"}) = CountIn(pc, {"removing"})
  BY <1>a, <1>2
<1> QED
  BY <1>3, <1>4 DEF workerCount, Count, CountIn

-----------------------------------------------------------------------------
(* A worker at "remove" is counted and does not wait: the limit is not     *)
(* zero yet.                                                               *)
LEMMA LimitPositive ==
  ASSUME TypeOK, LimitApproached, NEW w \in Workers, pc[w] = "remove"
  PROVE  limit >= 1
<1>1. CountIn(pc, {"remove"}) + CountIn(pc, {"removing"}) <= CountIn(pc, Counted)
  BY CountsAdd DEF Counted, Deleting
<1>2. CountIn(pc, {"remove"}) >= 1
  BY CountPositive
<1>3. workerCount <= limit + CountIn(pc, {"removing"})
  BY DEF LimitApproached, Count, CountIn
<1>4. /\ workerCount = CountIn(pc, Counted)
      /\ CountIn(pc, {"remove"}) \in Nat /\ CountIn(pc, {"removing"}) \in Nat
      /\ CountIn(pc, Counted) \in Nat /\ limit \in Nat
  BY CountInType DEF workerCount, Count, CountIn, TypeOK
<1> QED
  BY <1>1, <1>2, <1>3, <1>4

(* A worker that has passed the test is one of the workers that will add   *)
(* one: all of them, and those that wait for theirs, were counted.         *)
LEMMA AddersCounted ==
  Count({"add"}) + Count({"adding"}) <= workerCount
<1>1. CountIn(pc, {"add"}) + CountIn(pc, {"adding"}) <= CountIn(pc, Counted)
  BY CountsAdd DEF Counted, Creating
<1> QED
  BY <1>1 DEF workerCount, Count, CountIn

LEMMA ManyAdders ==
  ASSUME TypeOK, NEW w \in Workers, pc[w] = "ifmax"
  PROVE  Count({"add"}) + Count({"adding"}) + 1 <= workerCount
<1>1. CountIn(pc, {"add"}) + CountIn(pc, {"adding"}) <= CountIn(pc, {"add", "adding"})
  BY CountsAdd
<1>2. CountIn(pc, {"add", "adding"}) + CountIn(pc, {"ifmax"}) <= CountIn(pc, Counted)
  BY CountsAdd DEF Counted, Creating
<1>3. CountIn(pc, {"ifmax"}) >= 1
  BY CountPositive
<1>4. \A L : CountIn(pc, L) \in Nat
  BY CountInType
<1>5. /\ Count({"add"}) = CountIn(pc, {"add"}) /\ Count({"adding"}) = CountIn(pc, {"adding"})
      /\ workerCount = CountIn(pc, Counted)
  BY DEF Count, CountIn, workerCount
<1> HIDE DEF CountIn
<1> QED
  BY <1>1, <1>2, <1>3, <1>4, <1>5

-----------------------------------------------------------------------------
LEMMA TypesInit == Init => TypeOK /\ ConnsAccepted
<1> SUFFICES ASSUME Init PROVE TypeOK /\ ConnsAccepted
  OBVIOUS
<1>1. PICK S \in SUBSET Workers : pc = [w \in Workers |-> IF w \in S THEN "idle" ELSE "off"]
  BY DEF Init
<1>2. pc \in [Workers -> {"idle", "off"}]
  BY <1>1
<1>3. InitWorkers \in Nat
  BY PoolAssumption
<1>4. TypeOK
  <2>1. pc \in [Workers -> PC]
    BY <1>2 DEF PC, Counted
  <2>2. /\ offered = None /\ arrived = {} /\ queue = << >> /\ limit = InitWorkers
        /\ conn = [w \in Workers |-> None] /\ seen = [w \in Workers |-> 0]
        /\ closed = {} /\ overlap = FALSE /\ woken = {}
    BY DEF Init
  <2>3. queue \in Seq(Conns) /\ Len(queue) <= PendingMax
    BY <2>2, PoolAssumption
  <2> QED
    BY <1>3, <2>1, <2>2, <2>3 DEF TypeOK
<1>5. \A w \in Workers : pc[w] \notin {"serve"} \cup Creating \cup Deleting
  BY <1>2 DEF Creating, Deleting
<1> QED
  BY <1>4, <1>5 DEF Init, ConnsAccepted

(* Types and connections through the steps of a worker that touch only pc  *)
(* and the limit.                                                          *)
Serving == {"serve"} \cup Creating \cup Deleting

LEMMA MoveKeepsTypes ==
  ASSUME TypeOK, ConnsAccepted, NEW w \in Workers, NEW l \in PC, Goto(w, l),
         pc[w] \in Serving <=> l \in Serving,
         UNCHANGED << offered, arrived, queue, conn, closed >>,
         limit' \in Nat, woken' \subseteq Workers, seen' \in [Workers -> Nat], overlap' \in BOOLEAN
  PROVE  TypeOK' /\ ConnsAccepted'
<1>1. pc' \in [Workers -> PC]
  BY DEF TypeOK, Goto
<1>2. \A v \in Workers : pc'[v] \in Serving <=> pc[v] \in Serving
  BY DEF TypeOK, Goto
<1>3. TypeOK'
  BY <1>1 DEF TypeOK
<1>4. ConnsAccepted'
  BY <1>2 DEF ConnsAccepted, Serving
<1> QED
  BY <1>3, <1>4

LEMMA AcceptKeepsTypes ==
  ASSUME TypeOK, ConnsAccepted, NEW c \in Conns, Accept(c)
  PROVE  TypeOK' /\ ConnsAccepted'
<1>1. /\ offered' = c /\ arrived' = arrived \cup {c}
      /\ queue' = queue /\ limit' = limit /\ pc' = pc /\ conn' = conn /\ seen' = seen
      /\ closed' = closed /\ overlap' = overlap /\ woken' = woken
  BY DEF Accept, pool
<1> QED
  BY <1>1 DEF TypeOK, ConnsAccepted

LEMMA AddKeepsTypes ==
  ASSUME TypeOK, ConnsAccepted, Add
  PROVE  TypeOK' /\ ConnsAccepted'
<1>1. /\ offered # None /\ Len(queue) < PendingMax
      /\ queue' = Append(queue, offered) /\ offered' = None
      /\ arrived' = arrived /\ limit' = limit /\ pc' = pc /\ conn' = conn /\ seen' = seen
      /\ closed' = closed /\ overlap' = overlap /\ woken' = woken
  BY DEF Add
<1>2. queue \in Seq(Conns) /\ offered \in Conns /\ offered \in arrived
  BY <1>1 DEF TypeOK, ConnsAccepted
<1>3. /\ queue' \in Seq(Conns) /\ Len(queue') = Len(queue) + 1
      /\ \A i \in 1 .. Len(queue) + 1 :
            queue'[i] = IF i = Len(queue) + 1 THEN offered ELSE queue[i]
  BY <1>1, <1>2
<1>4. Len(queue') <= PendingMax
  BY <1>1, <1>2, <1>3, PoolAssumption
<1>5. \A i \in 1 .. Len(queue') : queue'[i] \in arrived
  BY <1>2, <1>3 DEF ConnsAccepted
<1>6. TypeOK'
  BY <1>1, <1>3, <1>4 DEF TypeOK
<1>7. ConnsAccepted'
  BY <1>1, <1>5 DEF ConnsAccepted
<1> QED
  BY <1>6, <1>7

LEMMA TakeKeepsTypes ==
  ASSUME TypeOK, ConnsAccepted, NEW w \in Workers, Take(w)
  PROVE  TypeOK' /\ ConnsAccepted'
<1>1. /\ queue # << >> /\ pc[w] \in {"loop", "idle"}
      /\ conn' = [conn EXCEPT ![w] = Head(queue)] /\ queue' = Tail(queue)
      /\ pc' = [pc EXCEPT ![w] = "create"]
      /\ overlap' = (overlap \/ Hooked \ {w} # {})
      /\ offered' = offered /\ arrived' = arrived /\ limit' = limit /\ seen' = seen
      /\ closed' = closed /\ woken' = woken
  BY DEF Take, Goto, HookBegins
<1>2. queue \in Seq(Conns) /\ Len(queue) \in Nat \ {0} /\ Len(queue) <= PendingMax
  BY <1>1 DEF TypeOK
<1>3. /\ queue' \in Seq(Conns) /\ Len(queue') = Len(queue) - 1
      /\ \A i \in 1 .. Len(queue') : i + 1 \in 1 .. Len(queue) /\ queue'[i] = queue[i + 1]
  BY <1>1, <1>2
<1>4. Head(queue) = queue[1] /\ queue[1] \in Conns /\ queue[1] \in arrived
  BY <1>2 DEF ConnsAccepted
<1>5. \A i \in 1 .. Len(queue') : queue'[i] \in arrived
  BY <1>3 DEF ConnsAccepted
<1>6. Len(queue') <= PendingMax
  BY <1>2, <1>3, PoolAssumption
<1>7. "create" \in PC /\ "create" \in Creating
  BY DEF PC, Counted, Creating
<1>8. TypeOK'
  BY <1>1, <1>3, <1>4, <1>6, <1>7 DEF TypeOK
<1>9. ConnsAccepted'
  BY <1>1, <1>4, <1>5, <1>7 DEF ConnsAccepted, TypeOK
<1> QED
  BY <1>8, <1>9

LEMMA FinishKeepsTypes ==
  ASSUME TypeOK, ConnsAccepted, NEW w \in Workers, pc[w] \in Deleting, Finish(w),
         UNCHANGED << offered, arrived, queue, overlap >>,
         limit' \in Nat, woken' \subseteq Workers
  PROVE  TypeOK' /\ ConnsAccepted'
<1>1. /\ closed' = closed \cup {conn[w]} /\ conn' = [conn EXCEPT ![w] = None]
      /\ seen' = [seen EXCEPT ![w] = 0] /\ pc' = [pc EXCEPT ![w] = "loop"]
      /\ offered' = offered /\ arrived' = arrived /\ queue' = queue
      /\ overlap' = overlap
  BY DEF Finish, Goto
<1>2. conn[w] \in arrived
  BY DEF ConnsAccepted
<1>3. "loop" \in PC /\ "loop" \notin {"serve"} \cup Creating \cup Deleting
  BY DEF PC, Counted, Creating, Deleting
<1>4. TypeOK'
  BY <1>1, <1>2, <1>3 DEF TypeOK
<1>5. ConnsAccepted'
  BY <1>1, <1>3 DEF ConnsAccepted, TypeOK
<1> QED
  BY <1>4, <1>5

(* Only workers that sleep are woken.                                      *)
LEMMA WokenType ==
  ASSUME TypeOK, NEW w \in Workers, Worker(w) \/ Close(w)
  PROVE  woken' \subseteq Workers
<1>1. woken \subseteq Workers /\ Asleep \subseteq Workers
  BY DEF TypeOK, Asleep
<1>2. CASE Retire(w) \/ Start(w)
  BY <1>1, <1>2 DEF Retire, Start, Notify
<1>3. CASE Added(w) \/ Removed(w) \/ SleepOn(w)
  BY <1>1, <1>3 DEF Added, Removed, SleepOn
<1>4. CASE \/ Take(w) \/ Wait(w) \/ CreateIfIdle(w) \/ CreateIfMax(w) \/ AddWorker(w)
           \/ Close(w) \/ DeleteReadIdle(w) \/ DeleteIfHalf(w) \/ DeleteIfMin(w)
           \/ RemoveWorker(w)
  <2>1. woken' = woken
    BY <1>4 DEF pool, Take, Wait, CreateIfIdle, CreateIfMax, AddWorker, Close, DeleteReadIdle,
       DeleteIfHalf, DeleteIfMin, RemoveWorker
  <2> QED
    BY <1>1, <2>1
<1> QED
  BY <1>2, <1>3, <1>4 DEF Worker

LEMMA WorkerKeepsTypes ==
  ASSUME TypeOK, ConnsAccepted, LimitApproached, NEW w \in Workers, Worker(w) \/ Close(w)
  PROVE  TypeOK' /\ ConnsAccepted'
<1> DEFINE Labels == {"off", "start", "loop", "idle", "serve", "create", "ifmax", "add",
                      "adding", "delete", "ifhalf", "ifmin", "remove", "removing"}
<1>1. PC = Labels /\ Serving = Labels \ {"off", "start", "loop", "idle"}
  BY DEF PC, Counted, Creating, Deleting, Serving
<1>2. /\ limit \in Nat /\ seen \in [Workers -> Nat] /\ overlap \in BOOLEAN
      /\ pc \in [Workers -> PC] /\ woken' \subseteq Workers
  BY WokenType DEF TypeOK
<1>3. CASE Take(w)
  BY <1>3, TakeKeepsTypes
<1>4. CASE Wait(w) \/ Retire(w)
  <2>1. /\ pc[w] \in {"loop", "idle"} /\ \E l \in {"idle", "off"} : Goto(w, l)
        /\ UNCHANGED << offered, arrived, queue, limit, conn, seen, closed, overlap >>
    BY <1>4 DEF Wait, Retire, pool
  <2> QED
    BY <1>1, <1>2, <2>1, MoveKeepsTypes
<1>5. CASE Start(w)
  <2>1. /\ pc[w] = "start" /\ \E l \in {"loop", "off"} : Goto(w, l)
        /\ UNCHANGED << offered, arrived, queue, limit, conn, seen, closed, overlap >>
    BY <1>5 DEF Start, pool
  <2> QED
    BY <1>1, <1>2, <2>1, MoveKeepsTypes
<1>6. CASE CreateIfIdle(w) \/ CreateIfMax(w) \/ Added(w)
  <2>1. /\ pc[w] \in {"create", "ifmax", "adding"}
        /\ \E l \in {"ifmax", "add", "serve"} : Goto(w, l)
        /\ UNCHANGED << offered, arrived, queue, limit, conn, seen, closed, overlap >>
    BY <1>6 DEF CreateIfIdle, CreateIfMax, Added, pool
  <2> QED
    BY <1>1, <1>2, <2>1, MoveKeepsTypes
<1>7. CASE AddWorker(w)
  <2>1. PICK n \in Workers :
           /\ pc[n] = "off"
           /\ \E l \in AfterAdd : pc' = [pc EXCEPT ![w] = l, ![n] = "start"]
    BY <1>7 DEF AddWorker, AfterAdd
  <2>2. /\ pc[w] = "add" /\ limit' = limit + 1
        /\ offered' = offered /\ arrived' = arrived /\ queue' = queue /\ conn' = conn
        /\ seen' = seen /\ closed' = closed /\ overlap' = overlap
    BY <1>7 DEF AddWorker
  <2>3. pc' \in [Workers -> PC] /\ \A v \in Workers : pc'[v] \in Serving <=> pc[v] \in Serving
    BY <1>1, <1>2, <2>1, <2>2 DEF AfterAdd
  <2> QED
    BY <1>2, <2>2, <2>3 DEF TypeOK, ConnsAccepted, Serving
<1>8. CASE Close(w)
  <2>1. /\ pc[w] = "serve" /\ Goto(w, "delete") /\ overlap' \in BOOLEAN
        /\ UNCHANGED << offered, arrived, queue, limit, conn, seen, closed >>
    BY <1>8, <1>2 DEF Close, HookBegins, pool
  <2> QED
    BY <1>1, <1>2, <2>1, MoveKeepsTypes
<1>9. CASE DeleteReadIdle(w)
  <2>1. /\ pc[w] = "delete" /\ Goto(w, "ifhalf") /\ seen' = [seen EXCEPT ![w] = idleWorkerCount]
        /\ UNCHANGED << offered, arrived, queue, limit, conn, closed, overlap >>
    BY <1>9 DEF DeleteReadIdle, pool
  <2>2. seen' \in [Workers -> Nat]
    BY <1>2, <2>1, CountTypes
  <2> QED
    BY <1>1, <1>2, <2>1, <2>2, MoveKeepsTypes
<1>10. CASE DeleteIfHalf(w) \/ DeleteIfMin(w)
  <2>1. /\ pc[w] \in {"ifhalf", "ifmin"}
        /\ UNCHANGED << offered, arrived, pool, overlap >>
        /\ \/ /\ \E l \in {"ifmin", "remove"} : Goto(w, l)
              /\ UNCHANGED << conn, seen, closed >>
           \/ Finish(w)
    BY <1>10 DEF DeleteIfHalf, DeleteIfMin
  <2>2. CASE Finish(w)
    BY <1>2, <2>1, <2>2, FinishKeepsTypes DEF Deleting, pool
  <2>3. CASE ~ Finish(w)
    <3>1. /\ \E l \in {"ifmin", "remove"} : Goto(w, l)
          /\ UNCHANGED << offered, arrived, queue, limit, conn, seen, closed, overlap >>
      BY <2>1, <2>3 DEF pool
    <3> QED
      BY <1>1, <1>2, <2>1, <3>1, MoveKeepsTypes
  <2> QED
    BY <2>2, <2>3
<1>11. CASE RemoveWorker(w)
  <2>1. /\ pc[w] = "remove" /\ limit' = limit - 1
        /\ UNCHANGED << offered, arrived, queue, overlap >>
        /\ \/ Goto(w, "removing") /\ UNCHANGED << conn, seen, closed >>
           \/ Finish(w)
    BY <1>11 DEF RemoveWorker
  <2>2. limit' \in Nat
    BY <1>2, <2>1, LimitPositive
  <2>3. CASE Finish(w)
    BY <1>2, <2>1, <2>2, <2>3, FinishKeepsTypes DEF Deleting
  <2>4. CASE Goto(w, "removing") /\ UNCHANGED << conn, seen, closed >>
    BY <1>1, <1>2, <2>1, <2>2, <2>4, MoveKeepsTypes
  <2> QED
    BY <2>1, <2>3, <2>4
<1>12. CASE Removed(w)
  BY <1>2, <1>12, FinishKeepsTypes DEF Removed, Deleting
<1>13. CASE SleepOn(w)
  BY <1>2, <1>13 DEF SleepOn, TypeOK, ConnsAccepted
<1> QED
  BY <1>3, <1>4, <1>5, <1>6, <1>7, <1>8, <1>9, <1>10, <1>11, <1>12, <1>13 DEF Worker

LEMMA TypesNext ==
  ASSUME TypeOK, ConnsAccepted, LimitApproached, [Next]_vars
  PROVE  TypeOK' /\ ConnsAccepted'
<1>1. CASE UNCHANGED vars
  BY <1>1 DEF vars, pool, TypeOK, ConnsAccepted
<1> QED
  BY <1>1, AcceptKeepsTypes, AddKeepsTypes, WorkerKeepsTypes DEF Next

-----------------------------------------------------------------------------
(* The limit, the count and the bound of both.                             *)
Limits == LimitApproached /\ AddsBounded /\ OvershootBounded

LEMMA BoundType == OvershootBound \in Nat /\ TMax <= OvershootBound
BY PoolAssumption DEF OvershootBound

(* At the start as many workers run as the limit says, and all are idle.   *)
LEMMA CountsInit ==
  ASSUME Init
  PROVE  /\ workerCount = InitWorkers
         /\ Count({"add"}) = 0 /\ Count({"adding"}) = 0 /\ Count({"removing"}) = 0
<1>1. PICK S \in SUBSET Workers :
         /\ Cardinality(S) = InitWorkers
         /\ pc = [w \in Workers |-> IF w \in S THEN "idle" ELSE "off"]
  BY DEF Init
<1>2. { w \in Workers : pc[w] \in Counted } = S
  BY <1>1 DEF Counted, Creating, Deleting
<1>3. workerCount = Cardinality({ w \in Workers : pc[w] \in Counted })
  BY DEF workerCount, Count
<1>4. workerCount = InitWorkers
  BY <1>1, <1>2, <1>3
<1>5. \A w \in Workers : pc[w] \in {"idle", "off"}
  BY <1>1
<1>6. CountIn(pc, {"add"}) = 0
  BY <1>5, CountNone
<1>7. CountIn(pc, {"adding"}) = 0
  BY <1>5, CountNone
<1>8. CountIn(pc, {"removing"}) = 0
  BY <1>5, CountNone
<1> QED
  BY <1>4, <1>6, <1>7, <1>8 DEF Count, CountIn

LEMMA LimitsInit == Init => Limits
<1> SUFFICES ASSUME Init PROVE Limits
  OBVIOUS
<1>1. limit = InitWorkers /\ InitWorkers \in Nat /\ InitWorkers <= TMax /\ TMax \in Nat
  BY PoolAssumption DEF Init
<1> QED
  BY <1>1, CountsInit, BoundType DEF Limits, LimitApproached, AddsBounded, OvershootBounded

(* A worker moves between labels that the limits do not depend on.         *)
LEMMA MoveKeepsLimits ==
  ASSUME TypeOK, Limits, NEW w \in Workers, NEW l \in PC, Goto(w, l), limit' = limit,
         l \in Counted <=> pc[w] \in Counted,
         pc[w] \notin {"adding", "removing"}, l \notin {"add", "adding", "removing"}
  PROVE  Limits'
<1>1. /\ workerCount' = workerCount
      /\ Count({"adding"})' = Count({"adding"}) /\ Count({"removing"})' = Count({"removing"})
      /\ Count({"add"})' <= Count({"add"}) /\ Count({"add"})' \in Int
  <2>1. pc \in [Workers -> PC]
    BY DEF TypeOK
  <2>2. workerCount' = workerCount
    BY <2>1, WorkerMoves, CountTypes
  <2>3. \A x \in {"adding", "removing"} : Count({x})' = Count({x})
    <3> TAKE x \in {"adding", "removing"}
    <3>1. Count({x}) \in Nat /\ l # x /\ pc[w] # x
      BY CountTypes
    <3>2. Count({x})' = Count({x}) + (IF l = x THEN 1 ELSE 0) - (IF pc[w] = x THEN 1 ELSE 0)
      BY <2>1, WorkerMoves
    <3> QED BY <3>1, <3>2
  <2>4. Count({"add"})' = Count({"add"}) - (IF pc[w] = "add" THEN 1 ELSE 0)
    BY <2>1, WorkerMoves, CountTypes
  <2>5. Count({"add"})' <= Count({"add"}) /\ Count({"add"})' \in Int
    BY <2>4, CountTypes
  <2> QED BY <2>2, <2>3, <2>5
<1>2. limit \in Int
  BY PoolAssumption DEF TypeOK
<1>3. LimitApproached'
  BY <1>1 DEF Limits, LimitApproached
<1>4. AddsBounded'
  BY <1>1, <1>2, CountTypes, BoundType DEF Limits, AddsBounded
<1> QED
  BY <1>1, <1>3, <1>4 DEF Limits, OvershootBounded

LEMMA WorkerKeepsLimits ==
  ASSUME TypeOK, Limits, NEW w \in Workers, Worker(w) \/ Close(w)
  PROVE  Limits'
<1> DEFINE Labels == {"off", "start", "loop", "idle", "serve", "create", "ifmax", "add",
                      "adding", "delete", "ifhalf", "ifmin", "remove", "removing"}
           W == workerCount
           A == Count({"add"})
           B == Count({"adding"})
           R == Count({"removing"})
<1>1. PC = Labels /\ Counted = Labels \ {"off", "start"}
  BY DEF PC, Counted, Creating, Deleting
<1>2. /\ limit \in Nat /\ pc \in [Workers -> PC]
      /\ W \in Nat /\ A \in Nat /\ B \in Nat /\ R \in Nat
      /\ OvershootBound \in Nat
      /\ limit <= W + B /\ W <= limit + R /\ limit + A <= OvershootBound /\ W <= OvershootBound
  BY CountTypes, BoundType DEF TypeOK, Limits, LimitApproached, AddsBounded, OvershootBounded
<1>3. Limits' <=> /\ limit' <= W' + B' /\ W' <= limit' + R'
                  /\ limit' + A' <= OvershootBound /\ W' <= OvershootBound
  BY DEF Limits, LimitApproached, AddsBounded, OvershootBounded, OvershootBound
<1>4. ASSUME NEW l \in PC, Goto(w, l)
      PROVE  /\ W' = W + (IF l \in Counted THEN 1 ELSE 0) - (IF pc[w] \in Counted THEN 1 ELSE 0)
             /\ A' = A + (IF l = "add" THEN 1 ELSE 0) - (IF pc[w] = "add" THEN 1 ELSE 0)
             /\ B' = B + (IF l = "adding" THEN 1 ELSE 0) - (IF pc[w] = "adding" THEN 1 ELSE 0)
             /\ R' = R + (IF l = "removing" THEN 1 ELSE 0)
                       - (IF pc[w] = "removing" THEN 1 ELSE 0)
  BY <1>2, <1>4, WorkerMoves
<1>5. ASSUME NEW l \in PC, Goto(w, l), limit' = limit, l \in Counted <=> pc[w] \in Counted,
             pc[w] \notin {"adding", "removing"}, l \notin {"add", "adding", "removing"}
      PROVE  Limits'
  BY <1>5, MoveKeepsLimits
<1> HIDE DEF W, A, B, R
<1>6. CASE Take(w) \/ Wait(w) \/ Close(w) \/ CreateIfIdle(w) \/ DeleteReadIdle(w)
  <2>1. /\ limit' = limit /\ pc[w] \in {"loop", "idle", "serve", "create", "delete"}
        /\ \E l \in {"create", "idle", "delete", "ifmax", "serve", "ifhalf"} : Goto(w, l)
    BY <1>6 DEF Take, Wait, Close, CreateIfIdle, DeleteReadIdle, pool
  <2> QED
    BY <1>1, <1>5, <2>1
<1>7. CASE Retire(w)
  <2>1. /\ limit' = limit /\ pc[w] \in {"loop", "idle"} /\ W > limit /\ Goto(w, "off")
    BY <1>7 DEF Retire, pool, W
  <2>2. W' = W - 1 /\ A' = A /\ B' = B /\ R' = R
    BY <1>1, <1>2, <1>4, <2>1
  <2> QED
    BY <1>2, <1>3, <2>1, <2>2
<1>8. CASE Start(w)
  <2>1. /\ limit' = limit /\ pc[w] = "start" /\ Goto(w, IF W < limit THEN "loop" ELSE "off")
    BY <1>8 DEF Start, pool, W
  <2>2. W' = (IF W < limit THEN W + 1 ELSE W) /\ A' = A /\ B' = B /\ R' = R
    BY <1>1, <1>2, <1>4, <2>1
  <2> QED
    BY <1>2, <1>3, <2>1, <2>2
<1>9. CASE CreateIfMax(w)
  <2>1. /\ limit' = limit /\ pc[w] = "ifmax" /\ Goto(w, IF W < TMax THEN "add" ELSE "serve")
    BY <1>9 DEF CreateIfMax, pool, W
  <2>2. CASE W < TMax
    <3>1. W' = W /\ A' = A + 1 /\ B' = B /\ R' = R
      BY <1>1, <1>2, <1>4, <2>1, <2>2
    <3>2. A + B + 1 <= W
      BY <2>1, ManyAdders DEF A, B, W
    <3>3. limit + A + 1 <= OvershootBound
      BY <1>2, <2>2, <3>2, PoolAssumption DEF OvershootBound
    <3> QED
      BY <1>2, <1>3, <2>1, <3>1, <3>3
  <2>3. CASE ~ (W < TMax)
    BY <1>1, <1>5, <2>1, <2>3
  <2> QED
    BY <2>2, <2>3
<1>10. CASE AddWorker(w)
  <2>1. limit' = limit + 1
    BY <1>10 DEF AddWorker
  <2>2. W' = W /\ A' = A - 1 /\ R' = R /\ B' = B + IF W = limit + 1 THEN 0 ELSE 1
    BY <1>2, <1>10, AddWorkerMoves DEF W, A, B, R
  <2> QED
    BY <1>2, <1>3, <2>1, <2>2
<1>11. CASE Added(w)
  <2>1. limit' = limit /\ pc[w] = "adding" /\ W = limit /\ Goto(w, "serve")
    BY <1>11 DEF Added, W
  <2>2. W' = W /\ A' = A /\ B' = B - 1 /\ R' = R
    BY <1>1, <1>2, <1>4, <2>1
  <2>3. B >= 1
    BY <2>1, CountPositive DEF B, Count, CountIn
  <2> QED
    BY <1>2, <1>3, <2>1, <2>2, <2>3
<1>12. CASE DeleteIfHalf(w) \/ DeleteIfMin(w)
  <2>1. /\ limit' = limit /\ pc[w] \in {"ifhalf", "ifmin"}
        /\ \E l \in {"ifmin", "remove", "loop"} : Goto(w, l)
    BY <1>12 DEF DeleteIfHalf, DeleteIfMin, Finish, pool
  <2> QED
    BY <1>1, <1>5, <2>1
<1>13. CASE RemoveWorker(w)
  <2>1. /\ pc[w] = "remove" /\ limit' = limit - 1
        /\ (W = limit - 1 /\ Goto(w, "loop")) \/ Goto(w, "removing")
    BY <1>13 DEF RemoveWorker, Finish, W
  <2>2. CASE Goto(w, "removing")
    <3>1. W' = W /\ A' = A /\ B' = B /\ R' = R + 1
      BY <1>1, <1>2, <1>4, <2>1, <2>2
    <3> QED
      BY <1>2, <1>3, <2>1, <3>1
  <2>3. CASE W = limit - 1 /\ Goto(w, "loop")
    <3>1. W' = W /\ A' = A /\ B' = B /\ R' = R
      BY <1>1, <1>2, <1>4, <2>1, <2>3
    <3> QED
      BY <1>2, <1>3, <2>1, <2>3, <3>1
  <2> QED
    BY <2>1, <2>2, <2>3
<1>14. CASE Removed(w)
  <2>1. limit' = limit /\ pc[w] = "removing" /\ W = limit /\ Goto(w, "loop")
    BY <1>14 DEF Removed, Finish, W
  <2>2. W' = W /\ A' = A /\ B' = B /\ R' = R - 1
    BY <1>1, <1>2, <1>4, <2>1
  <2>3. R >= 1
    BY <2>1, CountPositive DEF R, Count, CountIn
  <2> QED
    BY <1>2, <1>3, <2>1, <2>2, <2>3
<1>15. CASE SleepOn(w)
  <2>1. pc' = pc /\ limit' = limit
    BY <1>15 DEF SleepOn
  <2>2. W' = W /\ A' = A /\ B' = B /\ R' = R
    BY <2>1, CountsStay DEF W, A, B, R
  <2> QED
    BY <1>2, <1>3, <2>1, <2>2
<1> QED
  BY <1>6, <1>7, <1>8, <1>9, <1>10, <1>11, <1>12, <1>13, <1>14, <1>15 DEF Worker

LEMMA LimitsNext == ASSUME TypeOK, Limits, [Next]_vars PROVE Limits'
<1>1. ASSUME pc' = pc, limit' = limit PROVE Limits'
  BY <1>1, CountsStay DEF Limits, LimitApproached, AddsBounded, OvershootBounded, OvershootBound
<1>2. CASE UNCHANGED vars \/ Add \/ \E c \in Conns : Accept(c)
  <2>1. pc' = pc /\ limit' = limit
    BY <1>2 DEF vars, pool, Add, Accept
  <2> QED
    BY <1>1, <2>1
<1> QED
  BY <1>2, WorkerKeepsLimits DEF Next

-----------------------------------------------------------------------------
(* While hooks do not overlap.  A worker at one of Hooks runs a hook, and  *)
(* it is the only one.                                                     *)
Hooks == Creating \cup Deleting

LEMMA HookAlone ==
  ASSUME Alone, NEW w \in Workers, pc[w] \in Hooks
  PROVE  \A v \in Workers \ {w} : pc[v] \notin Hooks
BY DEF Alone, OneHook, Hooked, Hooks

LEMMA HooksAre ==
  /\ Hooks = {"create", "ifmax", "add", "adding", "delete", "ifhalf", "ifmin", "remove", "removing"}
  /\ Counted = {"loop", "idle", "serve"} \cup Hooks
BY DEF Hooks, Creating, Deleting, Counted

(* Nobody starts unless somebody waits in addWorker().                     *)
LEMMA NobodyStarts ==
  ASSUME Alone, \A v \in Workers : pc[v] # "adding"
  PROVE  \A v \in Workers : pc[v] # "start"
BY DEF Alone, OneStart

(* A worker that is counted and stays counted, and waits in no call of the *)
(* pool before or after.                                                   *)
LEMMA MoveKeepsAlone ==
  ASSUME TypeOK, Alone, NEW w \in Workers, NEW l \in PC, Goto(w, l), limit' = limit,
         pc[w] \in Counted \ {"adding", "removing"}, l \in Counted \ {"adding", "removing"},
         l \in Hooks => pc[w] \in Hooks \/ Hooked \ {w} = {},
         l = "add" => workerCount < TMax, l = "remove" => workerCount > TMin
  PROVE  Alone'
<1>1. /\ pc \in [Workers -> PC] /\ pc'[w] = l /\ \A v \in Workers \ {w} : pc'[v] = pc[v]
  BY DEF TypeOK, Goto
<1>2. workerCount' = workerCount
  BY <1>1, WorkerMoves, CountTypes
<1>3. \A v \in Workers : /\ pc'[v] = "start" <=> pc[v] = "start"
                         /\ pc'[v] = "adding" <=> pc[v] = "adding"
                         /\ pc'[v] = "removing" <=> pc[v] = "removing"
  BY <1>1, HooksAre
<1>4. OneHook'
  <2>1. CASE l \in Hooks
    <3>1. \A v \in Workers \ {w} : pc[v] \notin Hooks
      BY <2>1, HookAlone DEF Hooked, Hooks
    <3> QED
      BY <1>1, <3>1 DEF OneHook, Hooked, Hooks
  <2>2. CASE l \notin Hooks
    BY <1>1, <2>2 DEF Alone, OneHook, Hooked, Hooks
  <2> QED
    BY <2>1, <2>2
<1>5. OneStart'
  BY <1>3 DEF Alone, OneStart
<1>6. InStep'
  BY <1>2, <1>3 DEF Alone, InStep
<1>7. TestsHold'
  BY <1>1, <1>2 DEF Alone, TestsHold
<1> QED
  BY <1>2, <1>4, <1>5, <1>6, <1>7 DEF Alone

(* A worker whose call has returned: the count is the limit.               *)
LEMMA ReturnKeepsAlone ==
  ASSUME TypeOK, Alone, NEW w \in Workers, NEW l \in {"serve", "loop"}, Goto(w, l), limit' = limit,
         pc[w] \in {"adding", "removing"}, workerCount = limit
  PROVE  Alone'
<1>1. /\ pc \in [Workers -> PC] /\ pc'[w] = l /\ \A v \in Workers \ {w} : pc'[v] = pc[v]
  BY DEF TypeOK, Goto
<1>2. \A v \in Workers \ {w} : pc[v] \notin Hooks
  BY HookAlone, HooksAre
<1>3. workerCount' = workerCount /\ limit \in Nat
  BY <1>1, WorkerMoves, CountTypes, HooksAre DEF PC, TypeOK
<1>4. \A v \in Workers : pc[v] # "start"
  <2>1. CASE pc[w] = "adding"
    BY <1>3, <2>1 DEF Alone, InStep
  <2>2. CASE pc[w] = "removing"
    BY <1>2, <2>2, NobodyStarts, HooksAre
  <2> QED
    BY <2>1, <2>2
<1>5. \A v \in Workers : pc'[v] # "start" /\ pc'[v] \notin Hooks
  BY <1>1, <1>2, <1>4, HooksAre
<1> QED
  BY <1>3, <1>5, HooksAre DEF Alone, OneHook, OneStart, InStep, TestsHold, Hooked, Hooks

LEMMA RetireKeepsAlone ==
  ASSUME TypeOK, Alone, NEW w \in Workers, Retire(w)
  PROVE  Alone'
<1>1. pc[w] \in {"loop", "idle"} /\ workerCount > limit /\ limit' = limit /\ Goto(w, "off")
  BY DEF Retire
<1>2. /\ pc \in [Workers -> PC] /\ pc'[w] = "off" /\ \A v \in Workers \ {w} : pc'[v] = pc[v]
      /\ limit \in Nat
  BY <1>1 DEF TypeOK, Goto
<1>3. workerCount' = workerCount - 1 /\ workerCount \in Nat
  BY <1>1, <1>2, WorkerMoves, CountTypes, HooksAre DEF PC
<1>4. PICK v \in Workers : pc[v] = "removing"
  BY <1>1, <1>2, <1>3 DEF Alone, InStep
<1>5. workerCount = limit + 1
  BY <1>1, <1>2, <1>3, <1>4 DEF Alone, InStep
<1>6. \A u \in Workers \ {v} : pc[u] \notin Hooks
  BY <1>4, HookAlone, HooksAre
<1>7. \A u \in Workers : pc[u] # "start"
  BY <1>4, <1>6, NobodyStarts, HooksAre
<1>8. \A u \in Workers : /\ pc'[u] # "start"
                         /\ pc'[u] \in Hooks => u = v
                         /\ pc'[u] \notin {"add", "adding", "remove"}
  BY <1>1, <1>2, <1>4, <1>6, <1>7, HooksAre
<1> QED
  BY <1>1, <1>2, <1>3, <1>5, <1>8
  DEF Alone, OneHook, OneStart, InStep, TestsHold, Hooked, Hooks

LEMMA StartKeepsAlone ==
  ASSUME TypeOK, Alone, NEW w \in Workers, Start(w)
  PROVE  Alone'
<1>1. PICK v \in Workers : pc[v] = "adding"
  BY DEF Start, Alone, OneStart
<1>2. pc \in [Workers -> PC] /\ limit \in Nat /\ workerCount \in Nat
  BY CountTypes DEF TypeOK
<1>3. pc[w] = "start" /\ limit = workerCount + 1
  BY <1>1 DEF Start, Alone, InStep
<1>4. limit' = limit /\ Goto(w, "loop")
  BY <1>2, <1>3 DEF Start
<1>5. pc'[w] = "loop" /\ \A u \in Workers \ {w} : pc'[u] = pc[u]
  BY <1>2, <1>4 DEF Goto
<1>6. workerCount' = limit
  BY <1>2, <1>3, <1>4, WorkerMoves, HooksAre DEF PC
<1>7. \A u \in Workers \ {v} : pc[u] \notin Hooks
  BY <1>1, HookAlone, HooksAre
<1>8. \A u \in Workers : /\ pc'[u] # "start"
                         /\ pc'[u] \in Hooks => u = v
                         /\ pc'[u] \notin {"add", "remove", "removing"}
  BY <1>1, <1>3, <1>5, <1>7, HooksAre DEF Alone, OneStart
<1> QED
  BY <1>2, <1>4, <1>6, <1>8
  DEF Alone, OneHook, OneStart, InStep, TestsHold, Hooked, Hooks

LEMMA AddWorkerKeepsAlone ==
  ASSUME TypeOK, Alone, NEW w \in Workers, AddWorker(w)
  PROVE  Alone'
<1>1. pc[w] = "add" /\ limit' = limit + 1
  BY DEF AddWorker
<1>2. pc \in [Workers -> PC] /\ limit \in Nat /\ workerCount \in Nat /\ workerCount' = workerCount
  BY CountTypes, AddWorkerMoves DEF TypeOK
<1>4. \A u \in Workers \ {w} : pc[u] \notin Hooks
  BY <1>1, HookAlone, HooksAre
<1>5. workerCount = limit
  BY <1>1, <1>4, HooksAre DEF Alone, InStep
<1>3. PICK n \in Workers : /\ pc[n] = "off" /\ pc'[n] = "start" /\ pc'[w] = "adding"
                          /\ \A u \in Workers \ {w, n} : pc'[u] = pc[u]
  BY <1>1, <1>2, <1>5 DEF AddWorker
<1>6. workerCount < TMax
  BY <1>1 DEF Alone, TestsHold
<1>7. \A u \in Workers : pc[u] # "start"
  BY <1>1, <1>4, NobodyStarts, HooksAre
<1>8. \A u \in Workers : /\ pc'[u] = "start" <=> u = n
                         /\ pc'[u] \in Hooks <=> u = w
                         /\ pc'[u] \notin {"add", "remove", "removing"}
                         /\ pc'[u] = "adding" <=> u = w
  BY <1>1, <1>3, <1>4, <1>7, HooksAre
<1>9. limit' \in TMin .. TMax
  BY <1>1, <1>2, <1>5, <1>6, PoolAssumption DEF Alone
<1>10. InStep'
  BY <1>1, <1>2, <1>5, <1>8 DEF InStep
<1> QED
  BY <1>2, <1>8, <1>9, <1>10 DEF Alone, OneHook, OneStart, TestsHold, Hooked, Hooks

LEMMA RemoveWorkerKeepsAlone ==
  ASSUME TypeOK, Alone, NEW w \in Workers, RemoveWorker(w)
  PROVE  Alone'
<1>a. limit \in Nat /\ pc[w] = "remove"
  BY DEF RemoveWorker, TypeOK
<1>4. \A u \in Workers \ {w} : pc[u] \notin Hooks
  BY <1>a, HookAlone, HooksAre
<1>5. workerCount = limit
  BY <1>a, <1>4, HooksAre DEF Alone, InStep
<1>1. pc[w] = "remove" /\ limit' = limit - 1 /\ Goto(w, "removing")
  BY <1>a, <1>5 DEF RemoveWorker
<1>2. /\ pc \in [Workers -> PC] /\ pc'[w] = "removing"
      /\ \A v \in Workers \ {w} : pc'[v] = pc[v]
      /\ limit \in Nat
  BY <1>1 DEF TypeOK, Goto
<1>3. workerCount' = workerCount /\ workerCount \in Nat
  BY <1>1, <1>2, WorkerMoves, CountTypes, HooksAre DEF PC
<1>6. workerCount > TMin
  BY <1>1 DEF Alone, TestsHold
<1>7. \A u \in Workers : pc[u] # "start"
  BY <1>1, <1>4, NobodyStarts, HooksAre
<1>8. \A u \in Workers : /\ pc'[u] # "start"
                         /\ pc'[u] \in Hooks <=> u = w
                         /\ pc'[u] \notin {"add", "adding", "remove"}
  BY <1>1, <1>2, <1>4, <1>7, HooksAre
<1>9. limit' \in TMin .. TMax
  BY <1>1, <1>2, <1>5, <1>6, PoolAssumption DEF Alone
<1>10. workerCount' \in {limit', limit' + 1}
  BY <1>1, <1>2, <1>3, <1>5
<1>11. InStep'
  BY <1>2, <1>8, <1>10 DEF InStep
<1> QED
  BY <1>3, <1>8, <1>9, <1>11 DEF Alone, OneHook, OneStart, TestsHold, Hooked, Hooks

LEMMA WorkerKeepsAlone ==
  ASSUME TypeOK, Alone, ~ overlap', NEW w \in Workers, Worker(w) \/ Close(w)
  PROVE  Alone'
<1>1. PC = {"off", "start"} \cup Counted
  BY DEF PC
<1>2. CASE Take(w) \/ Close(w)
  <2>1. /\ pc[w] \in {"loop", "idle", "serve"} /\ limit' = limit /\ Hooked \ {w} = {}
        /\ \E l \in {"create", "delete"} : Goto(w, l)
    BY <1>2 DEF Take, Close, HookBegins, pool
  <2> QED
    BY <1>1, <2>1, MoveKeepsAlone, HooksAre
<1>3. CASE Wait(w) \/ CreateIfIdle(w) \/ DeleteReadIdle(w) \/ DeleteIfHalf(w)
  <2>1. /\ pc[w] \in {"loop", "create", "delete", "ifhalf"} /\ limit' = limit
        /\ \E l \in {"idle", "ifmax", "serve", "ifhalf", "ifmin", "loop"} :
              Goto(w, l) /\ (l \in Hooks => pc[w] # "loop")
    BY <1>3, HooksAre DEF Wait, CreateIfIdle, DeleteReadIdle, DeleteIfHalf, Finish, pool
  <2> QED
    BY <1>1, <2>1, MoveKeepsAlone, HooksAre
<1>4. CASE CreateIfMax(w)
  <2>1. /\ pc[w] = "ifmax" /\ limit' = limit
        /\ \E l \in {"add", "serve"} : Goto(w, l) /\ (l = "add" => workerCount < TMax)
    BY <1>4 DEF CreateIfMax, pool
  <2> QED
    BY <1>1, <2>1, MoveKeepsAlone, HooksAre
<1>5. CASE DeleteIfMin(w)
  <2>1. /\ pc[w] = "ifmin" /\ limit' = limit
        /\ \E l \in {"remove", "loop"} : Goto(w, l) /\ (l = "remove" => workerCount > TMin)
    BY <1>5 DEF DeleteIfMin, Finish, pool
  <2> QED
    BY <1>1, <2>1, MoveKeepsAlone, HooksAre
<1>6. CASE Added(w) \/ Removed(w)
  <2>1. /\ pc[w] \in {"adding", "removing"} /\ limit' = limit /\ workerCount = limit
        /\ \E l \in {"serve", "loop"} : Goto(w, l)
    BY <1>6 DEF Added, Removed, Finish
  <2> QED
    BY <2>1, ReturnKeepsAlone
<1>7. CASE SleepOn(w)
  <2>1. pc' = pc /\ limit' = limit
    BY <1>7 DEF SleepOn
  <2> QED
    BY <2>1, CountsStay DEF Alone, OneHook, OneStart, InStep, TestsHold, Hooked
<1> QED
  BY <1>2, <1>3, <1>4, <1>5, <1>6, <1>7, RetireKeepsAlone, StartKeepsAlone, AddWorkerKeepsAlone,
     RemoveWorkerKeepsAlone DEF Worker

(* Once two hooks have run at the same time, that is remembered.           *)
LEMMA OverlapStays ==
  ASSUME TypeOK, [Next]_vars, ~ overlap'
  PROVE  ~ overlap
BY DEF Next, vars, pool, Worker, HookBegins, Accept, Add, Take, Wait, Retire, Start, CreateIfIdle,
       CreateIfMax, AddWorker, Added, SleepOn, Close, DeleteReadIdle, DeleteIfHalf, DeleteIfMin,
       RemoveWorker, Removed, TypeOK

LEMMA AloneNext ==
  ASSUME TypeOK, Alone, ~ overlap', [Next]_vars
  PROVE  Alone'
<1>1. CASE UNCHANGED vars \/ Add \/ \E c \in Conns : Accept(c)
  <2>1. pc' = pc /\ limit' = limit
    BY <1>1 DEF vars, pool, Add, Accept
  <2> QED
    BY <2>1, CountsStay DEF Alone, OneHook, OneStart, InStep, TestsHold, Hooked
<1> QED
  BY <1>1, WorkerKeepsAlone DEF Next

-----------------------------------------------------------------------------
(* Notifications and idle workers, while hooks do not overlap.             *)
LEMMA MoveKeepsNotified ==
  ASSUME TypeOK, Notified, NEW w \in Workers, NEW l \in PC, Goto(w, l),
         limit' = limit, woken' = woken,
         pc[w] \in Counted \ {"adding", "removing"}, l \in Counted \ {"adding", "removing"}
  PROVE  Notified'
<1>1. /\ pc \in [Workers -> PC] /\ pc'[w] = l /\ \A v \in Workers \ {w} : pc'[v] = pc[v]
  BY DEF TypeOK, Goto
<1>2. workerCount' = workerCount
  BY <1>1, WorkerMoves, CountTypes
<1>3. Asleep' = Asleep
  BY <1>1 DEF Asleep
<1> QED
  BY <1>2, <1>3 DEF Notified

(* A worker that is not in a hook has made the count reach the limit: the  *)
(* one worker that may sleep is woken.                                     *)
LEMMA NotifyWakes ==
  ASSUME TypeOK, Alone, NEW w \in Workers, pc[w] \notin Hooks,
         NEW l \in {"off", "loop"}, Goto(w, l), Notify(TRUE)
  PROVE  Notified'
<1>1. \A v \in Workers : pc'[v] \in {"adding", "removing"} => pc[v] = pc'[v]
  BY DEF TypeOK, Goto
<1>2. Asleep' \subseteq Asleep /\ \A u, v \in Asleep : u = v
  <2>1. woken \subseteq woken'
    BY DEF Notify
  <2>2. \A u, v \in Asleep : u = v
    BY DEF Asleep, Alone, OneHook, Hooked, Creating, Deleting
  <2> QED
    BY <1>1, <2>1, <2>2 DEF Asleep
<1>3. CASE Asleep # {}
  <2>1. PICK u \in Asleep : woken' = woken \cup {u}
    BY <1>3 DEF Notify
  <2>2. u \notin Asleep'
    BY <2>1 DEF Asleep
  <2> QED
    BY <1>2, <2>2 DEF Notified
<1>4. CASE Asleep = {}
  BY <1>2, <1>4 DEF Notified
<1> QED
  BY <1>3, <1>4

LEMMA WorkerKeepsNotified ==
  ASSUME TypeOK, Alone, Notified, NEW w \in Workers, Worker(w) \/ Close(w)
  PROVE  Notified'
<1>1. PC = {"off", "start"} \cup Counted
  BY DEF PC
<1>2. CASE \/ Take(w) \/ Close(w) \/ Wait(w) \/ CreateIfIdle(w) \/ CreateIfMax(w)
           \/ DeleteReadIdle(w) \/ DeleteIfHalf(w) \/ DeleteIfMin(w)
  <2>1. /\ pc[w] \in {"loop", "idle", "serve", "create", "ifmax", "delete", "ifhalf", "ifmin"}
        /\ limit' = limit /\ woken' = woken
        /\ \E l \in {"create", "delete", "idle", "ifmax", "serve", "add", "ifhalf", "ifmin",
                     "remove", "loop"} : Goto(w, l)
    BY <1>2 DEF Take, Close, Wait, CreateIfIdle, CreateIfMax, DeleteReadIdle, DeleteIfHalf,
       DeleteIfMin, Finish, pool
  <2> QED
    BY <1>1, <2>1, MoveKeepsNotified, HooksAre
<1>3. CASE Retire(w)
  <2>1. /\ pc[w] \in {"loop", "idle"} /\ workerCount > limit /\ Goto(w, "off")
        /\ Notify(workerCount - 1 = limit)
    BY <1>3 DEF Retire
  <2>2. limit \in Nat /\ workerCount \in Nat
    BY CountTypes DEF TypeOK
  <2>3. PICK v \in Workers : pc[v] = "removing"
    BY <2>1, <2>2 DEF Alone, InStep
  <2>4. workerCount - 1 = limit
    BY <2>1, <2>2, <2>3 DEF Alone, InStep
  <2>5. Notify(TRUE)
    BY <2>1, <2>4 DEF Notify
  <2> QED
    BY <2>1, <2>5, NotifyWakes, HooksAre
<1>4. CASE Start(w)
  <2>1. PICK v \in Workers : pc[v] = "adding"
    BY <1>4 DEF Start, Alone, OneStart
  <2>2. limit \in Nat /\ workerCount \in Nat
    BY CountTypes DEF TypeOK
  <2>3. pc[w] = "start" /\ limit = workerCount + 1
    BY <1>4, <2>1 DEF Start, Alone, InStep
  <2>4. Goto(w, "loop") /\ Notify(TRUE)
    BY <1>4, <2>2, <2>3 DEF Start, Notify
  <2> QED
    BY <2>3, <2>4, NotifyWakes, HooksAre
<1>5. CASE AddWorker(w) \/ RemoveWorker(w)
  <2>1. /\ pc[w] \in {"add", "remove"} /\ limit \in Nat /\ workerCount \in Nat
        /\ pc \in [Workers -> PC]
    BY <1>5, CountTypes DEF AddWorker, RemoveWorker, TypeOK
  <2>2. \A u \in Workers \ {w} : pc[u] \notin Hooks
    BY <2>1, HookAlone, HooksAre
  <2>3. workerCount = limit
    BY <2>1, <2>2, HooksAre DEF Alone, InStep
  <2>4. limit' # limit /\ limit' \in Int
    BY <1>5, <2>1 DEF AddWorker, RemoveWorker
  <2>5. workerCount' = workerCount
    <3>1. CASE AddWorker(w)
      BY <2>1, <3>1, AddWorkerMoves
    <3>2. CASE RemoveWorker(w)
      <4>1. Goto(w, "removing") /\ pc[w] = "remove"
        BY <2>1, <2>3, <3>2 DEF RemoveWorker
      <4> QED
        BY <1>1, <2>1, <4>1, WorkerMoves, HooksAre
    <3> QED
      BY <1>5, <3>1, <3>2
  <2> QED
    BY <2>3, <2>4, <2>5 DEF Notified
<1>6. CASE Added(w) \/ Removed(w)
  <2>1. /\ workerCount = limit /\ \E l \in {"serve", "loop"} : Goto(w, l)
        /\ woken' = woken \ {w}
    BY <1>6 DEF Added, Removed, Finish
  <2>2. Asleep = {}
    BY <2>1 DEF Notified
  <2>3. /\ pc'[w] \notin {"adding", "removing"}
        /\ \A v \in Workers \ {w} : pc'[v] = pc[v] /\ (v \in woken' <=> v \in woken)
    BY <2>1 DEF Goto, TypeOK
  <2>4. Asleep' = {}
    BY <2>2, <2>3 DEF Asleep
  <2> QED
    BY <2>4 DEF Notified
<1>7. CASE SleepOn(w)
  <2>1. workerCount # limit /\ limit' = limit /\ pc' = pc
    BY <1>7 DEF SleepOn
  <2> QED
    BY <2>1, CountsStay DEF Notified
<1> QED
  BY <1>2, <1>3, <1>4, <1>5, <1>6, <1>7 DEF Worker

(* Nobody but w may be at the labels IdleLeft is about.                    *)
LEMMA IdleLeftAlone ==
  ASSUME NEW w \in Workers, \A v \in Workers \ {w} : pc'[v] \notin Deleting,
         \/ pc'[w] \notin {"ifhalf", "ifmin", "remove", "removing"}
         \/ SomeIdle'
         \/ pc'[w] = "ifhalf" /\ ~ (seen'[w] > 0)
         \/ pc'[w] = "ifmin" /\ ~ (workerCount' > 1)
         \/ pc'[w] = "removing" /\ workerCount' = limit'
  PROVE  IdleLeft'
BY DEF IdleLeft, Deleting

LEMMA WorkerKeepsIdleLeft ==
  ASSUME TypeOK, Alone, IdleLeft, ~ overlap', NEW w \in Workers, Worker(w) \/ Close(w)
  PROVE  IdleLeft'
<1>1. PC = {"off", "start"} \cup Counted
  BY DEF PC
<1>2. pc \in [Workers -> PC] /\ limit \in Nat /\ workerCount \in Nat /\ seen \in [Workers -> Nat]
  BY CountTypes DEF TypeOK
<1>3. CASE Take(w) \/ Close(w)
  <2>1. Hooked \ {w} = {} /\ \E l \in {"create", "delete"} : Goto(w, l)
    BY <1>3 DEF Take, Close, HookBegins
  <2>2. /\ pc'[w] \in {"create", "delete"}
        /\ \A v \in Workers \ {w} : pc'[v] = pc[v] /\ pc[v] \notin Deleting
    BY <1>2, <2>1 DEF Goto, Hooked
  <2> QED
    BY <2>2, IdleLeftAlone
<1>4. CASE Wait(w)
  <2>1. pc'[w] = "idle"
    BY <1>2, <1>4 DEF Wait, Goto
  <2> QED
    BY <2>1 DEF IdleLeft, SomeIdle
<1>5. CASE Retire(w)
  <2>1. /\ pc[w] \in {"loop", "idle"} /\ workerCount > limit /\ limit' = limit
        /\ Goto(w, "off")
    BY <1>5 DEF Retire
  <2>2. PICK v \in Workers : pc[v] = "removing"
    BY <1>2, <2>1 DEF Alone, InStep
  <2>3. workerCount = limit + 1
    BY <1>2, <2>1, <2>2 DEF Alone, InStep
  <2>4. workerCount' = workerCount - 1
    BY <1>1, <1>2, <2>1, WorkerMoves, HooksAre
  <2>5. \A u \in Workers \ {v} : pc[u] \notin Hooks
    BY <2>2, HookAlone, HooksAre
  <2>6. pc'[v] = "removing" /\ \A u \in Workers \ {v} : pc'[u] \notin Deleting
    BY <1>2, <2>1, <2>2, <2>5 DEF Goto, Hooks, Deleting
  <2> QED
    BY <1>2, <2>1, <2>3, <2>4, <2>6, IdleLeftAlone
<1>6. CASE Start(w)
  <2>1. PICK v \in Workers : pc[v] = "adding"
    BY <1>6 DEF Start, Alone, OneStart
  <2>2. \A u \in Workers \ {v} : pc[u] \notin Hooks
    BY <2>1, HookAlone, HooksAre
  <2>3. pc[w] = "start" /\ pc'[w] \in {"loop", "off"} /\ \A u \in Workers \ {w} : pc'[u] = pc[u]
    BY <1>2, <1>6 DEF Start, Goto
  <2>4. pc'[v] = "adding" /\ \A u \in Workers \ {v} : pc'[u] \notin Deleting
    BY <2>1, <2>2, <2>3 DEF Hooks, Deleting
  <2> QED
    BY <2>4, IdleLeftAlone
<1>7. CASE SleepOn(w)
  <2>1. pc' = pc /\ limit' = limit /\ seen' = seen
    BY <1>7 DEF SleepOn
  <2> QED
    BY <2>1, CountsStay DEF IdleLeft, SomeIdle
<1>8. ASSUME pc[w] \in Hooks, \A u \in Workers \ {w} : pc'[u] = pc[u] \/ (pc[u] = "off" /\ pc'[u] = "start")
      PROVE  /\ \A v \in Workers \ {w} : pc'[v] \notin Deleting
             /\ SomeIdle => SomeIdle'
  <2>1. \A v \in Workers \ {w} : pc[v] \notin Hooks
    BY <1>8, HookAlone
  <2>2. pc[w] # "idle"
    BY <1>8, HooksAre
  <2> QED
    BY <1>8, <2>1, <2>2 DEF Hooks, Deleting, SomeIdle
<1>9. CASE CreateIfIdle(w) \/ CreateIfMax(w) \/ Added(w) \/ Removed(w)
  <2>1. /\ pc[w] \in {"create", "ifmax", "adding", "removing"}
        /\ \E l \in {"ifmax", "serve", "add", "loop"} : Goto(w, l)
    BY <1>9 DEF CreateIfIdle, CreateIfMax, Added, Removed, Finish
  <2>2. /\ pc'[w] \in {"ifmax", "serve", "add", "loop"}
        /\ \A u \in Workers \ {w} : pc'[u] = pc[u]
    BY <1>2, <2>1 DEF Goto
  <2> QED
    BY <1>8, <2>1, <2>2, IdleLeftAlone, HooksAre
<1>10. CASE AddWorker(w)
  <2>1. PICK n \in Workers : /\ pc[n] = "off" /\ pc[w] = "add"
                             /\ \E l \in AfterAdd : pc' = [pc EXCEPT ![w] = l, ![n] = "start"]
    BY <1>10 DEF AddWorker, AfterAdd
  <2>2. /\ pc[w] \in Hooks /\ pc'[w] \in AfterAdd
        /\ \A u \in Workers \ {w} : pc'[u] = pc[u] \/ (pc[u] = "off" /\ pc'[u] = "start")
    BY <1>2, <2>1, HooksAre
  <2> QED
    BY <1>8, <2>2, IdleLeftAlone DEF AfterAdd
<1>11. CASE DeleteReadIdle(w)
  <2>1. pc[w] = "delete" /\ Goto(w, "ifhalf") /\ seen' = [seen EXCEPT ![w] = idleWorkerCount]
    BY <1>11 DEF DeleteReadIdle
  <2>2. /\ pc'[w] = "ifhalf" /\ seen'[w] = idleWorkerCount
        /\ \A u \in Workers \ {w} : pc'[u] = pc[u]
    BY <1>2, <2>1 DEF Goto
  <2>3. idleWorkerCount > 0 => SomeIdle
    <3>1. SUFFICES ASSUME ~ SomeIdle PROVE idleWorkerCount = 0
      BY CountTypes
    <3>2. \A v \in Workers : pc[v] \notin {"idle"}
      BY <3>1 DEF SomeIdle
    <3>3. CountIn(pc, {"idle"}) = 0
      BY <3>2, CountNone
    <3> QED
      BY <3>3 DEF idleWorkerCount, Count, CountIn
  <2> QED
    BY <1>8, <2>1, <2>2, <2>3, IdleLeftAlone, HooksAre
<1>12. CASE DeleteIfHalf(w) \/ DeleteIfMin(w)
  <2>1. /\ pc[w] \in {"ifhalf", "ifmin"}
        /\ \E l \in {"ifmin", "remove", "loop"} : Goto(w, l)
    BY <1>12 DEF DeleteIfHalf, DeleteIfMin, Finish
  <2>2. /\ pc'[w] \in {"ifmin", "remove", "loop"} /\ \A u \in Workers \ {w} : pc'[u] = pc[u]
    BY <1>2, <2>1 DEF Goto
  <2>3. workerCount' = workerCount
    BY <1>1, <1>2, <2>1, WorkerMoves, HooksAre
  <2>4. CASE pc'[w] = "ifmin"
    <3>1. pc[w] = "ifhalf" /\ seen[w] >= workerCount \div 2
      BY <1>2, <1>12, <2>4 DEF DeleteIfHalf, DeleteIfMin, Finish, Goto
    <3>2. workerCount > 1 => seen[w] > 0
      BY <1>2, <3>1
    <3>3. workerCount > 1 => SomeIdle
      BY <3>1, <3>2 DEF IdleLeft
    <3> QED
      BY <1>8, <2>1, <2>2, <2>3, <2>4, <3>3, IdleLeftAlone, HooksAre
  <2>5. CASE pc'[w] = "remove"
    <3>1. pc[w] = "ifmin" /\ workerCount > TMin
      BY <1>2, <1>12, <2>5 DEF DeleteIfHalf, DeleteIfMin, Finish, Goto
    <3>2. workerCount > 1
      BY <1>2, <3>1, PoolAssumption
    <3>3. SomeIdle
      BY <3>1, <3>2 DEF IdleLeft
    <3> QED
      BY <1>8, <2>1, <2>2, <3>3, IdleLeftAlone, HooksAre
  <2>6. CASE pc'[w] = "loop"
    BY <1>8, <2>1, <2>2, <2>6, IdleLeftAlone, HooksAre
  <2> QED
    BY <2>2, <2>4, <2>5, <2>6
<1>13. CASE RemoveWorker(w)
  <2>1. pc[w] = "remove" /\ \E l \in {"removing", "loop"} : Goto(w, l)
    BY <1>13 DEF RemoveWorker, Finish
  <2>2. SomeIdle /\ \A u \in Workers \ {w} : pc'[u] = pc[u]
    BY <1>2, <2>1 DEF IdleLeft, Goto
  <2> QED
    BY <1>8, <2>1, <2>2, IdleLeftAlone, HooksAre
<1> QED
  BY <1>3, <1>4, <1>5, <1>6, <1>7, <1>9, <1>10, <1>11, <1>12, <1>13 DEF Worker

LEMMA WatchNext ==
  ASSUME TypeOK, Alone, Notified, IdleLeft, ~ overlap', [Next]_vars
  PROVE  Notified' /\ IdleLeft'
<1>1. CASE UNCHANGED vars \/ Add \/ \E c \in Conns : Accept(c)
  <2>1. pc' = pc /\ limit' = limit /\ woken' = woken /\ seen' = seen
    BY <1>1 DEF vars, pool, Add, Accept
  <2> QED
    BY <2>1, CountsStay DEF Notified, Asleep, IdleLeft, SomeIdle
<1> QED
  BY <1>1, WorkerKeepsNotified, WorkerKeepsIdleLeft DEF Next

-----------------------------------------------------------------------------
LEMMA PoolInit == Init => PInv
<1> SUFFICES ASSUME Init PROVE PInv
  OBVIOUS
<1>1. TypeOK /\ ConnsAccepted /\ Limits
  BY TypesInit, LimitsInit
<1>2. \A w \in Workers : pc[w] \in {"idle", "off"}
  BY DEF Init
<1>3. limit = InitWorkers /\ workerCount = limit
  BY CountsInit DEF Init
<1>4. Alone
  BY <1>2, <1>3, PoolAssumption
  DEF Alone, OneHook, OneStart, InStep, TestsHold, Hooked, Creating, Deleting
<1>5. Notified /\ IdleLeft
  BY <1>2 DEF Notified, Asleep, IdleLeft
<1> QED
  BY <1>1, <1>4, <1>5 DEF PInv, Limits

LEMMA PoolNext == PInv /\ [Next]_vars => PInv'
<1> SUFFICES ASSUME PInv, [Next]_vars PROVE PInv'
  OBVIOUS
<1>1. TypeOK' /\ ConnsAccepted'
  BY TypesNext DEF PInv
<1>2. Limits'
  BY LimitsNext DEF PInv, Limits
<1>3. ~ overlap' => Alone' /\ Notified' /\ IdleLeft'
  BY OverlapStays, AloneNext, WatchNext DEF PInv
<1> QED
  BY <1>1, <1>2, <1>3 DEF PInv, Limits

(* Whatever the connections do and however the hooks interleave, the limit *)
(* and the count of workers stay as close as PInv says.                    *)
THEOREM PoolInvariant == Spec => []PInv
BY PoolInit, PoolNext, PTL DEF Spec

(* Every variable of the pool keeps its type, the limit of workers in      *)
(* particular: removeWorker() never takes it below zero.                   *)
THEOREM PoolTypeCorrect == Spec => []TypeOK
<1>1. PInv => TypeOK
  BY DEF PInv
<1> QED
  BY <1>1, PoolInvariant, PTL

(* The bounds PoolSvrEvtHandler is constructed with hold as long as no two *)
(* hooks run at the same time.                                             *)
THEOREM PoolUnoverlappedBounds == Spec => []UnoverlappedBounds
<1>1. PInv => UnoverlappedBounds
  BY DEF PInv, Alone, UnoverlappedBounds
<1> QED
  BY <1>1, PoolInvariant, PTL

(* Hooks that overlap can take the count beyond t_max, but not beyond      *)
(* 2 * t_max - 2: whoever is about to add a worker has been counted.       *)
THEOREM PoolOvershootBounded == Spec => []OvershootBounded
<1>1. PInv => OvershootBounded
  BY DEF PInv
<1> QED
  BY <1>1, PoolInvariant, PTL

(* A pool in which every worker sleeps in addWorker() or removeWorker(), or *)
(* is with a client that may stay, is one in which two hooks have run at   *)
(* the same time.                                                          *)
THEOREM PoolHangNeedsOverlap == Spec => []HangNeedsOverlap
<1>1. PInv => HangNeedsOverlap
  <2> SUFFICES ASSUME PInv, ~ overlap, Hung
               PROVE  FALSE
    BY DEF HangNeedsOverlap
  <2>1. Alone /\ Notified /\ IdleLeft /\ limit \in Nat /\ workerCount \in Nat
    BY CountTypes DEF PInv, TypeOK
  <2>2. \A v \in Workers : pc[v] \in {"off", "serve", "adding", "removing"}
    BY DEF Hung, Asleep, Holding
  <2>3. PICK w \in Workers : w \in Asleep
    BY DEF Hung, Asleep
  <2>4. workerCount # limit
    BY <2>1, <2>3 DEF Notified
  <2>5. CASE pc[w] = "adding"
    BY <2>1, <2>2, <2>4, <2>5 DEF Alone, InStep
  <2>6. CASE pc[w] = "removing"
    BY <2>1, <2>2, <2>4, <2>6 DEF IdleLeft, SomeIdle
  <2> QED
    BY <2>3, <2>5, <2>6 DEF Asleep
<1> QED
  BY <1>1, PoolInvariant, PTL
=============================================================================
