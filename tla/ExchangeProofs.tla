--------------------------- MODULE ExchangeProofs ---------------------------
(***************************************************************************)
(* What is proved of Exchange, for every set of pairs of programs that     *)
(* meet, every number of threads, of rounds and of calls in a round, and   *)
(* however often the server ends.  ExchangeInv is inductive: it is kept    *)
(* thread by thread, with one lemma for what several actions share (a call *)
(* begins, returns, fails) and one for each action.                        *)
(***************************************************************************)
EXTENDS Exchange, ProgramsProofs

(* A client that opens a connection for each request keeps none.           *)
LEMMA PerRequestKinds ==
  ASSUME NEW c \in PerRequest PROVE c.loop = "requests" /\ c.keeps = FALSE
BY ClientTable DEF ClientRow, PerRequest

(* A reply by a method of its name makes the client's call return, and is   *)
(* one that a client counts, if it counts any.                              *)
LEMMA RepliesRead ==
  ASSUME NEW c \in Clients, NEW s \in Servers, NEW k \in s.methods, NEW m,
         ~ k.oneway, ~ c.call.oneway, k.name = c.call.name,
         m.kind = "reply", m.name = c.call.name,
         m.body = Write(k.result, Filled(k.result, s.answer))
  PROVE  /\ Reading(c.call, m) = "returns"
         /\ c.counts # {} /\ s.speaks \in c.speaks => Value(c.call, m) \in c.counts
<1> DEFINE r == c.call.result
<1>1. k = c.call
  BY TwoWayAgree
<1>2. Read(r, m.body) = Filled(r, s.answer)
  BY <1>1, RoundTrip
<1>3. DOMAIN Filled(r, s.answer) = DOMAIN r
  BY DEF Filled
<1>4. r = NoFields \/ 0 \in DOMAIN r
  BY ResultParts, ClientKinds
<1>5. Reading(c.call, m) = "returns"
  BY <1>2, <1>3, <1>4 DEF Reading
<1>6. ASSUME c.counts # {}, s.speaks \in c.speaks PROVE Value(c.call, m) \in c.counts
  <2>1. /\ s.speaks = << Framed, JSON >>
        /\ \/ c.call = UniqueIDCall_ttd /\ c.counts = {"id"}
           \/ c.call = ListCall_ttd /\ c.counts = {"processed"}
    BY <1>6, CountingClients
  <2>2. s.answer \in c.counts
    <3>1. CASE k = UniqueIDCall_ttd /\ c.counts = {"id"}
      <4>1. s.methods = {UniqueIDCall_ttd}
        BY <3>1, ServerKinds, CallParts DEF TwoWayCalls, OnewayCalls
      <4> QED BY <3>1, <4>1, ServerKinds
    <3>2. CASE k = ListCall_ttd /\ c.counts = {"processed"}
      <4>1. s.methods = {ValueCall, ListCall_ttd}
        BY <3>2, ServerKinds, CallParts DEF TwoWayCalls, OnewayCalls
      <4> QED BY <2>1, <3>2, <4>1, ServerKinds
    <3> QED BY <1>1, <2>1, <3>1, <3>2
  <2>3. DOMAIN r = {0} /\ r[0].wire = "string"
    BY <2>1, ResultParts
  <2>4. r # NoFields
    BY <2>3 DEF NoFields
  <2>5. Filled(r, s.answer)[0] = s.answer
    BY <2>3 DEF Filled
  <2> QED BY <1>2, <2>2, <2>3, <2>4, <2>5 DEF Value
<1> QED BY <1>5, <1>6

-----------------------------------------------------------------------------
(* The inductive invariant, thread by thread.                              *)
Shape(t) ==
  /\ link[t] # << >> => link[t].kind \in {"call", "reply", "exception"}
  /\ DOMAIN call[t] = DOMAIN NoCall
  /\ call[t].ran \in 0 .. 1 /\ call[t].end \in {"none", "returned", "failed"}
  /\ call[t].stale \in BOOLEAN /\ call[t].trouble \in BOOLEAN /\ call[t].all \in 0 .. AllCap
  /\ pc[t] \in {"start", "head", "idle", "ready"} => link[t] = << >>

Ended(t) == ~ aborted /\ pc[t] = "over" => call[t].all = dep.seconds * dep.reqps

ThreadInv(t) == /\ Shape(t) /\ Pending(t) /\ OnTheWire(t) /\ Reasons(t)
                /\ Client.loop = "rounds" => Rounds(t) /\ Ended(t)

Tables == /\ up \in BOOLEAN /\ crashes \in 0 .. MaxCrashes /\ aborted \in BOOLEAN
          /\ pc \in [Threads -> PC] /\ conn \in [Threads -> {"closed", "open", "broken"}]
          /\ counter \in [Threads -> 0 .. dep.seconds]
          /\ made \in [Threads -> 0 .. dep.reqps] /\ response \in [Threads -> 0 .. dep.reqps]
          /\ DOMAIN link = Threads /\ DOMAIN call = Threads

(* The invariant is that of every thread, and that the pair is one.        *)
LEMMA ByThread == ExchangeInv <=> Meets /\ Tables /\ \A t \in Threads : ThreadInv(t)
<1>1. ExchangeInv => Tables
  BY DEF ExchangeInv, TypeOK, Histories, Tables
<1>2. ExchangeInv => \A t \in Threads : Shape(t)
  <2>1. ExchangeInv => \A t \in Threads : pc[t] = "start" => link[t] = << >>
    BY DEF ExchangeInv, Pending
  <2> QED BY <2>1 DEF ExchangeInv, TypeOK, Histories, AtMostOnce, QuietWhenIdle, Shape
<1>3. ExchangeInv => (Client.loop = "rounds" => \A t \in Threads : Ended(t))
  BY DEF ExchangeInv, EndedMeansAllCalls, Ended
<1>4. ExchangeInv => Meets /\ \A t \in Threads : ThreadInv(t)
  BY <1>2, <1>3 DEF ExchangeInv, ThreadInv
<1>5. ASSUME Meets, Tables, \A t \in Threads : ThreadInv(t) PROVE ExchangeInv
  <2>1. \A t \in Threads : Shape(t) /\ (Client.loop = "rounds" => Ended(t))
    BY <1>5 DEF ThreadInv
  <2>2. TypeOK /\ Histories
    <3>1. \A t \in Threads :
            /\ link[t] # << >> => link[t].kind \in {"call", "reply", "exception"}
            /\ call[t].ran \in Nat /\ call[t].end \in {"none", "returned", "failed"}
            /\ call[t].all \in 0 .. AllCap
      BY <2>1 DEF Shape
    <3>2. \A t \in Threads : /\ DOMAIN call[t] = DOMAIN NoCall
                             /\ call[t].stale \in BOOLEAN /\ call[t].trouble \in BOOLEAN
      BY <2>1 DEF Shape
    <3>3. TypeOK
      BY <1>5, <3>1 DEF TypeOK, Tables
    <3>4. Histories
      BY <1>5, <3>2 DEF Histories, Tables
    <3> QED BY <3>3, <3>4
  <2>3. AtMostOnce /\ QuietWhenIdle
    BY <2>1 DEF AtMostOnce, QuietWhenIdle, Shape
  <2>4. EndedMeansAllCalls
    BY <2>1 DEF EndedMeansAllCalls, Ended
  <2> QED BY <1>5, <2>2, <2>3, <2>4 DEF ExchangeInv, ThreadInv
<1> QED BY <1>1, <1>4, <1>5

(* The pair of a behaviour is one of programs, and stays.                  *)
LEMMA PairKinds ==
  ASSUME Meets
  PROVE  /\ Client \in Clients /\ Server \in Servers
         /\ dep.seconds \in Nat /\ dep.reqps \in Nat
BY ExchangeAssumption DEF Meets

(* A step that leaves the pair alone leaves what is said of it.            *)
LEMMA PairStays ==
  ASSUME Meets, dep' = dep
  PROVE  Meets' /\ Client' = Client /\ Server' = Server /\ (Compatible <=> Compatible')
BY DEF Meets, Client, Server, Compatible

(* A thread that nothing happens to keeps its part.                        *)
LEMMA Untouched ==
  ASSUME NEW t \in Threads, ThreadInv(t), dep' = dep, up' = up, aborted' = aborted,
         pc'[t] = pc[t], conn'[t] = conn[t], link'[t] = link[t], counter'[t] = counter[t],
         made'[t] = made[t], response'[t] = response[t], call'[t] = call[t]
  PROVE  ThreadInv(t)'
BY DEF ThreadInv, Shape, Pending, OnTheWire, Reasons, Rounds, Ended, Client, Server, Compatible,
       Sent, Methods

(* The tables of the threads, and every thread's part.                     *)
Body == Tables /\ \A t \in Threads : ThreadInv(t)

(* The labels and the fields, written out for the provers.                 *)
LEMMA Labels ==
  /\ PC = {"start", "head", "idle", "ready", "wait", "over"}
  /\ DOMAIN NoCall = {"ran", "got", "end", "stale", "trouble", "all"}
  /\ AllCap \in Nat
BY ExchangeAssumption DEF PC, NoCall, AllCap

(* A call begins where nothing is left of the last one.                    *)
LEMMA BeginKeeps ==
  ASSUME Meets, Body, NEW t \in Threads, Begin(t), pc[t] = "idle",
         Client.loop = "rounds" => made[t] < dep.reqps,
         UNCHANGED << server, loop, conn, link, aborted >>
  PROVE  Body'
<1>1. /\ dep' = dep /\ up' = up /\ crashes' = crashes /\ conn' = conn /\ link' = link
      /\ aborted' = aborted /\ counter' = counter /\ made' = made /\ response' = response
  BY DEF server, loop
<1>2. /\ pc' = [pc EXCEPT ![t] = "ready"]
      /\ call' = [call EXCEPT ![t] = [NoCall EXCEPT !.stale = conn[t] = "broken",
                                                    !.trouble = ~ up, !.all = call[t].all]]
  BY DEF Begin, Goto
<1>3. /\ pc'[t] = "ready" /\ DOMAIN call'[t] = DOMAIN NoCall
      /\ call'[t].ran = 0 /\ call'[t].end = "none" /\ call'[t].all = call[t].all
      /\ call'[t].stale = (conn[t] = "broken") /\ call'[t].trouble = ~ up
  BY <1>2 DEF Body, Tables, NoCall
<1>4. Tables'
  BY <1>1, <1>2, Labels DEF Body, Tables
<1>5. \A u \in Threads \ {t} : ThreadInv(u)'
  <2>1. \A u \in Threads \ {t} : pc'[u] = pc[u] /\ call'[u] = call[u]
    BY <1>2 DEF Body, Tables
  <2> QED BY <1>1, <2>1, Untouched DEF Body
<1>6. ThreadInv(t)'
  <2>1. Shape(t)'
    BY <1>1, <1>3 DEF Body, ThreadInv, Shape
  <2>2. Pending(t)'
    BY <1>1, <1>3 DEF Pending, Client
  <2>3. OnTheWire(t)'
    BY <1>1, <1>3 DEF Body, ThreadInv, Shape, OnTheWire
  <2>4. Reasons(t)'
    BY <1>1, <1>3 DEF Body, ThreadInv, Reasons, Client, Server, Compatible
  <2>5. Client.loop = "rounds" => Rounds(t)' /\ Ended(t)'
    BY <1>1, <1>3 DEF Body, ThreadInv, Rounds, Ended, Client
  <2> QED BY <1>1, <2>1, <2>2, <2>3, <2>4, <2>5 DEF ThreadInv, Client
<1> QED BY <1>4, <1>5, <1>6 DEF Body

(* A call of a generator is one of those it has left.                      *)
LEMMA ProductGrows ==
  ASSUME NEW a \in Nat, NEW b \in Nat, NEW n \in Nat, a < b
  PROVE  a * n + n <= b * n
<1>1. (b - a - 1) * n >= 0
  OBVIOUS
<1>2. b * n = (b - a - 1) * n + a * n + n
  OBVIOUS
<1> QED BY <1>1, <1>2

(* The calls a generator has counted are below the cap of the history.     *)
LEMMA CallsLeft ==
  ASSUME Meets, NEW k \in Nat, NEW n \in Nat, k < dep.seconds, n < dep.reqps
  PROVE  k * dep.reqps + n < AllCap
<1>1. /\ dep.seconds \in Nat /\ dep.seconds <= MaxSeconds
      /\ dep.reqps \in Nat /\ dep.reqps <= MaxReqps /\ MaxSeconds \in Nat /\ MaxReqps \in Nat
  BY ExchangeAssumption DEF Meets
<1>2. k * dep.reqps + dep.reqps <= dep.seconds * dep.reqps
  BY <1>1, ProductGrows
<1>3. dep.seconds * dep.reqps <= MaxSeconds * dep.reqps
  BY <1>1, ProductGrows
<1>4. MaxSeconds * dep.reqps <= MaxSeconds * MaxReqps
  BY <1>1, ProductGrows
<1> QED BY <1>1, <1>2, <1>3, <1>4 DEF AllCap

(* What returns was run, unless nobody waits for its answer.               *)
LEMMA ReturnKeeps ==
  ASSUME Meets, Body, NEW t \in Threads, NEW v, Return(t, v), pc[t] \in {"ready", "wait"},
         Client.call.oneway \/ (call[t].ran > 0 /\ link'[t] = << >>),
         Client.call.oneway \/ Client.counts = {} \/ v \in Client.counts,
         DOMAIN link' = Threads, \A u \in Threads \ {t} : link'[u] = link[u],
         link'[t] # << >> =>
           /\ link'[t].kind = "call" /\ link'[t].name = Client.call.name /\ dep.reached
           /\ link'[t].body = Write(Client.call.args, Sent) /\ call[t].ran = 0,
         UNCHANGED << server, counter, aborted >>
  PROVE  Body'
<1>1. /\ dep' = dep /\ up' = up /\ crashes' = crashes /\ aborted' = aborted /\ counter' = counter
  BY DEF server
<1>2. /\ pc' = [pc EXCEPT ![t] = IF Client.loop = "once" THEN "over" ELSE "idle"]
      /\ conn' = [conn EXCEPT ![t] = IF Client.keeps \/ Client.loop \in {"rounds", "prompt"}
                                     THEN conn[t] ELSE "closed"]
      /\ made' = [made EXCEPT ![t] = IF Client.loop = "rounds" THEN made[t] + 1 ELSE made[t]]
      /\ response' = [response EXCEPT ![t] = IF v \in Client.counts THEN response[t] + 1
                                             ELSE response[t]]
  BY DEF Return, Goto
<1>3. /\ DOMAIN call' = Threads /\ \A u \in Threads \ {t} : call'[u] = call[u]
      /\ DOMAIN call'[t] = DOMAIN NoCall /\ call'[t].ran = call[t].ran
      /\ call'[t].end = "returned" /\ call'[t].stale = call[t].stale
      /\ call'[t].trouble = call[t].trouble
      /\ call'[t].all = IF call[t].all < AllCap THEN call[t].all + 1 ELSE call[t].all
  <2> DEFINE done == [call[t] EXCEPT !.end = "returned",
                                     !.all = IF call[t].all < AllCap THEN call[t].all + 1
                                             ELSE call[t].all]
  <2>1. call' = [call EXCEPT ![t] = done]
    BY DEF Return
  <2>2. DOMAIN call[t] = {"ran", "got", "end", "stale", "trouble", "all"}
    BY Labels DEF Body, ThreadInv, Shape
  <2>3. /\ DOMAIN done = DOMAIN NoCall /\ done.ran = call[t].ran /\ done.end = "returned"
        /\ done.stale = call[t].stale /\ done.trouble = call[t].trouble
        /\ done.all = IF call[t].all < AllCap THEN call[t].all + 1 ELSE call[t].all
    BY <2>2, Labels
  <2> HIDE DEF done
  <2>4. DOMAIN call = Threads
    BY DEF Body, Tables
  <2>5. DOMAIN call' = Threads /\ call'[t] = done /\ \A u \in Threads \ {t} : call'[u] = call[u]
    BY <2>1, <2>4
  <2> QED BY <2>3, <2>5
<1>4. /\ Client.loop \in {"once", "requests", "rounds", "prompt"}
      /\ Client.call.oneway => Client.loop = "once"
      /\ Client.counts # {} => Client.loop = "rounds"
      /\ dep.reqps \in Nat /\ dep.seconds \in Nat
  BY PairKinds, ClientKinds
<1>5. /\ pc'[t] \in {"over", "idle"} /\ (pc'[t] = "over" <=> Client.loop = "once")
      /\ made[t] \in Nat /\ response[t] \in Nat /\ counter[t] \in Nat
      /\ made'[t] = IF Client.loop = "rounds" THEN made[t] + 1 ELSE made[t]
      /\ response'[t] = IF v \in Client.counts THEN response[t] + 1 ELSE response[t]
  BY <1>2, <1>4 DEF Body, Tables
<1>6. Client.loop = "rounds" =>
        made[t] < dep.reqps /\ response[t] <= made[t] /\ counter[t] < dep.seconds
  BY DEF Body, ThreadInv, Rounds
<1>7. Tables'
  <2>1. made'[t] \in 0 .. dep.reqps /\ response'[t] \in 0 .. dep.reqps
    BY <1>4, <1>5, <1>6 DEF Body, Tables
  <2> QED BY <1>1, <1>2, <1>3, <2>1, Labels DEF Body, Tables
<1>8. \A u \in Threads \ {t} : ThreadInv(u)'
  <2>1. \A u \in Threads \ {t} :
          /\ pc'[u] = pc[u] /\ conn'[u] = conn[u] /\ made'[u] = made[u]
          /\ response'[u] = response[u]
    BY <1>2 DEF Body, Tables
  <2> QED BY <1>1, <1>3, <2>1, Untouched DEF Body
<1>9. ThreadInv(t)'
  <2>1. Shape(t)'
    BY <1>3, <1>4, <1>5, Labels DEF Body, ThreadInv, Shape
  <2>2. Pending(t)'
    BY <1>1, <1>3, <1>5 DEF Pending, Client
  <2>3. Reasons(t)'
    BY <1>1, <1>2, <1>3, <1>4, <1>5 DEF Body, Tables, ThreadInv, Reasons, Client, Server, Compatible
  <2>4. OnTheWire(t)'
    BY <1>1, <1>3 DEF OnTheWire, Client, Sent
  <2>5. ASSUME Client.loop = "rounds" PROVE Rounds(t)' /\ Ended(t)'
    <3>1. Client.ticks => /\ call[t].all = counter[t] * dep.reqps + made[t]
                          /\ call'[t].all = call[t].all + 1
      BY <1>3, <1>5, <1>6, <2>5, CallsLeft DEF Body, ThreadInv, Rounds
    <3>2. /\ pc'[t] = "idle" /\ made'[t] = made[t] + 1 /\ ~ Client.call.oneway
      BY <1>4, <1>5, <2>5
    <3>3. Client.counts # {} => response'[t] = made'[t]
      BY <1>5, <2>5, <3>2 DEF Body, ThreadInv, Rounds
    <3>4. response'[t] <= made'[t]
      BY <1>5, <1>6, <2>5, <3>2
    <3>5. Client.ticks => call'[t].all = counter[t] * dep.reqps + made'[t]
      <4>1. counter[t] * dep.reqps \in Nat
        BY <1>4, <1>5
      <4> QED BY <1>5, <3>1, <3>2, <4>1
    <3>6. ~ Client.ticks => counter'[t] = 0 /\ dep.seconds # 0
      BY <1>1, <1>6, <2>5 DEF Body, ThreadInv, Rounds
    <3> QED BY <1>1, <1>6, <2>5, <3>2, <3>3, <3>4, <3>5, <3>6 DEF Rounds, Ended, Client
  <2> QED BY <1>1, <2>1, <2>2, <2>3, <2>4, <2>5 DEF ThreadInv, Client
<1> QED BY <1>7, <1>8, <1>9 DEF Body

(* A call that fails has a reason to.  Uncaught, it ends every thread.     *)
LEMMA FailKeeps ==
  ASSUME Meets, Body, NEW t \in Threads, NEW phase \in Phases, NEW after,
         after \in {"closed", "broken", conn[t]},
         Fail(t, phase, after), pc[t] \in {"start", "ready", "wait"},
         ~ Compatible \/ call[t].trouble \/ call[t].stale,
         DOMAIN link' = Threads, link'[t] = << >>, \A u \in Threads \ {t} : link'[u] = link[u],
         UNCHANGED << server, loop >>
  PROVE  Body'
<1>1. /\ dep' = dep /\ up' = up /\ crashes' = crashes /\ counter' = counter /\ made' = made
      /\ response' = response
  BY DEF server, loop
<1>2. call' = [call EXCEPT ![t].end = "failed"]
  BY DEF Fail
<1>3. /\ DOMAIN call' = Threads /\ \A u \in Threads \ {t} : call'[u] = call[u]
      /\ DOMAIN call'[t] = DOMAIN NoCall /\ call'[t].ran = call[t].ran
      /\ call'[t].end = "failed" /\ call'[t].stale = call[t].stale
      /\ call'[t].trouble = call[t].trouble /\ call'[t].all = call[t].all
  BY <1>2, Labels DEF Body, Tables, ThreadInv, Shape
<1>4. /\ Client.loop \in {"once", "requests", "rounds", "prompt"}
      /\ Client.loop = "requests" => Client.caught = Phases
      /\ Client.loop = "rounds" => Client.caught = {}
      /\ dep.reqps \in Nat /\ dep.seconds \in Nat
  BY PairKinds, ClientKinds
<1>5. ASSUME NEW u \in Threads, pc'[u] \in {"over", "idle"},
             pc'[u] = "idle" => u = t /\ Client.loop = "requests",
             Client.loop = "rounds" => aborted',
             conn'[u] = "open" => dep.reached,
             Client.loop = "requests" /\ ~ Client.keeps => conn'[u] = "closed"
      PROVE  ThreadInv(u)'
  <2>1. /\ DOMAIN call'[u] = DOMAIN NoCall /\ call'[u].ran = call[u].ran
        /\ call'[u].stale = call[u].stale /\ call'[u].trouble = call[u].trouble
        /\ call'[u].all = call[u].all
        /\ call'[u].end = "failed" \/ call'[u].end = call[u].end
        /\ call'[u].end = "failed" =>
              call[u].end = "failed" \/ ~ Compatible \/ call[u].trouble \/ call[u].stale
    BY <1>3 DEF Body, ThreadInv, Shape
  <2>2. link'[u] = << >> \/ (link'[u] = link[u] /\ u # t)
    OBVIOUS
  <2>3. Shape(u)'
    BY <1>5, <2>1, <2>2 DEF Body, ThreadInv, Shape
  <2>4. Pending(u)'
    BY <1>1, <1>5, <2>1 DEF Body, ThreadInv, Pending, Client
  <2>5. OnTheWire(u)'
    BY <1>1, <2>1, <2>2 DEF Body, ThreadInv, OnTheWire, Client, Server, Compatible, Sent, Methods
  <2>6. Reasons(u)'
    BY <1>1, <1>5, <2>1 DEF Body, ThreadInv, Reasons, Client, Server, Compatible
  <2>7. Client.loop = "rounds" => Rounds(u)' /\ Ended(u)'
    BY <1>1, <1>5, <2>1 DEF Body, ThreadInv, Rounds, Ended, Client
  <2> QED BY <1>1, <2>3, <2>4, <2>5, <2>6, <2>7 DEF ThreadInv, Client
<1>6. CASE phase \notin Client.caught
  <2>1. /\ aborted' = TRUE /\ pc' = [u \in Threads |-> "over"]
        /\ conn' = [u \in Threads |-> "closed"]
    BY <1>6 DEF Fail
  <2>2. Tables'
    BY <1>1, <1>3, <2>1, Labels DEF Body, Tables
  <2>3. \A u \in Threads : ThreadInv(u)'
    <3>1. \A u \in Threads : pc'[u] = "over" /\ conn'[u] = "closed"
      BY <2>1
    <3> QED BY <1>5, <2>1, <3>1
  <2> QED BY <2>2, <2>3 DEF Body
<1>7. CASE phase \in Client.caught
  <2>1. /\ aborted' = aborted
        /\ pc' = [pc EXCEPT ![t] = IF Client.loop = "requests" THEN "idle" ELSE "over"]
        /\ conn' = [conn EXCEPT ![t] = IF Client.keeps THEN after ELSE "closed"]
    BY <1>7 DEF Fail, Goto
  <2>2. /\ pc'[t] = IF Client.loop = "requests" THEN "idle" ELSE "over"
        /\ conn'[t] = IF Client.keeps THEN after ELSE "closed"
        /\ \A u \in Threads \ {t} : pc'[u] = pc[u] /\ conn'[u] = conn[u]
    BY <2>1 DEF Body, Tables
  <2>3. Tables'
    BY <1>1, <1>3, <2>1, Labels DEF Body, Tables
  <2>4. \A u \in Threads \ {t} : ThreadInv(u)'
    BY <1>1, <1>3, <2>1, <2>2, Untouched DEF Body
  <2>5. ThreadInv(t)'
    <3>1. Client.loop # "rounds"
      BY <1>4, <1>7
    <3>2. conn[t] = "open" => dep.reached
      BY DEF Body, ThreadInv, Reasons
    <3> QED BY <1>5, <2>2, <3>1, <3>2
  <2> QED BY <2>3, <2>4, <2>5 DEF Body
<1> QED BY <1>6, <1>7

-----------------------------------------------------------------------------
(* One lemma for each action.  An HTTP request begins a call.              *)
LEMMA RequestKeeps ==
  ASSUME Meets, Body, NEW t \in Threads, Request(t) PROVE Body'
<1>1. /\ pc[t] = "idle" /\ Client.loop # "rounds" /\ Begin(t)
      /\ UNCHANGED << server, loop, conn, link, aborted >>
  BY DEF Request
<1> QED BY <1>1, BeginKeeps

(* A line of input begins one, or ends the client.                         *)
LEMMA PromptKeeps ==
  ASSUME Meets, Body, NEW t \in Threads, Prompt(t) PROVE Body'
<1>1. pc[t] = "idle" /\ Client.loop = "prompt" /\ UNCHANGED << server, loop, link, aborted >>
  BY DEF Prompt
<1>2. CASE Begin(t) /\ UNCHANGED conn
  BY <1>1, <1>2, BeginKeeps
<1>3. CASE Goto(t, "over") /\ conn' = [conn EXCEPT ![t] = "closed"] /\ UNCHANGED call
  <2>1. /\ dep' = dep /\ up' = up /\ crashes' = crashes /\ link' = link /\ aborted' = aborted
        /\ counter' = counter /\ made' = made /\ response' = response /\ call' = call
    BY <1>1, <1>3 DEF server, loop
  <2>2. /\ pc' = [pc EXCEPT ![t] = "over"] /\ conn' = [conn EXCEPT ![t] = "closed"]
        /\ pc'[t] = "over" /\ conn'[t] = "closed"
        /\ \A u \in Threads \ {t} : pc'[u] = pc[u] /\ conn'[u] = conn[u]
    BY <1>3 DEF Goto, Body, Tables
  <2>3. Tables'
    BY <2>1, <2>2, Labels DEF Body, Tables
  <2>4. \A u \in Threads \ {t} : ThreadInv(u)'
    BY <2>1, <2>2, Untouched DEF Body
  <2>5. Shape(t)' /\ Pending(t)'
    BY <2>1, <2>2 DEF Body, ThreadInv, Shape, Pending, Client
  <2>6. OnTheWire(t)' /\ Reasons(t)'
    BY <2>1, <2>2 DEF Body, ThreadInv, OnTheWire, Reasons, Client, Server, Compatible, Sent, Methods
  <2>7. ThreadInv(t)'
    BY <1>1, <2>1, <2>5, <2>6 DEF ThreadInv, Client
  <2> QED BY <2>3, <2>4, <2>7 DEF Body
<1> QED BY <1>2, <1>3 DEF Prompt

(* The loop of a generator ends when it has made all its calls, or begins  *)
(* a round.                                                                *)
LEMMA HeadKeeps ==
  ASSUME Meets, Body, NEW t \in Threads, Head(t) PROVE Body'
<1>1. /\ dep' = dep /\ up' = up /\ crashes' = crashes /\ link' = link /\ aborted' = aborted
      /\ counter' = counter /\ call' = call /\ pc[t] = "head"
  BY DEF Head, server
<1> Client.loop = "rounds"
  BY <1>1 DEF Body, ThreadInv, Pending
<1>2. /\ dep.reqps \in Nat /\ dep.seconds \in Nat /\ counter[t] \in 0 .. dep.seconds
      /\ link[t] = << >>
  BY <1>1, PairKinds DEF Body, Tables, ThreadInv, Shape
<1>3. Client.ticks => call[t].all = counter[t] * dep.reqps
  BY <1>1 DEF Body, ThreadInv, Rounds
<1>4. CASE counter[t] = dep.seconds
  <2>1. /\ pc' = [pc EXCEPT ![t] = "over"] /\ conn' = [conn EXCEPT ![t] = "closed"]
        /\ made' = made /\ response' = response
        /\ pc'[t] = "over" /\ conn'[t] = "closed"
        /\ \A u \in Threads \ {t} : pc'[u] = pc[u] /\ conn'[u] = conn[u]
    BY <1>4 DEF Head, Goto, Body, Tables
  <2>2. Tables'
    BY <1>1, <2>1, Labels DEF Body, Tables
  <2>3. \A u \in Threads \ {t} : ThreadInv(u)'
    BY <1>1, <2>1, Untouched DEF Body
  <2>4. Shape(t)' /\ Pending(t)'
    BY <1>1, <2>1 DEF Body, ThreadInv, Shape, Pending, Client
  <2>5. OnTheWire(t)' /\ Reasons(t)'
    BY <1>1, <1>2, <2>1 DEF Body, ThreadInv, OnTheWire, Reasons, Client, Server, Compatible
  <2>6. Rounds(t)'
    BY <1>1, <2>1 DEF Body, ThreadInv, Rounds, Client
  <2>7. Ended(t)'
    <3>1. CASE Client.ticks
      BY <1>1, <1>3, <1>4, <3>1 DEF Ended
    <3>2. CASE ~ Client.ticks
      <4>1. counter[t] = 0 /\ (dep.seconds = 0 => call[t].all = 0)
        BY <3>2 DEF Body, ThreadInv, Rounds
      <4> QED BY <1>1, <1>2, <1>4, <4>1 DEF Ended
    <3> QED BY <3>1, <3>2
  <2>8. ThreadInv(t)'
    BY <1>1, <2>4, <2>5, <2>6, <2>7 DEF ThreadInv, Client
  <2> QED BY <2>2, <2>3, <2>8 DEF Body
<1>5. CASE counter[t] # dep.seconds
  <2>1. /\ pc' = [pc EXCEPT ![t] = "idle"] /\ conn' = conn
        /\ made' = [made EXCEPT ![t] = 0] /\ response' = [response EXCEPT ![t] = 0]
        /\ pc'[t] = "idle" /\ made'[t] = 0 /\ response'[t] = 0
        /\ \A u \in Threads \ {t} :
              pc'[u] = pc[u] /\ made'[u] = made[u] /\ response'[u] = response[u]
    BY <1>5 DEF Head, Goto, Body, Tables
  <2>2. Tables'
    BY <1>1, <1>2, <2>1, Labels DEF Body, Tables
  <2>3. \A u \in Threads \ {t} : ThreadInv(u)'
    BY <1>1, <2>1, Untouched DEF Body
  <2>4. Shape(t)' /\ Pending(t)'
    BY <1>1, <2>1 DEF Body, ThreadInv, Shape, Pending, Client
  <2>5. OnTheWire(t)' /\ Reasons(t)'
    BY <1>1, <1>2, <2>1 DEF Body, ThreadInv, OnTheWire, Reasons, Client, Server, Compatible
  <2>6. Rounds(t)'
    <3>1. counter[t] < dep.seconds /\ counter[t] * dep.reqps \in Nat
      BY <1>2, <1>5
    <3>2. ~ Client.ticks => counter[t] = 0 /\ (dep.seconds = 0 => call[t].all = 0)
      BY DEF Body, ThreadInv, Rounds
    <3> QED BY <1>1, <1>3, <2>1, <3>1, <3>2 DEF Rounds, Client
  <2>7. Ended(t)'
    BY <2>1 DEF Ended
  <2>8. ThreadInv(t)'
    BY <1>1, <2>4, <2>5, <2>6, <2>7 DEF ThreadInv, Client
  <2> QED BY <2>2, <2>3, <2>8 DEF Body
<1> QED BY <1>4, <1>5

(* The next call of a round, or its end.                                   *)
LEMMA NextCallKeeps ==
  ASSUME Meets, Body, NEW t \in Threads, NextCall(t) PROVE Body'
<1>1. /\ pc[t] = "idle" /\ Client.loop = "rounds"
      /\ UNCHANGED << server, made, response, conn, link, aborted >>
  BY DEF NextCall
<1>2. CASE made[t] < dep.reqps
  <2>1. Begin(t) /\ UNCHANGED << server, loop, conn, link, aborted >>
    BY <1>2 DEF NextCall, loop
  <2> QED BY <1>1, <1>2, <2>1, BeginKeeps
<1>3. CASE ~ (made[t] < dep.reqps)
  <2>1. /\ dep' = dep /\ up' = up /\ crashes' = crashes /\ conn' = conn /\ link' = link
        /\ aborted' = aborted /\ made' = made /\ response' = response /\ call' = call
    BY <1>1, <1>3 DEF NextCall, server
  <2>2. /\ pc' = [pc EXCEPT ![t] = "head"]
        /\ counter' = [counter EXCEPT ![t] = IF Client.ticks THEN counter[t] + 1 ELSE counter[t]]
        /\ pc'[t] = "head" /\ counter'[t] = IF Client.ticks THEN counter[t] + 1 ELSE counter[t]
        /\ \A u \in Threads \ {t} : pc'[u] = pc[u] /\ counter'[u] = counter[u]
    BY <1>3 DEF NextCall, Goto, Body, Tables
  <2>3. /\ dep.reqps \in Nat /\ dep.seconds \in Nat /\ made[t] \in 0 .. dep.reqps
        /\ counter[t] \in 0 .. dep.seconds /\ link[t] = << >> /\ counter[t] < dep.seconds
    BY <1>1, PairKinds DEF Body, Tables, ThreadInv, Shape, Rounds
  <2>4. Tables'
    <3>1. counter'[t] \in 0 .. dep.seconds
      BY <2>2, <2>3
    <3> QED BY <2>1, <2>2, <3>1, Labels DEF Body, Tables
  <2>5. \A u \in Threads \ {t} : ThreadInv(u)'
    BY <2>1, <2>2, Untouched DEF Body
  <2>6. Shape(t)' /\ Pending(t)'
    BY <1>1, <2>1, <2>2 DEF Body, ThreadInv, Shape, Pending, Client
  <2>7. OnTheWire(t)' /\ Reasons(t)'
    BY <2>1, <2>2, <2>3 DEF Body, ThreadInv, OnTheWire, Reasons, Client, Server, Compatible
  <2>8. Rounds(t)'
    <3>1. Client.ticks => call[t].all = counter[t] * dep.reqps + made[t]
      BY <1>1 DEF Body, ThreadInv, Rounds
    <3>2. made[t] = dep.reqps
      BY <1>3, <2>3
    <3>3. Client.ticks => call'[t].all = counter'[t] * dep.reqps
      <4>1. (counter[t] + 1) * dep.reqps = counter[t] * dep.reqps + dep.reqps
        BY <2>3
      <4> QED BY <2>1, <2>2, <3>1, <3>2, <4>1
    <3>4. response[t] <= made[t]
      BY <1>1 DEF Body, ThreadInv, Rounds
    <3>5. ~ Client.ticks => counter[t] = 0 /\ (dep.seconds = 0 => call[t].all = 0)
      BY <1>1 DEF Body, ThreadInv, Rounds
    <3> QED BY <2>1, <2>2, <3>3, <3>4, <3>5 DEF Rounds, Client
  <2>9. Ended(t)'
    BY <2>2 DEF Ended
  <2>10. ThreadInv(t)'
    BY <2>1, <2>6, <2>7, <2>8, <2>9 DEF ThreadInv, Client
  <2> QED BY <2>4, <2>5, <2>10 DEF Body
<1> QED BY <1>2, <1>3

-----------------------------------------------------------------------------
(* A connection is opened, to a server or to nobody, or the call fails.    *)
LEMMA ConnectKeeps ==
  ASSUME Meets, Body, NEW t \in Threads, Connect(t) PROVE Body'
<1>1. /\ dep' = dep /\ up' = up /\ crashes' = crashes /\ link' = link
      /\ counter' = counter /\ made' = made /\ response' = response
      /\ pc[t] \in {"start", "ready"} /\ conn[t] = "closed"
      /\ link[t] = << >> /\ DOMAIN link = Threads /\ UNCHANGED << server, loop >>
  BY DEF Connect, server, loop, Body, Tables, ThreadInv, Shape
<1>2. ASSUME aborted' = aborted, conn'[t] \in {"open", "broken"},
             conn' = [conn EXCEPT ![t] = conn'[t]],
             pc' = [pc EXCEPT ![t] = IF pc[t] = "start" THEN "head" ELSE "ready"],
             DOMAIN call' = Threads, \A u \in Threads \ {t} : call'[u] = call[u],
             DOMAIN call'[t] = DOMAIN NoCall, call'[t].ran = call[t].ran,
             call'[t].end = call[t].end, call'[t].stale = call[t].stale,
             call'[t].all = call[t].all, call'[t].trouble \in {FALSE, call[t].trouble},
             conn'[t] = "open" => dep.reached /\ up,
             conn'[t] = "broken" => ~ dep.reached /\ call'[t].trouble = call[t].trouble
      PROVE  Body'
  <2>1. /\ pc'[t] = IF pc[t] = "start" THEN "head" ELSE "ready"
        /\ \A u \in Threads \ {t} : pc'[u] = pc[u] /\ conn'[u] = conn[u]
    BY <1>2 DEF Body, Tables
  <2>2. Tables'
    <3>1. conn' \in [Threads -> {"closed", "open", "broken"}]
      BY <1>2 DEF Body, Tables
    <3> QED BY <1>1, <1>2, <3>1, Labels DEF Body, Tables
  <2>3. \A u \in Threads \ {t} : ThreadInv(u)'
    BY <1>1, <1>2, <2>1, Untouched DEF Body
  <2>4. Shape(t)'
    BY <1>1, <1>2 DEF Body, ThreadInv, Shape
  <2>5. Pending(t)'
    BY <1>1, <1>2, <2>1 DEF Body, ThreadInv, Pending, Client
  <2>6. OnTheWire(t)'
    BY <1>1 DEF OnTheWire
  <2>7. Reasons(t)'
    <3>1. call[t].end = "none"
      BY <1>1 DEF Body, ThreadInv, Pending
    <3>2. ~ up => call'[t].trouble
      BY <1>1, <1>2 DEF Body, ThreadInv, Reasons
    <3>3. Client.loop = "requests" /\ ~ Client.keeps => ~ call[t].stale
      BY DEF Body, ThreadInv, Reasons
    <3> QED BY <1>1, <1>2, <2>1, <3>1, <3>2, <3>3 DEF Reasons, Client, Server, Compatible
  <2>8. Client.loop = "rounds" => Rounds(t)' /\ Ended(t)'
    BY <1>1, <1>2, <2>1 DEF Body, ThreadInv, Rounds, Ended, Client
  <2>9. ThreadInv(t)'
    BY <1>1, <2>4, <2>5, <2>6, <2>7, <2>8 DEF ThreadInv, Client
  <2> QED BY <2>2, <2>3, <2>9 DEF Body
<1>3. CASE /\ up /\ dep.reached /\ conn' = [conn EXCEPT ![t] = "open"]
           /\ call' = [call EXCEPT ![t].trouble = FALSE]
           /\ Goto(t, IF pc[t] = "start" THEN "head" ELSE "ready") /\ UNCHANGED aborted
  <2>1. /\ DOMAIN call' = Threads /\ \A u \in Threads \ {t} : call'[u] = call[u]
        /\ DOMAIN call'[t] = DOMAIN NoCall /\ call'[t].ran = call[t].ran
        /\ call'[t].end = call[t].end /\ call'[t].stale = call[t].stale
        /\ call'[t].all = call[t].all /\ call'[t].trouble = FALSE
    BY <1>3, Labels DEF Body, Tables, ThreadInv, Shape
  <2>2. conn'[t] = "open"
    BY <1>3 DEF Body, Tables
  <2> QED BY <1>2, <1>3, <2>1, <2>2 DEF Goto
<1>4. CASE /\ ~ dep.reached /\ conn' = [conn EXCEPT ![t] = "broken"]
           /\ Goto(t, IF pc[t] = "start" THEN "head" ELSE "ready")
           /\ UNCHANGED << aborted, call >>
  <2>1. conn'[t] = "broken" /\ DOMAIN call = Threads /\ DOMAIN call[t] = DOMAIN NoCall
    BY <1>4 DEF Body, Tables, ThreadInv, Shape
  <2> QED BY <1>2, <1>4, <2>1 DEF Goto
<1>5. CASE ~ (up /\ dep.reached) /\ Fail(t, "open", "closed")
  <2>1. ~ Compatible \/ call[t].trouble
    BY <1>1, <1>5 DEF Body, ThreadInv, Reasons, Compatible
  <2>2. "open" \in Phases
    BY DEF Phases
  <2> QED BY <1>1, <1>5, <2>1, <2>2, FailKeeps
<1> QED BY <1>3, <1>4, <1>5 DEF Connect

(* The call goes out, or into a socket that nobody reads.                  *)
LEMMA SendKeeps ==
  ASSUME Meets, Body, NEW t \in Threads, Send(t) PROVE Body'
<1> DEFINE m == Message("call", Client.call.name, Write(Client.call.args, Sent))
<1>1. /\ pc[t] = "ready" /\ conn[t] # "closed" /\ UNCHANGED << server, counter, aborted >>
      /\ link' = [link EXCEPT ![t] = IF conn[t] = "broken" THEN link[t] ELSE m]
  BY DEF Send
<1>2. m.kind = "call" /\ m.name = Client.call.name /\ m.body = Write(Client.call.args, Sent)
  BY DEF Message
<1> HIDE DEF m
<1>3. /\ link[t] = << >> /\ call[t].ran = 0 /\ conn[t] \in {"open", "broken"}
      /\ conn[t] = "open" => dep.reached
  BY <1>1 DEF Body, Tables, ThreadInv, Shape, Pending, Reasons
<1>4. /\ DOMAIN link' = Threads /\ \A u \in Threads \ {t} : link'[u] = link[u]
      /\ link'[t] # << >> => link'[t] = m /\ dep.reached
  BY <1>1, <1>3 DEF Body, Tables
<1>5. CASE Client.call.oneway
  <2>1. Return(t, "none")
    BY <1>5 DEF Send
  <2> QED BY <1>1, <1>2, <1>3, <1>4, <1>5, <2>1, ReturnKeeps
<1>6. CASE ~ Client.call.oneway
  <2>1. /\ dep' = dep /\ up' = up /\ crashes' = crashes /\ counter' = counter
        /\ aborted' = aborted /\ conn' = conn /\ made' = made /\ response' = response
        /\ call' = call /\ pc' = [pc EXCEPT ![t] = "wait"]
        /\ pc'[t] = "wait" /\ \A u \in Threads \ {t} : pc'[u] = pc[u]
    BY <1>6 DEF Send, Goto, server, Body, Tables
  <2>2. Tables'
    BY <1>4, <2>1, Labels DEF Body, Tables
  <2>3. \A u \in Threads \ {t} : ThreadInv(u)'
    BY <1>4, <2>1, Untouched DEF Body
  <2>4. Shape(t)'
    BY <1>2, <1>4, <2>1 DEF Body, ThreadInv, Shape
  <2>5. Pending(t)'
    BY <1>1, <1>6, <2>1 DEF Body, ThreadInv, Pending, Client
  <2>6. OnTheWire(t)'
    BY <1>2, <1>3, <1>4, <2>1 DEF OnTheWire, Client, Sent
  <2>7. Reasons(t)'
    BY <1>1, <2>1 DEF Body, ThreadInv, Reasons, Client, Server, Compatible
  <2>8. Client.loop = "rounds" => Rounds(t)' /\ Ended(t)'
    BY <1>1, <2>1 DEF Body, ThreadInv, Rounds, Ended, Client
  <2>9. ThreadInv(t)'
    BY <2>1, <2>4, <2>5, <2>6, <2>7, <2>8 DEF ThreadInv, Client
  <2> QED BY <2>2, <2>3, <2>9 DEF Body
<1> QED BY <1>5, <1>6

(* It does not: the write throws.                                          *)
LEMMA SendThrowsKeeps ==
  ASSUME Meets, Body, NEW t \in Threads, SendThrows(t) PROVE Body'
<1>1. /\ pc[t] = "ready" /\ conn[t] = "broken" /\ link' = link
      /\ UNCHANGED << server, loop >>
      /\ Fail(t, "call", IF dep.closes THEN "closed" ELSE "broken")
  BY DEF SendThrows
<1>2. /\ ~ Compatible \/ call[t].trouble \/ call[t].stale
      /\ link[t] = << >> /\ DOMAIN link = Threads
  BY <1>1 DEF Body, Tables, ThreadInv, Shape, Reasons
<1>3. "call" \in Phases /\ (IF dep.closes THEN "closed" ELSE "broken") \in {"closed", "broken"}
  BY DEF Phases
<1> QED BY <1>1, <1>2, <1>3, FailKeeps

(* Nothing comes back.                                                     *)
LEMMA ReceiveThrowsKeeps ==
  ASSUME Meets, Body, NEW t \in Threads, ReceiveThrows(t) PROVE Body'
<1>1. /\ pc[t] = "wait" /\ conn[t] = "broken" /\ link[t] = << >> /\ link' = link
      /\ UNCHANGED << server, loop >> /\ Fail(t, "call", conn[t])
  BY DEF ReceiveThrows
<1>2. ~ Compatible \/ call[t].trouble \/ call[t].stale
  BY <1>1 DEF Body, ThreadInv, Reasons
<1>3. "call" \in Phases /\ DOMAIN link = Threads
  BY DEF Phases, Body, Tables
<1> QED BY <1>1, <1>2, <1>3, FailKeeps

(* What comes back is the answer to this call.                             *)
LEMMA ReceiveKeeps ==
  ASSUME Meets, Body, NEW t \in Threads, Receive(t) PROVE Body'
<1> DEFINE reading == Reading(Client.call, link[t])
<1>1. /\ pc[t] = "wait" /\ link[t] # << >> /\ link[t].kind # "call"
      /\ link' = [link EXCEPT ![t] = << >>] /\ UNCHANGED << server, counter >>
  BY DEF Receive
<1>2. /\ DOMAIN link' = Threads /\ link'[t] = << >>
      /\ \A u \in Threads \ {t} : link'[u] = link[u]
  BY <1>1 DEF Body, Tables
<1>3. link[t].kind \in {"reply", "exception"} /\ ~ Client.call.oneway
  BY <1>1 DEF Body, ThreadInv, Shape, Pending
<1>4. link[t].kind = "reply" =>
        /\ call[t].ran > 0 /\ reading = "returns"
        /\ Client.counts # {} => Value(Client.call, link[t]) \in Client.counts
  <2> SUFFICES ASSUME link[t].kind = "reply"
               PROVE  /\ call[t].ran > 0 /\ reading = "returns"
                      /\ Client.counts # {} => Value(Client.call, link[t]) \in Client.counts
    OBVIOUS
  <2>1. /\ link[t].name = Client.call.name /\ dep.speaks = Server.speaks /\ call[t].ran > 0
        /\ \E k \in Methods(link[t].name) :
              ~ k.oneway /\ link[t].body = Write(k.result, Filled(k.result, Server.answer))
    BY <1>1 DEF Body, ThreadInv, OnTheWire
  <2>2. PICK k \in Server.methods :
           /\ k.name = link[t].name /\ ~ k.oneway
           /\ link[t].body = Write(k.result, Filled(k.result, Server.answer))
    BY <2>1 DEF Methods
  <2>3. Client \in Clients /\ Server \in Servers /\ Server.speaks \in Client.speaks
    BY <2>1, PairKinds DEF Meets
  <2> QED BY <1>3, <2>1, <2>2, <2>3, RepliesRead
<1>5. link[t].kind = "exception" => reading = "throws" /\ (~ Compatible \/ call[t].trouble)
  BY <1>1 DEF Body, ThreadInv, OnTheWire, Reading
<1>6. CASE /\ reading = "returns" /\ Return(t, Value(Client.call, link[t]))
           /\ UNCHANGED aborted
  <2>1. call[t].ran > 0 /\ (Client.counts # {} => Value(Client.call, link[t]) \in Client.counts)
    BY <1>3, <1>4, <1>5, <1>6
  <2> HIDE DEF reading
  <2> QED BY <1>1, <1>2, <1>6, <2>1, ReturnKeeps
<1>7. CASE /\ reading = "throws" /\ Fail(t, "call", conn[t])
           /\ UNCHANGED << made, response >>
  <2>1. ~ Compatible \/ call[t].trouble
    BY <1>3, <1>4, <1>5, <1>7
  <2>2. "call" \in Phases /\ UNCHANGED << server, loop >>
    BY <1>1, <1>7 DEF Phases, loop
  <2> QED BY <1>1, <1>2, <1>7, <2>1, <2>2, FailKeeps
<1>8. CASE reading = "skipped"
  BY <1>3, <1>4, <1>5, <1>8
<1> QED BY <1>6, <1>7, <1>8 DEF Receive

-----------------------------------------------------------------------------
(* A step of the server changes the connection and the history of a call.  *)
(* What it puts on the connection is there for a reason, and a call that   *)
(* it breaks off could not have been answered.                             *)
LEMMA ServerKeeps ==
  ASSUME Meets, Body, NEW t \in Threads, UNCHANGED << server, loop, pc, aborted >>,
         link[t] # << >>, link[t].kind = "call", dep.reached,
         DOMAIN link' = Threads, \A u \in Threads \ {t} : link'[u] = link[u],
         link'[t] # << >> => /\ link'[t].kind \in {"reply", "exception"}
                            /\ link'[t].name = Client.call.name,
         link'[t] # << >> /\ link'[t].kind = "exception" => ~ Compatible \/ call'[t].trouble,
         link'[t] # << >> /\ link'[t].kind = "reply" =>
            /\ dep.speaks = Server.speaks /\ call'[t].ran > 0
            /\ \E k \in Methods(link'[t].name) :
                  ~ k.oneway /\ link'[t].body = Write(k.result, Filled(k.result, Server.answer)),
         conn' = [conn EXCEPT ![t] = conn'[t]],
         conn'[t] \in {conn[t], "broken"},
         conn'[t] # conn[t] => conn[t] = "open" /\ ~ Compatible,
         DOMAIN call' = Threads, \A u \in Threads \ {t} : call'[u] = call[u],
         DOMAIN call'[t] = DOMAIN NoCall, call'[t].ran \in {call[t].ran, call[t].ran + 1},
         call'[t].end = call[t].end, call'[t].stale = call[t].stale,
         call'[t].all = call[t].all, call'[t].trouble \in BOOLEAN,
         call[t].trouble => call'[t].trouble
  PROVE  Body'
<1>1. /\ dep' = dep /\ up' = up /\ crashes' = crashes /\ aborted' = aborted /\ pc' = pc
      /\ counter' = counter /\ made' = made /\ response' = response
  BY DEF server, loop
<1>2. call[t].ran = 0 /\ pc[t] \notin {"start", "head", "idle", "ready"} /\ pc[t] \in {"wait", "over"}
  BY Labels DEF Body, Tables, ThreadInv, Shape, OnTheWire
<1>3. \A u \in Threads \ {t} : conn'[u] = conn[u]
  BY DEF Body, Tables
<1>4. Tables'
  <2>1. conn' \in [Threads -> {"closed", "open", "broken"}]
    BY DEF Body, Tables
  <2> QED BY <1>1, <2>1 DEF Body, Tables
<1>5. \A u \in Threads \ {t} : ThreadInv(u)'
  BY <1>1, <1>3, Untouched DEF Body
<1>6. Shape(t)'
  BY <1>1, <1>2 DEF Body, ThreadInv, Shape
<1>7. Pending(t)'
  BY <1>1, <1>2 DEF Body, ThreadInv, Pending, Client
<1>8. OnTheWire(t)'
  BY <1>1 DEF OnTheWire, Client, Server, Compatible, Methods
<1>9. Reasons(t)'
  BY <1>1, <1>2 DEF Body, ThreadInv, Reasons, Client, Server, Compatible
<1>10. Client.loop = "rounds" => Rounds(t)' /\ Ended(t)'
  BY <1>1 DEF Body, ThreadInv, Rounds, Ended, Client
<1>11. ThreadInv(t)'
  BY <1>1, <1>6, <1>7, <1>8, <1>9, <1>10 DEF ThreadInv, Client
<1> QED BY <1>4, <1>5, <1>11 DEF Body

(* It cannot read the message.                                             *)
LEMMA RefuseKeeps ==
  ASSUME Meets, Body, NEW t \in Threads, Refuse(t) PROVE Body'
<1>1. /\ link[t] # << >> /\ link[t].kind = "call" /\ link' = [link EXCEPT ![t] = << >>]
      /\ conn' = [conn EXCEPT ![t] = IF conn[t] = "open" THEN "broken" ELSE conn[t]]
      /\ UNCHANGED << server, loop, pc, aborted >> /\ call' = call
      /\ ~ Compatible
  BY DEF Refuse, Compatible
<1>2. dep.reached /\ DOMAIN call[t] = DOMAIN NoCall /\ call[t].trouble \in BOOLEAN
  BY <1>1 DEF Body, ThreadInv, OnTheWire, Shape
<1>3. /\ DOMAIN link' = Threads /\ link'[t] = << >> /\ DOMAIN call' = Threads
      /\ \A u \in Threads \ {t} : link'[u] = link[u]
      /\ conn'[t] = IF conn[t] = "open" THEN "broken" ELSE conn[t]
  BY <1>1 DEF Body, Tables
<1> QED BY <1>1, <1>2, <1>3, ServerKeeps

(* It has no method of the name.                                           *)
LEMMA UnknownMethodKeeps ==
  ASSUME Meets, Body, NEW t \in Threads, UnknownMethod(t) PROVE Body'
<1> DEFINE m == Message("exception", link[t].name, << >>)
<1>1. /\ link[t] # << >> /\ link[t].kind = "call"
      /\ link' = [link EXCEPT ![t] = IF conn[t] = "open" THEN m ELSE << >>]
      /\ conn' = conn /\ call' = call /\ UNCHANGED << server, loop, pc, aborted >>
      /\ Methods(link[t].name) = {}
  BY DEF UnknownMethod, Answer
<1>2. m.kind = "exception" /\ m.name = link[t].name
  BY DEF Message
<1> HIDE DEF m
<1>3. /\ dep.reached /\ link[t].name = Client.call.name
      /\ DOMAIN call[t] = DOMAIN NoCall /\ call[t].trouble \in BOOLEAN
  BY <1>1 DEF Body, ThreadInv, OnTheWire, Shape
<1>4. ~ Compatible
  BY <1>1, <1>3 DEF Compatible, Methods
<1>5. /\ DOMAIN link' = Threads /\ link'[t] \in {m, << >>} /\ DOMAIN call' = Threads
      /\ \A u \in Threads \ {t} : link'[u] = link[u]
      /\ conn' = [conn EXCEPT ![t] = conn'[t]]
  BY <1>1 DEF Body, Tables
<1> QED BY <1>1, <1>2, <1>3, <1>4, <1>5, ServerKeeps

(* It runs the call, for the first time.                                   *)
LEMMA ProcessKeeps ==
  ASSUME Meets, Body, NEW t \in Threads, Process(t) PROVE Body'
<1>1. /\ link[t] # << >> /\ link[t].kind = "call" /\ dep.speaks = Server.speaks
      /\ conn' = conn /\ UNCHANGED << server, loop, pc, aborted >>
  BY DEF Process
<1>2. PICK k \in Methods(link[t].name), threw \in {FALSE, Server.throws} :
        /\ Ran(t, k, threw)
        /\ IF k.oneway THEN link' = [link EXCEPT ![t] = << >>]
           ELSE IF threw THEN Answer(t, Message("exception", k.name, << >>))
           ELSE Answer(t, Message("reply", k.name,
                                  Write(k.result, Filled(k.result, Server.answer))))
  BY DEF Process
<1>3. /\ dep.reached /\ link[t].name = Client.call.name /\ k.name = Client.call.name
      /\ call[t].ran = 0 /\ call[t].trouble \in BOOLEAN
      /\ DOMAIN call[t] = DOMAIN NoCall
  BY <1>1 DEF Body, ThreadInv, OnTheWire, Shape, Methods
<1>4. /\ DOMAIN call' = Threads /\ \A u \in Threads \ {t} : call'[u] = call[u]
      /\ DOMAIN call'[t] = DOMAIN NoCall /\ call'[t].ran = 1
      /\ call'[t].end = call[t].end /\ call'[t].stale = call[t].stale
      /\ call'[t].all = call[t].all /\ call'[t].trouble = (call[t].trouble \/ threw)
  BY <1>2, <1>3, Labels DEF Ran, Body, Tables
<1> DEFINE none == Message("exception", k.name, << >>)
           reply == Message("reply", k.name, Write(k.result, Filled(k.result, Server.answer)))
<1>5. /\ none.kind = "exception" /\ none.name = k.name
      /\ reply.kind = "reply" /\ reply.name = k.name
      /\ reply.body = Write(k.result, Filled(k.result, Server.answer))
  BY DEF Message
<1>6. \E m \in {<< >>, none, reply} :
        /\ link' = [link EXCEPT ![t] = m]
        /\ m = none => m = << >> \/ threw
        /\ m = reply => m = << >> \/ ~ k.oneway
  BY <1>2, <1>5 DEF Answer
<1> HIDE DEF none, reply
<1>7. PICK m \in {<< >>, none, reply} :
        /\ link' = [link EXCEPT ![t] = m]
        /\ m = none => m = << >> \/ threw
        /\ m = reply => m = << >> \/ ~ k.oneway
  BY <1>6
<1>8. /\ DOMAIN link' = Threads /\ link'[t] = m /\ conn' = [conn EXCEPT ![t] = conn'[t]]
      /\ \A u \in Threads \ {t} : link'[u] = link[u]
  BY <1>1, <1>7 DEF Body, Tables
<1>9. link'[t] # << >> /\ link'[t].kind = "exception" => call'[t].trouble
  BY <1>4, <1>5, <1>7, <1>8
<1>10. link'[t] # << >> /\ link'[t].kind = "reply" =>
         \E j \in Methods(link'[t].name) :
            ~ j.oneway /\ link'[t].body = Write(j.result, Filled(j.result, Server.answer))
  BY <1>3, <1>5, <1>7, <1>8
<1>11. link'[t] # << >> =>
         link'[t].kind \in {"reply", "exception"} /\ link'[t].name = Client.call.name
  BY <1>3, <1>5, <1>7, <1>8
<1>12. /\ call'[t].trouble \in BOOLEAN /\ (call[t].trouble => call'[t].trouble)
       /\ call'[t].ran \in {call[t].ran, call[t].ran + 1} /\ call'[t].ran > 0
  BY <1>3, <1>4
<1> QED BY <1>1, <1>3, <1>4, <1>8, <1>9, <1>10, <1>11, <1>12, ServerKeeps

(* The server ends: whoever makes a call has a reason for it to fail.      *)
LEMMA CrashKeeps ==
  ASSUME Meets, Body, Crash PROVE Body'
<1>1. /\ dep' = dep /\ up' = FALSE /\ crashes' = crashes + 1 /\ crashes < MaxCrashes
      /\ pc' = pc /\ aborted' = aborted
      /\ counter' = counter /\ made' = made /\ response' = response
      /\ conn' = [t \in Threads |-> IF conn[t] = "open" THEN "broken" ELSE conn[t]]
      /\ call' = [t \in Threads |-> IF pc[t] \in {"start", "ready", "wait"}
                                    THEN [call[t] EXCEPT !.trouble = TRUE] ELSE call[t]]
  BY DEF Crash, loop
<1>2. /\ DOMAIN link' = Threads
      /\ \A t \in Threads : link'[t] = << >> \/ (link'[t] = link[t] /\ link[t].kind # "call")
  BY DEF Crash
<1>3. Tables'
  <2>1. crashes' \in 0 .. MaxCrashes
    BY <1>1, ExchangeAssumption DEF Body, Tables
  <2>2. conn' \in [Threads -> {"closed", "open", "broken"}]
    BY <1>1 DEF Body, Tables
  <2> QED BY <1>1, <1>2, <2>1, <2>2 DEF Body, Tables
<1>4. ASSUME NEW t \in Threads PROVE ThreadInv(t)'
  <2>1. /\ DOMAIN call'[t] = DOMAIN NoCall /\ call'[t].ran = call[t].ran
        /\ call'[t].end = call[t].end /\ call'[t].stale = call[t].stale
        /\ call'[t].all = call[t].all /\ call'[t].trouble \in BOOLEAN
        /\ call[t].trouble => call'[t].trouble
        /\ pc[t] \in {"start", "ready", "wait"} => call'[t].trouble
    BY <1>1, Labels DEF Body, ThreadInv, Shape
  <2>2. conn'[t] = IF conn[t] = "open" THEN "broken" ELSE conn[t]
    BY <1>1
  <2>3. Shape(t)'
    BY <1>1, <1>2, <2>1 DEF Body, ThreadInv, Shape
  <2>4. Pending(t)'
    BY <1>1, <1>2, <2>1 DEF Body, ThreadInv, Pending, Client
  <2>5. OnTheWire(t)'
    BY <1>1, <1>2, <2>1 DEF Body, ThreadInv, OnTheWire, Client, Server, Compatible, Methods
  <2>6. Reasons(t)'
    BY <1>1, <2>1, <2>2 DEF Body, ThreadInv, Reasons, Client, Server, Compatible
  <2>7. Client.loop = "rounds" => Rounds(t)' /\ Ended(t)'
    BY <1>1, <2>1 DEF Body, ThreadInv, Rounds, Ended, Client
  <2> QED BY <1>1, <2>3, <2>4, <2>5, <2>6, <2>7 DEF ThreadInv, Client
<1> QED BY <1>3, <1>4 DEF Body

(* It is started again, on what was left.                                  *)
LEMMA StartKeeps ==
  ASSUME Meets, Body, Start PROVE Body'
<1>1. /\ dep' = dep /\ up' = TRUE /\ crashes' = crashes /\ pc' = pc /\ conn' = conn
      /\ link' = link /\ aborted' = aborted /\ call' = call
      /\ counter' = counter /\ made' = made /\ response' = response
  BY DEF Start, loop
<1>2. Tables'
  BY <1>1 DEF Body, Tables
<1>3. ASSUME NEW t \in Threads PROVE ThreadInv(t)'
  <2>1. Shape(t)' /\ Pending(t)'
    BY <1>1 DEF Body, ThreadInv, Shape, Pending, Client
  <2>2. OnTheWire(t)'
    BY <1>1 DEF Body, ThreadInv, OnTheWire, Client, Server, Compatible, Sent, Methods
  <2>3. Reasons(t)'
    BY <1>1 DEF Body, ThreadInv, Reasons, Client, Server, Compatible
  <2>4. Client.loop = "rounds" => Rounds(t)' /\ Ended(t)'
    BY <1>1 DEF Body, ThreadInv, Rounds, Ended, Client
  <2> QED BY <1>1, <2>1, <2>2, <2>3, <2>4 DEF ThreadInv, Client
<1> QED BY <1>2, <1>3 DEF Body

-----------------------------------------------------------------------------
(* The first state, whatever pair is deployed.                             *)
LEMMA InitHolds == Init => Meets /\ Body
<1> SUFFICES ASSUME Init PROVE Meets /\ Body
  OBVIOUS
<1>1. PICK d \in Deployments, e \in UNION { c.speaks : c \in Clients }, b \in BOOLEAN,
           s \in 0 .. MaxSeconds, n \in 1 .. MaxReqps :
             dep = [client |-> d.client, server |-> d.server, reached |-> d.reached,
                    speaks |-> e, closes |-> b, seconds |-> s, reqps |-> n]
  BY DEF Init
<1>2. Meets
  BY <1>1 DEF Init, Meets, Client, Server
<1>3. dep.reqps \in Nat /\ dep.seconds \in Nat
  BY <1>2, PairKinds
<1>4. /\ up \in BOOLEAN /\ crashes = 0 /\ aborted = FALSE
      /\ pc = [t \in Threads |-> IF t = MainThread \/ Client.loop = "rounds"
                                 THEN FirstPC(Client) ELSE "over"]
      /\ conn = [t \in Threads |-> "closed"] /\ link = [t \in Threads |-> << >>]
      /\ counter = [t \in Threads |-> 0] /\ made = [t \in Threads |-> 0]
      /\ response = [t \in Threads |-> 0]
      /\ call = [t \in Threads |-> [NoCall EXCEPT !.trouble = ~ up]]
  BY DEF Init
<1>5. \A t \in Threads :
        /\ pc[t] \in {"start", "idle", "ready", "over"}
        /\ Client.loop = "rounds" <=> pc[t] = "start"
  <2>1. /\ FirstPC(Client) \in {"start", "idle", "ready"}
        /\ Client.loop = "rounds" <=> FirstPC(Client) = "start"
    BY DEF FirstPC
  <2> QED BY <1>4, <2>1
<1>6. Tables
  <2>1. pc \in [Threads -> PC]
    BY <1>4, <1>5, Labels
  <2>2. /\ counter \in [Threads -> 0 .. dep.seconds] /\ made \in [Threads -> 0 .. dep.reqps]
        /\ response \in [Threads -> 0 .. dep.reqps] /\ 0 \in 0 .. MaxCrashes
    BY <1>3, <1>4, ExchangeAssumption
  <2> QED BY <1>4, <2>1, <2>2 DEF Tables
<1>7. ASSUME NEW t \in Threads PROVE ThreadInv(t)
  <2>1. /\ conn[t] = "closed" /\ link[t] = << >> /\ counter[t] = 0 /\ made[t] = 0
        /\ response[t] = 0 /\ call[t] = [NoCall EXCEPT !.trouble = ~ up]
    BY <1>4
  <2>2. /\ DOMAIN call[t] = DOMAIN NoCall /\ call[t].ran = 0 /\ call[t].end = "none"
        /\ call[t].stale = FALSE /\ call[t].trouble = ~ up /\ call[t].all = 0
    BY <2>1 DEF NoCall
  <2>3. Shape(t)
    <3>1. call[t].stale \in BOOLEAN /\ call[t].trouble \in BOOLEAN
      BY <2>2
    <3>2. call[t].ran \in 0 .. 1 /\ call[t].all \in 0 .. AllCap
      BY <2>2, Labels
    <3>3. DOMAIN call[t] = DOMAIN NoCall /\ call[t].end \in {"none", "returned", "failed"}
      BY <2>2
    <3> QED BY <2>1, <3>1, <3>2, <3>3 DEF Shape
  <2>4. Pending(t) /\ OnTheWire(t)
    BY <1>5, <2>1, <2>2 DEF Pending, OnTheWire
  <2>5. Reasons(t)
    BY <2>1, <2>2 DEF Reasons
  <2>6. Client.loop = "rounds" => Rounds(t) /\ Ended(t)
    BY <1>3, <1>5, <2>1, <2>2 DEF Rounds, Ended
  <2> QED BY <2>3, <2>4, <2>5, <2>6 DEF ThreadInv
<1> QED BY <1>2, <1>6, <1>7 DEF Body

(* The pair of programs stays.                                             *)
LEMMA DepStays == [Next]_vars => dep' = dep
<1> SUFFICES ASSUME [Next]_vars PROVE dep' = dep
  OBVIOUS
<1>1. ASSUME NEW t \in Threads, Request(t) \/ Prompt(t) PROVE dep' = dep
  BY <1>1 DEF Request, Prompt, server
<1>2. ASSUME NEW t \in Threads, ClientStep(t) PROVE dep' = dep
  BY <1>2 DEF ClientStep, Connect, Send, SendThrows, Receive, ReceiveThrows, Head, NextCall,
              server
<1>3. ASSUME NEW t \in Threads, ServerStep(t) PROVE dep' = dep
  BY <1>3 DEF ServerStep, Refuse, UnknownMethod, Process, server
<1> QED BY <1>1, <1>2, <1>3 DEF Next, Crash, Start, vars

(* Every step keeps the pair, and what is true of every thread.            *)
LEMMA NextKeeps == Meets /\ Body /\ [Next]_vars => Meets' /\ Body'
<1> SUFFICES ASSUME Meets, Body, [Next]_vars PROVE Meets' /\ Body'
  OBVIOUS
<1>1. dep' = dep
  BY DepStays
<1>2. Meets'
  BY <1>1, PairStays
<1>3. CASE Next
  <2>1. ASSUME NEW t \in Threads, Request(t) \/ Prompt(t) PROVE Body'
    BY <2>1, RequestKeeps, PromptKeeps
  <2>2. ASSUME NEW t \in Threads, ClientStep(t) PROVE Body'
    BY <2>2, ConnectKeeps, SendKeeps, SendThrowsKeeps, ReceiveKeeps, ReceiveThrowsKeeps,
       HeadKeeps, NextCallKeeps DEF ClientStep
  <2>3. ASSUME NEW t \in Threads, ServerStep(t) PROVE Body'
    BY <2>3, RefuseKeeps, UnknownMethodKeeps, ProcessKeeps DEF ServerStep
  <2> QED BY <1>2, <1>3, <2>1, <2>2, <2>3, CrashKeeps, StartKeeps DEF Next
<1>4. CASE UNCHANGED vars
  <2>1. /\ dep' = dep /\ up' = up /\ crashes' = crashes /\ pc' = pc /\ conn' = conn
        /\ link' = link /\ counter' = counter /\ made' = made /\ response' = response
        /\ aborted' = aborted /\ call' = call
    BY <1>4 DEF vars
  <2>2. Tables'
    BY <2>1 DEF Body, Tables
  <2> QED BY <1>2, <2>1, <2>2, Untouched DEF Body
<1> QED BY <1>2, <1>3, <1>4

(* The invariant holds of every pair that meets, however often the server  *)
(* ends, between any two steps of the client's threads and of the server.  *)
THEOREM ExchangeInvariant == Spec => []ExchangeInv
<1>1. Init => ExchangeInv
  BY InitHolds, ByThread DEF Body
<1>2. ExchangeInv /\ [Next]_vars => ExchangeInv'
  <2>1. ExchangeInv <=> Meets /\ Body
    BY ByThread DEF Body
  <2>2. (ExchangeInv <=> Meets /\ Body)'
    BY <2>1, PTL
  <2> QED BY <2>1, <2>2, NextKeeps
<1> QED BY <1>1, <1>2, PTL DEF Spec

-----------------------------------------------------------------------------
(* The variables have their types: no generator counts a round, a call or  *)
(* an answer too many.                                                     *)
THEOREM ExchangeTypeCorrect == Spec => []TypeOK
<1>1. ExchangeInv => TypeOK
  BY DEF ExchangeInv
<1> QED BY <1>1, ExchangeInvariant, PTL

(* No call is run twice.                                                   *)
THEOREM CallsRunAtMostOnce == Spec => []AtMostOnce
<1>1. ExchangeInv => AtMostOnce
  BY DEF ExchangeInv
<1> QED BY <1>1, ExchangeInvariant, PTL

(* No message of an earlier call is left when one begins.                  *)
THEOREM NothingIsLeft == Spec => []QuietWhenIdle
<1>1. ExchangeInv => QuietWhenIdle
  BY DEF ExchangeInv
<1> QED BY <1>1, ExchangeInvariant, PTL

(* A generator that ends without an abort has made all its calls.          *)
THEOREM GeneratorsFinish == Spec => []EndedMeansAllCalls
<1>1. ExchangeInv => EndedMeansAllCalls
  BY DEF ExchangeInv
<1> QED BY <1>1, ExchangeInvariant, PTL

(* A generator's count of answers is that of its calls.                    *)
THEOREM AnswersCounted == Spec => []CountsAnswers
<1>1. ExchangeInv => CountsAnswers
  <2> SUFFICES ASSUME ExchangeInv, NEW t \in Threads, Client.counts # {}, pc[t] = "idle"
               PROVE  response[t] = made[t]
    BY DEF CountsAnswers
  <2>1. Client.loop = "rounds"
    BY PairKinds, ClientKinds DEF ExchangeInv
  <2> QED BY <2>1 DEF ExchangeInv, Rounds
<1> QED BY <1>1, ExchangeInvariant, PTL

(* A call of a pair that fits fails for one of three reasons, and through  *)
(* a proxy that opens a connection for each request for one of two.        *)
THEOREM FailuresHaveReasons == Spec => []FailuresExplained
<1>1. ExchangeInv => FailuresExplained
  <2> SUFFICES ASSUME ExchangeInv, NEW t \in Threads, call[t].end = "failed", Compatible
               PROVE  call[t].trouble \/ (call[t].stale /\ Client \notin PerRequest)
    BY DEF FailuresExplained
  <2>1. Reasons(t)
    BY DEF ExchangeInv
  <2>2. Client \in PerRequest => ~ call[t].stale
    BY <2>1, PerRequestKinds DEF Reasons
  <2> QED BY <2>1, <2>2 DEF Reasons
<1> QED BY <1>1, ExchangeInvariant, PTL

-----------------------------------------------------------------------------
(* What a step does to the history of a call: nothing, or it begins, or it *)
(* is run.                                                                 *)
SameRun(t) == call'[t].ran = call[t].ran /\ call'[t].got = call[t].got

(* A call that ends keeps what it is known to have run.                    *)
LEMMA EndsKeepRun ==
  ASSUME Body, NEW t \in Threads, NEW u \in Threads,
         \/ \E phase, after : Fail(t, phase, after)
         \/ \E v : Return(t, v)
  PROVE  SameRun(u)
<1>1. /\ DOMAIN call = Threads
      /\ DOMAIN call[t] = {"ran", "got", "end", "stale", "trouble", "all"}
  BY Labels DEF Body, Tables, ThreadInv, Shape
<1>2. CASE \E phase, after : Fail(t, phase, after)
  <2>1. call' = [call EXCEPT ![t].end = "failed"]
    BY <1>2 DEF Fail
  <2> QED BY <1>1, <2>1 DEF SameRun
<1>3. CASE \E v : Return(t, v)
  <2> DEFINE n == call[t].all
             done == [call[t] EXCEPT !.end = "returned",
                                     !.all = IF n < AllCap THEN n + 1 ELSE n]
  <2>1. call' = [call EXCEPT ![t] = done]
    BY <1>3 DEF Return
  <2>2. done.ran = call[t].ran /\ done.got = call[t].got
    BY <1>1
  <2> HIDE DEF done
  <2> QED BY <1>1, <2>1, <2>2 DEF SameRun
<1> QED BY <1>2, <1>3

(* A call that begins has not been run.                                    *)
LEMMA BeginClears ==
  ASSUME Body, NEW t \in Threads, NEW u \in Threads, Begin(t)
  PROVE  call'[u].ran = 0 \/ SameRun(u)
<1>1. call' = [call EXCEPT ![t] = [NoCall EXCEPT !.stale = conn[t] = "broken",
                                                 !.trouble = ~ up, !.all = call[t].all]]
  BY DEF Begin
<1> QED BY <1>1 DEF Body, Tables, NoCall, SameRun

(* Only process_ runs a call, and only the one of its connection.          *)
LEMMA RunsOf ==
  ASSUME Body, NEW u \in Threads, [Next]_vars
  PROVE  call'[u].ran = 0 \/ SameRun(u) \/ Process(u)
<1>1. ASSUME call' = call PROVE SameRun(u)
  BY <1>1 DEF SameRun
<1>2. ASSUME NEW t \in Threads, Request(t) \/ Prompt(t) \/ NextCall(t)
      PROVE  call'[u].ran = 0 \/ SameRun(u)
  <2>1. Begin(t) \/ call' = call
    BY <1>2 DEF Request, Prompt, NextCall
  <2> QED BY <1>1, <2>1, BeginClears
<1>3. ASSUME NEW t \in Threads, Send(t) \/ SendThrows(t) \/ Receive(t) \/ ReceiveThrows(t)
      PROVE  SameRun(u)
  <2>1. \/ call' = call \/ \E phase, after : Fail(t, phase, after)
        \/ \E v : Return(t, v)
    BY <1>3 DEF Send, SendThrows, Receive, ReceiveThrows
  <2> QED BY <1>1, <2>1, EndsKeepRun
<1>4. ASSUME NEW t \in Threads, Connect(t) PROVE SameRun(u)
  <2>1. \/ call' = call \/ call' = [call EXCEPT ![t].trouble = FALSE]
        \/ \E phase, after : Fail(t, phase, after)
    BY <1>4 DEF Connect
  <2>2. ASSUME call' = [call EXCEPT ![t].trouble = FALSE] PROVE SameRun(u)
    BY <2>2, Labels DEF Body, Tables, ThreadInv, Shape, SameRun
  <2> QED BY <1>1, <2>1, <2>2, EndsKeepRun
<1>5. ASSUME NEW t \in Threads, ServerStep(t) PROVE SameRun(u) \/ Process(u)
  <2>1. \/ call' = call \/ Process(t)
    BY <1>5 DEF ServerStep, Refuse, UnknownMethod
  <2>2. ASSUME Process(t), t # u PROVE SameRun(u)
    <3>1. \E r : call' = [call EXCEPT ![t] = r]
      BY <2>2 DEF Process, Ran
    <3> QED BY <2>2, <3>1 DEF Body, Tables, SameRun
  <2> QED BY <1>1, <2>1, <2>2
<1>6. ASSUME Crash PROVE SameRun(u)
  <2>1. call'[u] = [call[u] EXCEPT !.trouble = TRUE] \/ call'[u] = call[u]
    BY <1>6 DEF Crash
  <2> QED BY <2>1, Labels DEF Body, ThreadInv, Shape, SameRun
<1>7. ASSUME NEW t \in Threads, ClientStep(t) PROVE call'[u].ran = 0 \/ SameRun(u)
  <2>1. ASSUME Head(t) PROVE SameRun(u)
    BY <1>1, <2>1 DEF Head
  <2> QED BY <1>2, <1>3, <1>4, <1>7, <2>1 DEF ClientStep
<1> QED BY <1>1, <1>2, <1>5, <1>6, <1>7 DEF Next, Start, vars

(* Where the programs meet on one host or on a published port, only the    *)
(* service that was meant runs a call, with the arguments that were sent.  *)
LEMMA ProcessRunsSent ==
  ASSUME Deployments \subseteq OnOneHost \cup Published, Meets, Body,
         NEW t \in Threads, Process(t)
  PROVE  Compatible /\ call'[t].got = Sent
<1>1. /\ link[t] # << >> /\ link[t].kind = "call" /\ dep.speaks = Server.speaks
  BY DEF Process
<1>2. PICK m \in Methods(link[t].name), threw \in {FALSE, Server.throws} : Ran(t, m, threw)
  BY DEF Process
<1>3. /\ dep.reached /\ link[t].name = Client.call.name
      /\ link[t].body = Write(Client.call.args, Sent)
      /\ DOMAIN call[t] = DOMAIN NoCall /\ DOMAIN call = Threads
  BY <1>1 DEF Body, Tables, ThreadInv, OnTheWire, Shape
<1>4. m \in Server.methods /\ m.name = Client.call.name
  BY <1>2, <1>3 DEF Methods
<1>5. m = Client.call
  <2>1. PICK d \in Deployments : Client = d.client /\ Server = d.server
    BY DEF Meets
  <2> QED BY <1>4, <2>1, PairsAgree, PairKinds
<1>6. Read(m.args, link[t].body) = Sent
  BY <1>3, <1>5, RoundTrip DEF Sent
<1>7. call'[t].got = Read(m.args, link[t].body)
  BY <1>2, <1>3, Labels DEF Ran
<1> QED BY <1>1, <1>3, <1>4, <1>6, <1>7 DEF Compatible

(* Only the service that was meant runs a call, with the arguments that    *)
(* were sent, and a two-way call that returns was run.  The assumption is  *)
(* that of the ports the sources and the docker-compose files give.        *)
THEOREM OnlyTheMeantRuns ==
  ASSUME Deployments \subseteq OnOneHost \cup Published PROVE Spec => []ReturnedWasRun
<1> DEFINE Right == \A t \in Threads : call[t].ran > 0 => Compatible /\ call[t].got = Sent
<1>1. Init => Right
  <2> SUFFICES ASSUME Init, NEW t \in Threads PROVE ~ (call[t].ran > 0)
    OBVIOUS
  <2>1. call[t] = [NoCall EXCEPT !.trouble = ~ up]
    BY DEF Init
  <2> QED BY <2>1 DEF NoCall
<1>2. ExchangeInv /\ Right /\ [Next]_vars => Right'
  <2> SUFFICES ASSUME ExchangeInv, Right, [Next]_vars, NEW t \in Threads,
                      ~ (call'[t].ran = 0), call'[t].ran > 0
               PROVE  (Compatible /\ call[t].got = Sent)'
    OBVIOUS
  <2>1. Meets /\ Body
    BY ByThread DEF Body
  <2>2. (Compatible <=> Compatible') /\ Sent' = Sent
    BY <2>1, DepStays, PairStays DEF Sent
  <2>3. CASE SameRun(t)
    BY <2>2, <2>3 DEF SameRun
  <2>4. CASE Process(t)
    BY <2>1, <2>2, <2>4, ProcessRunsSent
  <2> QED BY <2>1, <2>3, <2>4, RunsOf
<1>3. ExchangeInv /\ Right => ReturnedWasRun
  BY DEF ExchangeInv, Pending, ReturnedWasRun
<1> QED BY <1>1, <1>2, <1>3, ExchangeInvariant, PTL DEF Spec

-----------------------------------------------------------------------------
(* A proxy whose connection is broken and stays with it: no step, of any   *)
(* thread or of the server, repairs it or answers a request.               *)
SameLink(u) == conn'[u] = conn[u] /\ link'[u] = link[u] /\ call'[u].all = call[u].all

(* A call that fails leaves a stuck connection as it was.                  *)
LEMMA FailLeavesStuck ==
  ASSUME Meets, Body, NEW t \in Threads, NEW u \in Threads, Stuck(u), link'[u] = link[u],
         NEW phase \in Phases, NEW after, t = u => after = "broken", Fail(t, phase, after)
  PROVE  SameLink(u)
<1>1. /\ conn[u] = "broken" /\ Client.keeps /\ phase \in Client.caught
  BY PairKinds, ClientKinds DEF Stuck
<1>2. /\ conn' = [conn EXCEPT ![t] = after] /\ call' = [call EXCEPT ![t].end = "failed"]
  BY <1>1 DEF Fail
<1>3. conn'[u] = conn[u]
  BY <1>1, <1>2 DEF Body, Tables
<1>4. call'[u].all = call[u].all
  BY <1>2, Labels DEF Body, Tables, ThreadInv, Shape
<1> QED BY <1>3, <1>4 DEF SameLink

(* So does every step.                                                     *)
LEMMA StuckStays ==
  ASSUME Meets, Body, NEW u \in Threads, Stuck(u), [Next]_vars
  PROVE  SameLink(u)
<1>1. /\ Client.loop = "requests" /\ Client.keeps /\ ~ dep.closes
      /\ conn[u] = "broken" /\ link[u] = << >> /\ ~ Client.call.oneway
      /\ {"open", "call"} \subseteq Phases
  BY PairKinds, ClientKinds DEF Stuck, Phases
<1>2. ASSUME conn' = conn, link' = link, call' = call PROVE SameLink(u)
  BY <1>2 DEF SameLink
<1>3. ASSUME NEW t \in Threads, Request(t) PROVE SameLink(u)
  <2>1. /\ conn' = conn /\ link' = link
        /\ call' = [call EXCEPT ![t] = [NoCall EXCEPT !.stale = conn[t] = "broken",
                                                      !.trouble = ~ up, !.all = call[t].all]]
    BY <1>3 DEF Request, Begin
  <2> QED BY <2>1 DEF SameLink, Body, Tables, NoCall
<1>4. ASSUME NEW t \in Threads, Connect(t) PROVE SameLink(u)
  <2>1. conn[t] = "closed" /\ t # u /\ link' = link
    BY <1>1, <1>4 DEF Connect
  <2>2. CASE Fail(t, "open", "closed")
    BY <1>1, <2>1, <2>2, FailLeavesStuck
  <2>3. CASE \E s, r : conn' = [conn EXCEPT ![t] = s] /\ call' = [call EXCEPT ![t].trouble = r]
    BY <2>1, <2>3 DEF Body, Tables, SameLink
  <2>4. CASE call' = call /\ \E s : conn' = [conn EXCEPT ![t] = s]
    BY <2>1, <2>4 DEF Body, Tables, SameLink
  <2> QED BY <1>4, <2>2, <2>3, <2>4 DEF Connect
<1>5. ASSUME NEW t \in Threads, Send(t) PROVE SameLink(u)
  <2>1. /\ conn' = conn /\ call' = call
        /\ \E m : link' = [link EXCEPT ![t] = IF conn[t] = "broken" THEN link[t] ELSE m]
    BY <1>1, <1>5 DEF Send
  <2> QED BY <1>1, <2>1 DEF Body, Tables, SameLink
<1>6. ASSUME NEW t \in Threads, SendThrows(t) \/ ReceiveThrows(t) PROVE SameLink(u)
  <2>1. /\ link' = link /\ conn[t] = "broken"
        /\ Fail(t, "call", "broken")
    BY <1>1, <1>6 DEF SendThrows, ReceiveThrows
  <2> QED BY <1>1, <2>1, FailLeavesStuck
<1>7. ASSUME NEW t \in Threads, Receive(t) PROVE SameLink(u)
  <2>1. /\ link[t] # << >> /\ t # u /\ link'[u] = link[u]
    BY <1>1, <1>7 DEF Receive, Body, Tables
  <2>2. CASE Fail(t, "call", conn[t])
    BY <1>1, <2>1, <2>2, FailLeavesStuck
  <2>3. CASE \E v : Return(t, v)
    <3>1. \E s, r : conn' = [conn EXCEPT ![t] = s] /\ call' = [call EXCEPT ![t] = r]
      BY <2>3 DEF Return
    <3> QED BY <2>1, <3>1 DEF Body, Tables, SameLink
  <2>4. CASE conn' = conn /\ call' = call
    BY <2>1, <2>4 DEF SameLink
  <2> QED BY <1>7, <2>2, <2>3, <2>4 DEF Receive
<1>8. ASSUME NEW t \in Threads, ServerStep(t) PROVE SameLink(u)
  <2>1. t # u
    BY <1>1, <1>8 DEF ServerStep, Refuse, UnknownMethod, Process
  <2>2. CASE Refuse(t)
    <3>1. \E s : conn' = [conn EXCEPT ![t] = s] /\ link' = [link EXCEPT ![t] = << >>]
      BY <2>2 DEF Refuse
    <3> QED BY <2>1, <2>2, <3>1 DEF Refuse, Body, Tables, SameLink
  <2>3. CASE UnknownMethod(t)
    <3>1. conn' = conn /\ call' = call /\ \E m : link' = [link EXCEPT ![t] = m]
      BY <2>3 DEF UnknownMethod, Answer
    <3> QED BY <2>1, <3>1 DEF Body, Tables, SameLink
  <2>4. CASE Process(t)
    <3>1. conn' = conn /\ \E m : link' = [link EXCEPT ![t] = m]
      BY <2>4 DEF Process, Answer
    <3>2. \E r : call' = [call EXCEPT ![t] = r]
      BY <2>4 DEF Process, Ran
    <3> QED BY <2>1, <3>1, <3>2 DEF Body, Tables, SameLink
  <2> QED BY <1>8, <2>2, <2>3, <2>4 DEF ServerStep
<1>9. ASSUME Crash PROVE SameLink(u)
  <2>1. /\ conn'[u] = conn[u] /\ link'[u] = link[u]
        /\ call'[u] = [call[u] EXCEPT !.trouble = TRUE] \/ call'[u] = call[u]
    BY <1>1, <1>9 DEF Crash
  <2> QED BY <2>1, Labels DEF Body, ThreadInv, Shape, SameLink
<1>10. \A t \in Threads : ~ Prompt(t) /\ ~ NextCall(t) /\ ~ Head(t)
  BY <1>1 DEF Prompt, NextCall, Head, Body, ThreadInv, Pending
<1>11. ASSUME Start \/ UNCHANGED vars PROVE SameLink(u)
  BY <1>2, <1>11 DEF Start, vars
<1> QED BY <1>3, <1>4, <1>5, <1>6, <1>7, <1>8, <1>9, <1>10, <1>11 DEF Next, ClientStep

(* After the server's end such a proxy answers no request any more.        *)
THEOREM StaysStuck == Spec => StaleForEver
<1>1. ExchangeInv /\ [Next]_vars =>
        [\A t \in Threads : Stuck(t) => Stuck(t)' /\ (call[t].all = call'[t].all)]_vars
  <2> SUFFICES ASSUME ExchangeInv, [Next]_vars, NEW t \in Threads, Stuck(t)
               PROVE  Stuck(t)' /\ call[t].all = call'[t].all
    OBVIOUS
  <2>1. Meets /\ Body
    BY ByThread DEF Body
  <2>2. SameLink(t) /\ dep' = dep
    BY <2>1, StuckStays, DepStays
  <2> QED BY <2>2 DEF Stuck, SameLink, Client
<1> QED BY <1>1, ExchangeInvariant, PTL DEF Spec, StaleForEver
=============================================================================
