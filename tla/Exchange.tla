------------------------------ MODULE Exchange ------------------------------
(***************************************************************************)
(* A client program and a server program of this repository at the two     *)
(* ends of a connection: who dials, sends, serves, answers and reads, what *)
(* a failure does to the client, and what a restart of the server does to  *)
(* both.  The pair of programs is chosen in Init, from any that meet on a  *)
(* port.                                                                   *)
(*                                                                         *)
(* Of the Thrift library: connecting fails when nobody listens; a socket   *)
(* whose peer is gone stays open, the next write may succeed or throw and  *)
(* the next read throws; some versions close the socket when a write       *)
(* throws (closes), some do not; a message that is not framed or encoded   *)
(* as the server expects makes the server close the connection.  Of the    *)
(* operating system: what a server had written before it ended may still   *)
(* arrive, and a published port without a listener behind it may take the  *)
(* connection and close it.                                                *)
(***************************************************************************)
EXTENDS Programs, Integers, FiniteSets

CONSTANTS
  Threads,      (* threads of a generator                                  *)
  MaxSeconds,   (* largest number of rounds a generator is asked for       *)
  MaxReqps,     (* largest number of calls of a round                      *)
  MaxCrashes,   (* ends of the server process (bound)                      *)
  Deployments   (* the pairs, as records [client, server, reached]         *)

ASSUME ExchangeAssumption ==
  /\ Threads # {} /\ MaxSeconds \in Nat /\ MaxReqps \in Nat \ {0} /\ MaxCrashes \in Nat
  /\ \A d \in Deployments : d.client \in Clients /\ d.server \in Servers /\ d.reached \in BOOLEAN

VARIABLES
  dep,      (* the pair, with what stays as it is: speaks (how the client  *)
            (* encodes), closes, seconds, reqps                            *)
  up,       (* the server process runs                                     *)
  crashes,  (* how often it has ended                                      *)
  pc,       (* of each thread of the client                                *)
  conn,     (* its transport: closed, open, or broken: open, peer gone     *)
  link,     (* the message on its connection, or << >>                     *)
  counter,  (* the rounds it has counted                                   *)
  made,     (* its calls in this round                                     *)
  response, (* the answers it has counted in this round                    *)
  aborted,  (* an exception that nobody caught ended the client            *)
  call      (* history of the call it makes, or made last: ran, how often  *)
            (* a handler ran; got, its arguments; end, how it came back;   *)
            (* stale, begun on a broken connection; trouble, the server was*)
            (* down meanwhile or the handler threw; all, calls returned    *)

vars == << dep, up, crashes, pc, conn, link, counter, made, response, aborted, call >>
server == << dep, up, crashes >>
loop   == << counter, made, response >>

PerRequest == {UniqueIDProxy_ttd, UniqueIDProxy_nb, UniqueIDProxy_tp, ComputeProxy_ttd}

Client == dep.client
Server == dep.server
Sent   == Filled(Client.call.args, "arg")
Message(kind, name, body) == [kind |-> kind, name |-> name, body |-> body]

PC == {"start", "head", "idle", "ready", "wait", "over"}
Goto(t, label) == pc' = [pc EXCEPT ![t] = label]

(* The thread of a client that is not a generator.                         *)
MainThread == CHOOSE t \in Threads : TRUE

FirstPC(c) == IF c.loop = "requests" THEN "idle" ELSE IF c.loop = "rounds" THEN "start" ELSE "ready"
NoCall == [ran |-> 0, got |-> << >>, end |-> "none", stale |-> FALSE, trouble |-> FALSE, all |-> 0]
AllCap == MaxSeconds * MaxReqps + 1

Init ==
  /\ dep \in { [client |-> d.client, server |-> d.server, reached |-> d.reached, speaks |-> e,
                closes |-> b, seconds |-> s, reqps |-> n] :
               d \in Deployments, e \in UNION { c.speaks : c \in Clients }, b \in BOOLEAN,
               s \in 0 .. MaxSeconds, n \in 1 .. MaxReqps }
  /\ dep.speaks \in Client.speaks
  /\ Client.loop # "rounds" => dep.seconds = 0 /\ dep.reqps = 1
  /\ ~ Client.keeps => ~ dep.closes
  /\ up \in BOOLEAN /\ crashes = 0 /\ aborted = FALSE
  /\ pc = [t \in Threads |-> IF t = MainThread \/ Client.loop = "rounds"
                             THEN FirstPC(Client) ELSE "over"]
  /\ conn = [t \in Threads |-> "closed"]
  /\ link = [t \in Threads |-> << >>]
  /\ counter = [t \in Threads |-> 0]
  /\ made = [t \in Threads |-> 0]
  /\ response = [t \in Threads |-> 0]
  /\ call = [t \in Threads |-> [NoCall EXCEPT !.trouble = ~ up]]

-----------------------------------------------------------------------------
(* A call is to be made.                                                   *)
Begin(t) ==
  /\ Goto(t, "ready")
  /\ call' = [call EXCEPT ![t] = [NoCall EXCEPT !.stale = conn[t] = "broken",
                                               !.trouble = ~ up, !.all = call[t].all]]

(* An exception has left the call of thread t, or the open() before it.    *)
(* Uncaught, it ends the process with all its threads.  Caught, it ends    *)
(* the request, or the loop; a connection that is not kept is closed.      *)
Fail(t, phase, after) ==
  /\ IF phase \notin Client.caught
     THEN /\ aborted' = TRUE
          /\ pc' = [u \in Threads |-> "over"]
          /\ conn' = [u \in Threads |-> "closed"]
     ELSE /\ UNCHANGED aborted
          /\ Goto(t, IF Client.loop = "requests" THEN "idle" ELSE "over")
          /\ conn' = [conn EXCEPT ![t] = IF Client.keeps THEN after ELSE "closed"]
  /\ call' = [call EXCEPT ![t].end = "failed"]

(* The call of thread t came back with the value v.                        *)
Return(t, v) ==
  /\ Goto(t, IF Client.loop = "once" THEN "over" ELSE "idle")
  /\ conn' = [conn EXCEPT ![t] = IF Client.keeps \/ Client.loop \in {"rounds", "prompt"}
                                 THEN @ ELSE "closed"]
  /\ made' = [made EXCEPT ![t] = IF Client.loop = "rounds" THEN @ + 1 ELSE @]
  /\ response' = [response EXCEPT ![t] = IF v \in Client.counts THEN @ + 1 ELSE @]
  /\ LET n == call[t].all IN
     call' = [call EXCEPT ![t] = [call[t] EXCEPT !.end = "returned",
                                                !.all = IF n < AllCap THEN n + 1 ELSE n]]

-----------------------------------------------------------------------------
(* An HTTP request arrives.                                                *)
Request(t) ==
  /\ pc[t] = "idle" /\ Client.loop = "requests"
  /\ Begin(t)
  /\ UNCHANGED << server, loop, conn, link, aborted >>

(* std::getline: 'q' ends the client, any other line, and the end of the   *)
(* input, makes another call.                                              *)
Prompt(t) ==
  /\ pc[t] = "idle" /\ Client.loop = "prompt"
  /\ \/ Goto(t, "over") /\ conn' = [conn EXCEPT ![t] = "closed"] /\ UNCHANGED call
     \/ Begin(t) /\ UNCHANGED conn
  /\ UNCHANGED << server, loop, link, aborted >>

(* Mutant: the count of the last round is kept.                            *)
Head_NoReset(t) ==
  /\ pc[t] = "head"
  /\ IF counter[t] = dep.seconds
     THEN /\ Goto(t, "over") /\ conn' = [conn EXCEPT ![t] = "closed"]
          /\ UNCHANGED made
     ELSE /\ Goto(t, "idle") /\ made' = [made EXCEPT ![t] = 0]
          /\ UNCHANGED conn
  /\ UNCHANGED << server, counter, response, link, aborted, call >>

(* Mutant: one round more.                                                 *)
Head_OneMore(t) ==
  /\ pc[t] = "head"
  /\ IF counter[t] > dep.seconds
     THEN /\ Goto(t, "over") /\ conn' = [conn EXCEPT ![t] = "closed"]
          /\ UNCHANGED << made, response >>
     ELSE /\ Goto(t, "idle") /\ UNCHANGED conn
          /\ made' = [made EXCEPT ![t] = 0] /\ response' = [response EXCEPT ![t] = 0]
  /\ UNCHANGED << server, counter, link, aborted, call >>

(* The head of a generator's loop: no round is left, or the next begins.   *)
Head(t) ==
  /\ pc[t] = "head"
  /\ IF counter[t] = dep.seconds
     THEN /\ Goto(t, "over") /\ conn' = [conn EXCEPT ![t] = "closed"]
          /\ UNCHANGED << made, response >>
     ELSE /\ Goto(t, "idle") /\ UNCHANGED conn
          /\ made' = [made EXCEPT ![t] = 0] /\ response' = [response EXCEPT ![t] = 0]
  /\ UNCHANGED << server, counter, link, aborted, call >>

(* Mutant: no generator counts its rounds.                                 *)
NextCall_NoTick(t) ==
  /\ pc[t] = "idle" /\ Client.loop = "rounds"
  /\ IF made[t] < dep.reqps THEN Begin(t) ELSE Goto(t, "head") /\ UNCHANGED call
  /\ UNCHANGED << server, loop, conn, link, aborted >>

(* The inner loop: the next call of the round, or the end of the round, a  *)
(* sleep and ++counter.                                                    *)
NextCall(t) ==
  /\ pc[t] = "idle" /\ Client.loop = "rounds"
  /\ IF made[t] < dep.reqps
     THEN Begin(t) /\ UNCHANGED counter
     ELSE /\ Goto(t, "head") /\ UNCHANGED call
          /\ counter' = [counter EXCEPT ![t] = IF Client.ticks THEN @ + 1 ELSE @]
  /\ UNCHANGED << server, made, response, conn, link, aborted >>

-----------------------------------------------------------------------------
(* open(), when the transport is not open.                                 *)
Connect(t) ==
  /\ conn[t] = "closed" /\ pc[t] \in {"start", "ready"}
  /\ \/ /\ up /\ dep.reached
        /\ conn' = [conn EXCEPT ![t] = "open"]
        /\ call' = [call EXCEPT ![t].trouble = FALSE]
        /\ Goto(t, IF pc[t] = "start" THEN "head" ELSE "ready")
        /\ UNCHANGED aborted
     \/ /\ ~ dep.reached
        /\ conn' = [conn EXCEPT ![t] = "broken"]
        /\ Goto(t, IF pc[t] = "start" THEN "head" ELSE "ready")
        /\ UNCHANGED << aborted, call >>
     \/ ~ (up /\ dep.reached) /\ Fail(t, "open", "closed")
  /\ UNCHANGED << server, loop, link >>

(* send_: the message is written and flushed; a oneway call is done.       *)
Send(t) ==
  /\ pc[t] = "ready" /\ conn[t] # "closed"
  /\ link' = [link EXCEPT ![t] = IF conn[t] = "broken" THEN @
                ELSE Message("call", Client.call.name, Write(Client.call.args, Sent))]
  /\ IF Client.call.oneway THEN Return(t, "none")
     ELSE Goto(t, "wait") /\ UNCHANGED << conn, made, response, call >>
  /\ UNCHANGED << server, counter, aborted >>

(* Mutant: the proxy closes what it could not write to.                    *)
SendThrows_Closes(t) ==
  /\ pc[t] = "ready" /\ conn[t] = "broken"
  /\ Fail(t, "call", "closed")
  /\ UNCHANGED << server, loop, link >>

(* The write, or the flush, throws.                                        *)
SendThrows(t) ==
  /\ pc[t] = "ready" /\ conn[t] = "broken"
  /\ Fail(t, "call", IF dep.closes THEN "closed" ELSE "broken")
  /\ UNCHANGED << server, loop, link >>

(* recv_: what the client makes of a message.  After one it skips it reads *)
(* on, without a header, in what comes next; nothing does.                 *)
Reading(c, m) ==
  IF m.kind = "exception" THEN "throws"
  ELSE IF m.kind # "reply" \/ m.name # c.name THEN "skipped"
  ELSE IF c.result = NoFields \/ 0 \in DOMAIN Read(c.result, m.body) THEN "returns" ELSE "throws"

Value(c, m) == IF c.result = NoFields \/ c.result[0].wire = "struct" THEN "none"
               ELSE Read(c.result, m.body)[0]

Receive(t) ==
  /\ pc[t] = "wait" /\ link[t] # << >> /\ link[t].kind # "call"
  /\ link' = [link EXCEPT ![t] = << >>]
  /\ LET reading == Reading(Client.call, link[t]) IN
     \/ reading = "returns" /\ Return(t, Value(Client.call, link[t])) /\ UNCHANGED aborted
     \/ reading = "throws" /\ Fail(t, "call", conn[t]) /\ UNCHANGED << made, response >>
     \/ reading = "skipped" /\ UNCHANGED << pc, conn, made, response, aborted, call >>
  /\ UNCHANGED << server, counter >>

(* Mutant: a proxy that opens a connection for each request makes a call   *)
(* whose connection is lost again.                                         *)
ReceiveThrows_Retry(t) ==
  /\ pc[t] = "wait" /\ link[t] = << >> /\ conn[t] = "broken"
  /\ IF Client \in PerRequest
     THEN /\ Goto(t, "ready") /\ conn' = [conn EXCEPT ![t] = "closed"]
          /\ UNCHANGED << aborted, call >>
     ELSE Fail(t, "call", conn[t])
  /\ UNCHANGED << server, loop, link >>

(* The read throws: the connection has ended.                              *)
ReceiveThrows(t) ==
  /\ pc[t] = "wait" /\ link[t] = << >> /\ conn[t] = "broken"
  /\ Fail(t, "call", conn[t])
  /\ UNCHANGED << server, loop, link >>

-----------------------------------------------------------------------------
(* What goes back to a client that is still there.                         *)
Answer(t, m) == link' = [link EXCEPT ![t] = IF conn[t] = "open" THEN m ELSE << >>]

(* The processor's method for a name, if it has one.                       *)
Methods(name) == { m \in Server.methods : m.name = name }

(* The server cannot read the message and closes the connection.           *)
Refuse(t) ==
  /\ up /\ link[t] # << >> /\ link[t].kind = "call" /\ dep.speaks # Server.speaks
  /\ link' = [link EXCEPT ![t] = << >>]
  /\ conn' = [conn EXCEPT ![t] = IF @ = "open" THEN "broken" ELSE @]
  /\ UNCHANGED << server, loop, pc, aborted, call >>

(* Mutant: an unknown name is skipped without an answer.                   *)
UnknownMethod_Silent(t) ==
  /\ up /\ link[t] # << >> /\ link[t].kind = "call" /\ dep.speaks = Server.speaks
  /\ Methods(link[t].name) = {}
  /\ link' = [link EXCEPT ![t] = << >>]
  /\ UNCHANGED << server, loop, pc, conn, aborted, call >>

(* dispatchCall of a name that is not in the processor's map: an exception *)
(* goes back, also for a oneway call.                                      *)
UnknownMethod(t) ==
  /\ up /\ link[t] # << >> /\ link[t].kind = "call" /\ dep.speaks = Server.speaks
  /\ Methods(link[t].name) = {}
  /\ Answer(t, Message("exception", link[t].name, << >>))
  /\ UNCHANGED << server, loop, pc, conn, aborted, call >>

Ran(t, m, threw) ==
  LET c == call[t] IN
  call' = [call EXCEPT ![t] = [c EXCEPT !.ran = c.ran + 1, !.got = Read(m.args, link[t].body),
                                        !.trouble = c.trouble \/ threw]]

(* process_: the arguments are read, the handler runs, and its result, or  *)
(* the exception it threw, is written; nothing is for a oneway call.       *)
Process(t) ==
  /\ up /\ link[t] # << >> /\ link[t].kind = "call" /\ dep.speaks = Server.speaks
  /\ \E m \in Methods(link[t].name), threw \in {FALSE, Server.throws} :
        /\ Ran(t, m, threw)
        /\ IF m.oneway THEN link' = [link EXCEPT ![t] = << >>]
           ELSE IF threw THEN Answer(t, Message("exception", m.name, << >>))
           ELSE Answer(t, Message("reply", m.name,
                                  Write(m.result, Filled(m.result, Server.answer))))
  /\ UNCHANGED << server, loop, pc, conn, aborted >>

-----------------------------------------------------------------------------
(* The server process ends: killed, stopped, or by the exit() of           *)
(* get_counter.  Requests are lost, and replies may be.                    *)
Crash ==
  /\ up /\ crashes < MaxCrashes
  /\ up' = FALSE /\ crashes' = crashes + 1
  /\ conn' = [t \in Threads |-> IF conn[t] = "open" THEN "broken" ELSE conn[t]]
  /\ \E lost \in SUBSET Threads :
        link' = [t \in Threads |->
                   IF link[t] # << >> /\ link[t].kind # "call" /\ t \notin lost
                   THEN link[t] ELSE << >>]
  /\ call' = [t \in Threads |-> IF pc[t] \in {"start", "ready", "wait"}
                                    THEN [call[t] EXCEPT !.trouble = TRUE] ELSE call[t]]
  /\ UNCHANGED << dep, loop, pc, aborted >>

(* It is started, by hand or by the supervisor.                            *)
Start ==
  /\ ~ up /\ up' = TRUE
  /\ UNCHANGED << dep, crashes, loop, pc, conn, link, aborted, call >>

-----------------------------------------------------------------------------
ClientStep(t) == \/ Connect(t) \/ Send(t) \/ SendThrows(t) \/ Receive(t) \/ ReceiveThrows(t)
                 \/ Head(t) \/ NextCall(t)
ServerStep(t) == Refuse(t) \/ UnknownMethod(t) \/ Process(t)

Next == \/ \E t \in Threads : Request(t) \/ Prompt(t) \/ ClientStep(t) \/ ServerStep(t)
        \/ Crash \/ Start

Spec == Init /\ [][Next]_vars

(* The client's threads run.  A server runs what it was sent; a pool does  *)
(* not promise that (see ThreadPool).  Nobody promises requests, input,    *)
(* or that a server is started again.                                      *)
Fairness == \A t \in Threads :
  /\ WF_vars(ClientStep(t))
  /\ WF_vars(Server.type # "pool" /\ ServerStep(t))

FairSpec == Spec /\ Fairness

-----------------------------------------------------------------------------
Compatible == /\ dep.reached /\ dep.speaks = Server.speaks
              /\ \E m \in Server.methods : m.name = Client.call.name

TypeOK ==
  /\ up \in BOOLEAN /\ crashes \in 0 .. MaxCrashes /\ aborted \in BOOLEAN
  /\ pc \in [Threads -> PC]
  /\ conn \in [Threads -> {"closed", "open", "broken"}]
  /\ \A t \in Threads : link[t] # << >> => link[t].kind \in {"call", "reply", "exception"}
  /\ counter \in [Threads -> 0 .. dep.seconds]
  /\ made \in [Threads -> 0 .. dep.reqps]
  /\ response \in [Threads -> 0 .. dep.reqps]
  /\ \A t \in Threads : /\ call[t].ran \in Nat
                             /\ call[t].end \in {"none", "returned", "failed"}
                             /\ call[t].all \in 0 .. AllCap

(* No call is run twice: nobody repeats a call whose fate is unknown, in   *)
(* any pair, whatever ends when.                                           *)
AtMostOnce == \A t \in Threads : call[t].ran <= 1

(* Only the service that was meant runs a call, with the arguments that    *)
(* were sent, and a two-way call that returns was run, also where a client *)
(* meets another server, or another encoding, on its port.                 *)
ReturnedWasRun ==
  \A t \in Threads :
    /\ call[t].ran > 0 => Compatible /\ call[t].got = Sent
    /\ call[t].end = "returned" /\ ~ Client.call.oneway => call[t].ran > 0

(* A call of a pair that fits fails only because the server was down while *)
(* it was made, or its handler threw, or the client kept a connection that *)
(* the server's end had broken.  The proxies that open one for each        *)
(* request never do.                                                       *)
FailuresExplained ==
  \A t \in Threads :
    call[t].end = "failed" /\ Compatible =>
      call[t].trouble \/ (call[t].stale /\ Client \notin PerRequest)

(* The plain client takes the next message for its answer and ignores the  *)
(* sequence id: no message of an earlier call is left when one begins.     *)
QuietWhenIdle ==
  \A t \in Threads : pc[t] \in {"head", "idle", "ready"} => link[t] = << >>

(* A generator counts, in each round, what it was answered in that round.  *)
CountsAnswers ==
  \A t \in Threads :
    Client.counts # {} /\ pc[t] = "idle" /\ ~ Client.call.oneway => response[t] = made[t]

(* A generator that ends without an abort has made all its calls, and so   *)
(* the Hindsight generator, which never counts a round, never ends.        *)
EndedMeansAllCalls ==
  Client.loop = "rounds" /\ ~ aborted =>
    \A t \in Threads : pc[t] = "over" => call[t].all = dep.seconds * dep.reqps

(* A proxy that keeps its connection and a library that leaves a socket    *)
(* open when a write throws: after the server's end no request is answered *)
(* any more, however long the server has been up again.                    *)
Stuck(t) == /\ Client.loop = "requests" /\ Client.keeps /\ ~ dep.closes
            /\ conn[t] = "broken" /\ link[t] = << >>
StaleForEver ==
  [][\A t \in Threads : Stuck(t) => Stuck(t)' /\ (call[t].all = call'[t].all)]_vars

-----------------------------------------------------------------------------
(* What makes them so.  The pair is one that meets and stays as it is.     *)
Meets ==
  /\ \E d \in Deployments :
        Client = d.client /\ Server = d.server /\ dep.reached = d.reached
  /\ dep.speaks \in Client.speaks /\ dep.closes \in BOOLEAN
  /\ dep.seconds \in 0 .. MaxSeconds /\ dep.reqps \in 1 .. MaxReqps

(* Every thread has a connection and the history of a call.                *)
Histories ==
  /\ DOMAIN link = Threads /\ DOMAIN call = Threads
  /\ \A t \in Threads : /\ DOMAIN call[t] = DOMAIN NoCall
                        /\ call[t].stale \in BOOLEAN /\ call[t].trouble \in BOOLEAN

(* A call that is being made has not come back, and has not been run       *)
(* before it is sent.  A oneway call waits for nothing.  Only a generator  *)
(* connects before its first call.                                         *)
Pending(t) ==
  /\ pc[t] \in {"start", "head"} => Client.loop = "rounds"
  /\ pc[t] = "start" => link[t] = << >>
  /\ pc[t] \in {"start", "ready", "wait"} => call[t].end = "none"
  /\ pc[t] = "ready" => call[t].ran = 0
  /\ Client.call.oneway => pc[t] # "wait"
  /\ call[t].end = "returned" /\ ~ Client.call.oneway => call[t].ran > 0

(* What is on the connection: the client's call, which nobody has run, or  *)
(* the reply to it by a method of its name, or the reason why there is no  *)
(* reply.                                                                  *)
OnTheWire(t) ==
  link[t] # << >> =>
    LET m == link[t] IN
    /\ m.name = Client.call.name /\ dep.reached
    /\ m.kind = "call" => m.body = Write(Client.call.args, Sent) /\ call[t].ran = 0
    /\ m.kind = "reply" =>
         /\ dep.speaks = Server.speaks /\ call[t].ran > 0
         /\ \E k \in Methods(m.name) :
               ~ k.oneway /\ m.body = Write(k.result, Filled(k.result, Server.answer))
    /\ m.kind = "exception" => ~ Compatible \/ call[t].trouble

(* Whoever makes a call knows a reason for it to fail when there is one,   *)
(* and a client that does not keep its connection has none between two     *)
(* calls.                                                                  *)
Reasons(t) ==
  /\ conn[t] = "open" => dep.reached
  /\ ~ up /\ pc[t] \in {"start", "ready", "wait"} => call[t].trouble
  /\ conn[t] = "broken" /\ pc[t] \in {"ready", "wait"} =>
       ~ Compatible \/ call[t].trouble \/ call[t].stale
  /\ call[t].end = "failed" => ~ Compatible \/ call[t].trouble \/ call[t].stale
  /\ Client.loop = "requests" /\ ~ Client.keeps =>
       ~ call[t].stale /\ (pc[t] = "idle" => conn[t] = "closed")

(* A generator in a round has rounds left, in a call calls left, and has   *)
(* counted what it has done.                                               *)
Rounds(t) ==
  /\ pc[t] \in {"idle", "ready", "wait"} => counter[t] < dep.seconds
  /\ pc[t] \in {"ready", "wait"} => made[t] < dep.reqps
  /\ pc[t] \in {"idle", "ready", "wait"} /\ Client.counts # {} => response[t] = made[t]
  /\ response[t] <= made[t]
  /\ Client.ticks /\ pc[t] \in {"idle", "ready", "wait"} =>
       call[t].all = counter[t] * dep.reqps + made[t]
  /\ Client.ticks /\ pc[t] \in {"start", "head"} => call[t].all = counter[t] * dep.reqps
  /\ ~ Client.ticks => counter[t] = 0 /\ (dep.seconds = 0 => call[t].all = 0)

ExchangeInv ==
  /\ TypeOK /\ Meets /\ Histories /\ AtMostOnce /\ QuietWhenIdle /\ EndedMeansAllCalls
  /\ \A t \in Threads : Pending(t) /\ OnTheWire(t) /\ Reasons(t)
  /\ Client.loop = "rounds" => \A t \in Threads : Rounds(t)

-----------------------------------------------------------------------------
(* Every call comes back or ends with its process, whatever the server     *)
(* does, at the servers without a pool.                                    *)
Calling(t) == pc[t] \in {"ready", "wait"}
EveryCallEnds ==
  \A t \in Threads : Server.type # "pool" /\ Calling(t) ~> ~ Calling(t)

(* A generator comes to an end, whatever the server does.  Not the         *)
(* Hindsight echo generator: it compares its counter with the seconds it   *)
(* was given ("./client 30 10 3") and never increments it.  Asked for one  *)
(* or more it begins round after round, in every thread, until a failure   *)
(* aborts it.                                                              *)
AllOver == \A t \in Threads : pc[t] = "over"
GeneratorsEnd ==
  Client.loop = "rounds" /\ Server.type # "pool" =>
    IF Client = EchoGenerator /\ dep.seconds > 0
    THEN <>aborted \/ \A t \in Threads : []<>(pc[t] = "head")
    ELSE <>AllOver
=============================================================================
