--------------------------- MODULE ProgramsProofs ---------------------------
(***************************************************************************)
(* Facts about the programs and what they send: the copies of a service's  *)
(* generated code agree, a struct reads what it has written, and a client  *)
(* and a server that meet on a port and have a method of one name mean     *)
(* the same method by it.                                                  *)
(***************************************************************************)
EXTENDS Programs, TLAPS

(* The data.  The copies of a service's generated code agree.              *)
ValueCall == Call("computed_value", << I32, I32 >>, NoFields)

LEMMA CopiesAgree ==
  /\ UniqueIDCall_nb = UniqueIDCall_ttd /\ UniqueIDCall_tp = UniqueIDCall_ttd
  /\ AsyncCall_nb = AsyncCall_ttd /\ AsyncCall_tp = AsyncCall_ttd
  /\ HelloCall_nb = HelloCall_ttd /\ HelloCall_tp = HelloCall_ttd
  /\ HelloCall_lua = HelloCall_ttd
  /\ ListCall_nb = ListCall_ttd /\ ListCall_tp = ListCall_ttd
BY DEF UniqueIDCall_ttd, UniqueIDArgs_ttd, UniqueIDResult_ttd,
       UniqueIDCall_nb, UniqueIDArgs_nb, UniqueIDResult_nb,
       UniqueIDCall_tp, UniqueIDArgs_tp, UniqueIDResult_tp,
       AsyncCall_ttd, AsyncArgs_ttd, AsyncCall_nb, AsyncArgs_nb, AsyncCall_tp, AsyncArgs_tp,
       HelloCall_ttd, HelloArgs_ttd, HelloResult_ttd, HelloCall_nb, HelloArgs_nb,
       HelloResult_nb, HelloCall_tp, HelloArgs_tp, HelloResult_tp, HelloCall_lua,
       ListCall_ttd, ListArgs_ttd, ListResult_ttd, ListCall_nb, ListArgs_nb, ListResult_nb,
       ListCall_tp, ListArgs_tp, ListResult_tp

(* The methods of the processors, in terms of the threaded copies.         *)
LEMMA ProcessorsAgree ==
  /\ UniqueIDProcessor_ttd = {UniqueIDCall_ttd} /\ UniqueIDProcessor_nb = {UniqueIDCall_ttd}
  /\ UniqueIDProcessor_tp = {UniqueIDCall_ttd}
  /\ AsyncProcessor_ttd = {AsyncCall_ttd} /\ AsyncProcessor_nb = {AsyncCall_ttd}
  /\ AsyncProcessor_tp = {AsyncCall_ttd}
  /\ SumProcessor = {SumCall} /\ EchoProcessor = {EchoCall}
  /\ HelloProcessor_ttd = {HelloCall_ttd} /\ HelloProcessor_nb = {HelloCall_ttd}
  /\ HelloProcessor_tp = {HelloCall_ttd}
  /\ ComputeProcessor_ttd = {ValueCall, ListCall_ttd}
  /\ ComputeProcessor_nb = {ValueCall, ListCall_ttd}
  /\ ComputeProcessor_tp = {ValueCall, ListCall_ttd}
  /\ TradeProcessor = {TradeCall} /\ MotdProcessor = {MotdCall}
BY CopiesAgree
   DEF UniqueIDCall_ttd, UniqueIDCall_nb, UniqueIDCall_tp, UniqueIDProcessor_ttd,
       UniqueIDProcessor_nb, UniqueIDProcessor_tp, AsyncCall_ttd, AsyncCall_nb, AsyncCall_tp,
       AsyncProcessor_ttd, AsyncProcessor_nb, AsyncProcessor_tp, SumProcessor, SumCall,
       EchoProcessor, EchoCall, HelloCall_ttd, HelloCall_nb, HelloCall_tp, HelloProcessor_ttd,
       HelloProcessor_nb, HelloProcessor_tp, ListCall_ttd, ListCall_nb, ListCall_tp,
       ComputeProcessor_ttd, ComputeProcessor_nb, ComputeProcessor_tp,
       ValueCall, ValueArgs_ttd, ValueResult_ttd, ValueArgs_nb, ValueResult_nb,
       ValueArgs_tp, ValueResult_tp, TradeProcessor, TradeCall, MotdProcessor, MotdCall

(* The calls there are, by name and kind.                                  *)
TwoWayCalls == {UniqueIDCall_ttd, HelloCall_ttd, EchoCall, TradeCall, MotdCall, ListCall_ttd}
OnewayCalls == {AsyncCall_ttd, SumCall}

(* Their names, and which of them are oneway.                              *)
LEMMA CallParts ==
  /\ UniqueIDCall_ttd.name = "compute_unique_id" /\ AsyncCall_ttd.name = "compute_unique_id"
  /\ SumCall.name = "compute_result" /\ HelloCall_ttd.name = "hello_world"
  /\ EchoCall.name = "call" /\ TradeCall.name = "get_last_sale" /\ MotdCall.name = "motd"
  /\ ListCall_ttd.name = "compute_list" /\ ValueCall.name = "computed_value"
  /\ \A k \in TwoWayCalls : k.oneway = FALSE
  /\ \A k \in OnewayCalls : k.oneway = TRUE
  /\ ValueCall.oneway = FALSE
BY DEF TwoWayCalls, OnewayCalls, UniqueIDCall_ttd, HelloCall_ttd, EchoCall, TradeCall, MotdCall,
       ListCall_ttd, AsyncCall_ttd, SumCall, ValueCall, Call, Oneway

(* What the proofs use of the client programs.                             *)
ClientRow(c, port, made_, loop_, keeps, caught, ticks, counts) ==
  /\ c.port = port /\ c.call = made_ /\ c.loop = loop_ /\ c.keeps = keeps
  /\ c.caught = caught /\ c.ticks = ticks /\ c.counts = counts

(* The clients, one by one.                                                *)
LEMMA ClientTable ==
  /\ ClientRow(UniqueIDProxy_ttd, 3066, UniqueIDCall_ttd, "requests", FALSE, Phases, TRUE, {})
  /\ ClientRow(UniqueIDProxy_nb, 3067, UniqueIDCall_nb, "requests", FALSE, Phases, TRUE, {})
  /\ ClientRow(UniqueIDProxy_tp, 3068, UniqueIDCall_tp, "requests", FALSE, Phases, TRUE, {})
  /\ ClientRow(UniqueIDGenerator_ttd, 3046, UniqueIDCall_ttd, "rounds", FALSE, {}, TRUE, {"id"})
  /\ ClientRow(UniqueIDGenerator_nb, 3067, UniqueIDCall_nb, "rounds", FALSE, {}, TRUE, {})
  /\ ClientRow(UniqueIDGenerator_tp, 3068, UniqueIDCall_tp, "rounds", FALSE, {}, TRUE, {})
  /\ ClientRow(AsyncClient_ttd, 3076, AsyncCall_ttd, "once", FALSE, {}, TRUE, {})
  /\ ClientRow(AsyncClient_nb, 3077, AsyncCall_nb, "once", FALSE, {}, TRUE, {})
  /\ ClientRow(AsyncClient_tp, 3078, AsyncCall_tp, "once", FALSE, {}, TRUE, {})
  /\ ClientRow(SumClient, 3076, SumCall, "once", FALSE, {}, TRUE, {})
  /\ ClientRow(HelloProxy_ttd, 3046, HelloCall_ttd, "requests", TRUE, Phases, TRUE, {})
  /\ ClientRow(HelloClient_nb, 3048, HelloCall_nb, "once", FALSE, Phases, TRUE, {})
  /\ ClientRow(HelloClient_tp, 3048, HelloCall_tp, "once", FALSE, {"call"}, TRUE, {})
  /\ ClientRow(EchoGenerator, 3046, EchoCall, "rounds", FALSE, {}, FALSE, {})
  /\ ClientRow(ComputeProxy_ttd, 3056, ListCall_ttd, "requests", FALSE, Phases, TRUE, {})
  /\ ClientRow(ComputeProxy_nb, 3057, ListCall_nb, "requests", TRUE, Phases, TRUE, {})
  /\ ClientRow(ComputeProxy_tp, 3058, ListCall_tp, "requests", TRUE, Phases, TRUE, {})
  /\ ClientRow(ComputeGenerator_ttd, 3056, ListCall_ttd, "rounds", FALSE, {}, TRUE, {"processed"})
  /\ ClientRow(TradeClient, 9090, TradeCall, "prompt", FALSE, Phases, TRUE, {})
  /\ ClientRow(MotdClient, 3062, MotdCall, "prompt", FALSE, {}, TRUE, {})
  /\ ClientRow(HelloProxy_lua, 3062, HelloCall_lua, "requests", TRUE, Phases, TRUE, {})
BY DEF ClientRow, Dial, Proxy, KeepingProxy, Generator, Counting, Unticked, Interactive, Catching,
       UniqueIDProxy_ttd, UniqueIDProxy_nb, UniqueIDProxy_tp, UniqueIDGenerator_ttd,
       UniqueIDGenerator_nb, UniqueIDGenerator_tp, AsyncClient_ttd, AsyncClient_nb,
       AsyncClient_tp, SumClient, HelloProxy_ttd, HelloClient_nb, HelloClient_tp,
       EchoGenerator, ComputeProxy_ttd, ComputeProxy_nb, ComputeProxy_tp,
       ComputeGenerator_ttd, TradeClient, MotdClient, HelloProxy_lua

(* What goes together in every client.                                     *)
LEMMA ClientKinds ==
  ASSUME NEW c \in Clients
  PROVE  /\ c.loop \in {"once", "requests", "rounds", "prompt"}
         /\ c.call \in TwoWayCalls \cup OnewayCalls
         /\ c.call.oneway <=> c.call \in OnewayCalls
         /\ c.call \in OnewayCalls => c.loop = "once"
         /\ c.keeps => c.loop = "requests"
         /\ c.loop = "requests" => c.caught = Phases
         /\ c.loop = "rounds" => c.caught = {}
         /\ c.counts # {} => c.loop = "rounds"
         /\ c.call = UniqueIDCall_ttd => c.port \in {3046, 3066, 3067, 3068}
         /\ c.call = AsyncCall_ttd => c.port \in {3076, 3077, 3078}
<1>1. c.loop \in {"once", "requests", "rounds", "prompt"}
  BY ClientTable DEF ClientRow, Clients
<1>2. c.call \in TwoWayCalls \cup OnewayCalls
  BY ClientTable, CopiesAgree DEF ClientRow, Clients, TwoWayCalls, OnewayCalls
<1>3. c.call.oneway <=> c.call \in OnewayCalls
  BY <1>2, CallParts DEF TwoWayCalls, OnewayCalls
<1>4. c.call \in OnewayCalls => c.loop = "once"
  BY ClientTable, CallParts, CopiesAgree DEF ClientRow, Clients, TwoWayCalls, OnewayCalls
<1>5. c.keeps => c.loop = "requests"
  BY ClientTable DEF ClientRow, Clients
<1>6. c.loop = "requests" => c.caught = Phases
  BY ClientTable DEF ClientRow, Clients
<1>7. c.loop = "rounds" => c.caught = {}
  BY ClientTable DEF ClientRow, Clients
<1>8. c.counts # {} => c.loop = "rounds"
  BY ClientTable DEF ClientRow, Clients
<1>9. c.call = UniqueIDCall_ttd => c.port \in {3046, 3066, 3067, 3068}
  BY ClientTable, CallParts, CopiesAgree DEF ClientRow, Clients, TwoWayCalls, OnewayCalls
<1>10. c.call = AsyncCall_ttd => c.port \in {3076, 3077, 3078}
  BY ClientTable, CallParts, CopiesAgree DEF ClientRow, Clients, TwoWayCalls, OnewayCalls
<1> QED BY <1>1, <1>2, <1>3, <1>4, <1>5, <1>6, <1>7, <1>8, <1>9, <1>10

(* What the proofs use of the server programs.                             *)
ServerRow(s, port, methods, answer) ==
  s.port = port /\ s.methods = methods /\ s.answer = answer

(* The servers, one by one.                                                *)
LEMMA ServerTable ==
  /\ ServerRow(UniqueIDServer_ttd, 3066, UniqueIDProcessor_ttd, "id")
  /\ ServerRow(UniqueIDServer_nb, 3067, UniqueIDProcessor_nb, "id")
  /\ ServerRow(UniqueIDServer_tp, 3068, UniqueIDProcessor_tp, "id")
  /\ ServerRow(AsyncServer_ttd, 3076, AsyncProcessor_ttd, "none")
  /\ ServerRow(AsyncServer_nb, 3077, AsyncProcessor_nb, "none")
  /\ ServerRow(AsyncServer_tp, 3078, AsyncProcessor_tp, "none")
  /\ ServerRow(SumServer, 3076, SumProcessor, "none")
  /\ ServerRow(HelloServer_ttd, 3046, HelloProcessor_ttd, "ThisIsSparta")
  /\ ServerRow(HelloServer_nb, 3048, HelloProcessor_nb, "HelloWorld")
  /\ ServerRow(HelloServer_tp, 3047, HelloProcessor_tp, "ThisIsSparta")
  /\ ServerRow(EchoServer, 3046, EchoProcessor, "none")
  /\ ServerRow(ComputeServer_ttd, 3056, ComputeProcessor_ttd, "processed")
  /\ ServerRow(ComputeServer_nb, 3057, ComputeProcessor_nb, "HelloWorld")
  /\ ServerRow(ComputeServer_tp, 3058, ComputeProcessor_tp, "HelloWorld")
  /\ ServerRow(TradeServer, 9090, TradeProcessor, "report")
  /\ ServerRow(MotdServer, 3062, MotdProcessor, "message")
BY DEF ServerRow, Threaded, Nonblocking, Pool, Throws,
       UniqueIDServer_ttd, UniqueIDServer_nb, UniqueIDServer_tp, AsyncServer_ttd,
       AsyncServer_nb, AsyncServer_tp, SumServer, HelloServer_ttd, HelloServer_nb,
       HelloServer_tp, EchoServer, ComputeServer_ttd, ComputeServer_nb,
       ComputeServer_tp, TradeServer, MotdServer

(* A processor of one service is not one of another.                       *)
LEMMA ServicesDiffer ==
  /\ {UniqueIDCall_ttd} # {AsyncCall_ttd} /\ UniqueIDCall_ttd # AsyncCall_ttd
  /\ \A k \in {UniqueIDCall_ttd, AsyncCall_ttd} :
        /\ {ValueCall, ListCall_ttd} # {k}
        /\ \A l \in {SumCall, HelloCall_ttd, EchoCall, TradeCall, MotdCall} : {l} # {k}
BY CallParts DEF TwoWayCalls, OnewayCalls

(* What goes together in every server.                                     *)
LEMMA ServerKinds ==
  ASSUME NEW s \in Servers
  PROVE  /\ \/ s.methods \in {{UniqueIDCall_ttd}, {AsyncCall_ttd}, {ValueCall, ListCall_ttd}}
            \/ \E k \in {SumCall, HelloCall_ttd, EchoCall, TradeCall, MotdCall} : s.methods = {k}
         /\ s.methods = {UniqueIDCall_ttd} => s.port \in {3066, 3067, 3068} /\ s.answer = "id"
         /\ s.methods = {AsyncCall_ttd} => s.port \in {3076, 3077, 3078}
         /\ s.methods = {ValueCall, ListCall_ttd} /\ s.speaks = << Framed, JSON >> =>
               s.answer = "processed"
<1>1. s \in {UniqueIDServer_ttd, UniqueIDServer_nb, UniqueIDServer_tp} =>
        s.methods = {UniqueIDCall_ttd} /\ s.port \in {3066, 3067, 3068} /\ s.answer = "id"
  BY ServerTable, ProcessorsAgree DEF ServerRow
<1>2. s \in {AsyncServer_ttd, AsyncServer_nb, AsyncServer_tp} =>
        s.methods = {AsyncCall_ttd} /\ s.port \in {3076, 3077, 3078}
  BY ServerTable, ProcessorsAgree DEF ServerRow
<1>3. s \in {ComputeServer_ttd, ComputeServer_nb, ComputeServer_tp} =>
        /\ s.methods = {ValueCall, ListCall_ttd}
        /\ s.speaks = << Framed, JSON >> => s.answer = "processed"
  <2>1. ComputeServer_nb.speaks = << Framed, Compact >> /\ Compact # JSON
    BY DEF ComputeServer_nb, Throws, Nonblocking, Compact, JSON
  <2>2. ComputeServer_tp.speaks = << Buffered, Compact >> /\ Compact # JSON
    BY DEF ComputeServer_tp, Throws, Pool, Compact, JSON
  <2> QED BY <2>1, <2>2, ServerTable, ProcessorsAgree DEF ServerRow
<1>4. s \in {SumServer, HelloServer_ttd, HelloServer_nb, HelloServer_tp, EchoServer, TradeServer,
             MotdServer} =>
        \E k \in {SumCall, HelloCall_ttd, EchoCall, TradeCall, MotdCall} : s.methods = {k}
  BY ServerTable, ProcessorsAgree DEF ServerRow
<1>5. ListCall_ttd \notin {UniqueIDCall_ttd, AsyncCall_ttd, SumCall, HelloCall_ttd, EchoCall,
                           TradeCall, MotdCall}
  BY CallParts
<1> QED BY <1>1, <1>2, <1>3, <1>4, <1>5, ServicesDiffer DEF Servers

-----------------------------------------------------------------------------
(* What a struct writes, it reads: write() and read() of one schema.       *)
LEMMA FlatRoundTrip ==
  ASSUME NEW schema, NEW x
  PROVE  ReadFlat(schema, WriteFlat(schema, [i \in DOMAIN schema |-> x])) =
           [i \in DOMAIN schema |-> x]
<1>1. Known(schema, WriteFlat(schema, [i \in DOMAIN schema |-> x])) = DOMAIN schema
  BY DEF Known, WriteFlat
<1> QED BY <1>1 DEF ReadFlat, WriteFlat

(* The same for structs in structs.                                        *)
THEOREM RoundTrip ==
  ASSUME NEW schema, NEW x
  PROVE  Read(schema, Write(schema, Filled(schema, x))) = Filled(schema, x)
<1> DEFINE w == Write(schema, Filled(schema, x))
           IsStruct(i) == schema[i].wire = "struct"
           FieldRead(i) == IF IsStruct(i) THEN ReadFlat(schema[i].fields, w[i].value)
                           ELSE w[i].value
           Field(i) == IF IsStruct(i) THEN [j \in DOMAIN schema[i].fields |-> x] ELSE x
<1>1. Known(schema, w) = DOMAIN schema
  BY DEF Known, Write, Filled
<1>2. \A i \in DOMAIN schema : ~ IsStruct(i) => w[i].value = x
  BY DEF Write, Filled
<1>3. \A i \in DOMAIN schema : IsStruct(i) =>
         w[i].value = WriteFlat(schema[i].fields, [j \in DOMAIN schema[i].fields |-> x])
  BY DEF Write, Filled
<1>4. Read(schema, w) = [i \in DOMAIN schema |-> FieldRead(i)]
  BY <1>1 DEF Read
<1> HIDE DEF w
<1>5. \A i \in DOMAIN schema :
         ReadFlat(schema[i].fields, WriteFlat(schema[i].fields, [j \in DOMAIN schema[i].fields |-> x]))
           = [j \in DOMAIN schema[i].fields |-> x]
  BY FlatRoundTrip
<1>6. \A i \in DOMAIN schema : FieldRead(i) = Field(i)
  BY <1>2, <1>3, <1>5
<1> QED BY <1>4, <1>6 DEF w, Filled

(* A processor that has a client's two-way call, by name, has that call.   *)
LEMMA TwoWayAgree ==
  ASSUME NEW c \in Clients, NEW s \in Servers, NEW m \in s.methods,
         m.name = c.call.name, ~ m.oneway, ~ c.call.oneway
  PROVE  m = c.call
<1>1. c.call \in TwoWayCalls
  BY ClientKinds
<1>2. m \in {UniqueIDCall_ttd, AsyncCall_ttd, ValueCall, ListCall_ttd, SumCall, HelloCall_ttd,
             EchoCall, TradeCall, MotdCall}
  BY ServerKinds
<1> QED BY <1>1, <1>2, CallParts DEF TwoWayCalls, OnewayCalls

(* UniqueID and its oneway version are published on ports of their own.    *)
LEMMA PublishedPorts ==
  ASSUME NEW e \in Composed
  PROVE  /\ e[3].methods = {UniqueIDCall_ttd} => e[1] \in {3066, 3067, 3068}
         /\ e[3].methods = {AsyncCall_ttd} => e[1] \in {3076, 3077, 3078}
<1>1. CASE e \in ComposeUniqueID
  <2>1. e[1] \in {3066, 3067, 3068} /\ e[3].methods = {UniqueIDCall_ttd}
    BY <1>1, ServerTable, ProcessorsAgree DEF ComposeUniqueID, ServerRow
  <2> QED BY <2>1, ServicesDiffer
<1>2. CASE e \in ComposeAsync
  <2>1. e[1] \in {3076, 3077, 3078} /\ e[3].methods = {AsyncCall_ttd}
    BY <1>2, ServerTable, ProcessorsAgree DEF ComposeAsync, ServerRow
  <2> QED BY <2>1, ServicesDiffer
<1>3. CASE e \in ComposeCompute
  <2>1. e[3] \in {ComputeServer_ttd, ComputeServer_nb, ComputeServer_tp}
    BY <1>3 DEF ComposeCompute
  <2>2. e[3].methods = {ValueCall, ListCall_ttd}
    BY <2>1, ServerTable, ProcessorsAgree DEF ServerRow
  <2> QED BY <2>2, ServicesDiffer
<1>4. CASE e \in ComposeHello
  <2>1. e[3] \in {HelloServer_ttd, HelloServer_nb, HelloServer_tp}
    BY <1>4 DEF ComposeHello
  <2>2. e[3].methods = {HelloCall_ttd}
    BY <2>1, ServerTable, ProcessorsAgree DEF ServerRow
  <2> QED BY <2>2, ServicesDiffer
<1> QED BY <1>1, <1>2, <1>3, <1>4 DEF Composed

(* On one host, and behind the published ports, no client meets another    *)
(* service under the name of its call.                                     *)
THEOREM PairsAgree ==
  ASSUME NEW d \in OnOneHost \cup Published, d.client \in Clients, d.server \in Servers,
         NEW m \in d.server.methods, m.name = d.client.call.name
  PROVE  m = d.client.call
<1> DEFINE c == d.client
           s == d.server
<1>1. c.call \in TwoWayCalls \cup OnewayCalls
  BY ClientKinds
<1>2. m \in {UniqueIDCall_ttd, AsyncCall_ttd, ValueCall, ListCall_ttd, SumCall, HelloCall_ttd,
             EchoCall, TradeCall, MotdCall}
  BY ServerKinds
<1>3. CASE m \notin {UniqueIDCall_ttd, AsyncCall_ttd}
  BY <1>1, <1>2, <1>3, CallParts DEF TwoWayCalls, OnewayCalls
<1>4. CASE m \in {UniqueIDCall_ttd, AsyncCall_ttd}
  <2>1. s.methods = {m}
    BY <1>4, CallParts, ServerKinds DEF TwoWayCalls, OnewayCalls
  <2>2. c.call \in {UniqueIDCall_ttd, AsyncCall_ttd}
    BY <1>1, <1>4, CallParts DEF TwoWayCalls, OnewayCalls
  <2>3. c.port # s.port => d \in Published
    BY DEF OnOneHost, SameHost
  <2>4. d \in Published => \E e \in Composed : s = e[3] /\ c.port = e[1]
    BY DEF Published
  <2>5. ASSUME m = UniqueIDCall_ttd, c.call = AsyncCall_ttd PROVE FALSE
    <3>1. c.port \in {3076, 3077, 3078} /\ s.port \in {3066, 3067, 3068}
      BY <2>1, <2>5, ClientKinds, ServerKinds
    <3>2. PICK e \in Composed : s = e[3] /\ c.port = e[1]
      BY <2>3, <2>4, <3>1
    <3>3. c.port \in {3066, 3067, 3068}
      BY <2>1, <2>5, <3>2, PublishedPorts
    <3> QED BY <3>1, <3>3
  <2>6. ASSUME m = AsyncCall_ttd, c.call = UniqueIDCall_ttd PROVE FALSE
    <3>1. c.port \in {3046, 3066, 3067, 3068} /\ s.port \in {3076, 3077, 3078}
      BY <2>1, <2>6, ClientKinds, ServerKinds
    <3>2. PICK e \in Composed : s = e[3] /\ c.port = e[1]
      BY <2>3, <2>4, <3>1
    <3>3. c.port \in {3076, 3077, 3078}
      BY <2>1, <2>6, <3>2, PublishedPorts
    <3> QED BY <3>1, <3>3
  <2> QED BY <1>4, <2>2, <2>5, <2>6
<1> QED BY <1>3, <1>4

(* A result is void, or has the one field 0.                               *)
LEMMA ResultParts ==
  /\ \A k \in TwoWayCalls : k.result = NoFields \/ DOMAIN k.result = {0}
  /\ \A k \in {UniqueIDCall_ttd, ListCall_ttd} :
        DOMAIN k.result = {0} /\ k.result[0].wire = "string"
<1>1. \A k \in {UniqueIDCall_ttd, ListCall_ttd, HelloCall_ttd, MotdCall} :
         k.result = Result(String)
  BY DEF UniqueIDCall_ttd, UniqueIDResult_ttd, ListCall_ttd, ListResult_ttd, HelloCall_ttd,
         HelloResult_ttd, MotdCall, MotdResult, Call
<1>2. TradeCall.result = Result(Struct(TradeReport)) /\ EchoCall.result = NoFields
  BY DEF TradeCall, TradeResult, EchoCall, EchoResult, Call
<1>3. \A x : DOMAIN Result(x) = {0} /\ Result(x)[0] = x
  BY DEF Result
<1>4. String.wire = "string"
  BY DEF String, Scalar
<1> QED BY <1>1, <1>2, <1>3, <1>4 DEF TwoWayCalls

(* The generators that count their answers, and which ones they count.     *)
LEMMA CountingClients ==
  ASSUME NEW c \in Clients, c.counts # {}
  PROVE  /\ c.speaks = {<< Framed, JSON >>}
         /\ \/ c.call = UniqueIDCall_ttd /\ c.counts = {"id"}
            \/ c.call = ListCall_ttd /\ c.counts = {"processed"}
<1>1. c \in {UniqueIDGenerator_ttd, ComputeGenerator_ttd}
  BY ClientTable DEF ClientRow, Clients
<1>2. \A port, k, S : Counting(Dial(port, Framed, JSON, k), S).speaks = {<< Framed, JSON >>}
  BY DEF Counting, Generator, Dial
<1>3. c.speaks = {<< Framed, JSON >>}
  BY <1>1, <1>2 DEF UniqueIDGenerator_ttd, ComputeGenerator_ttd
<1> QED BY <1>1, <1>3, ClientTable DEF ClientRow
=============================================================================
