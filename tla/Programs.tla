------------------------------ MODULE Programs ------------------------------
(***************************************************************************)
(* The programs: where each server listens and how it speaks, which port   *)
(* each client dials, how it speaks, which call it makes, and what it does *)
(* when that fails.                                                        *)
(*                                                                         *)
(* A server is built on one of three server types of the library.  throws: *)
(* its handler may throw.  A client                                        *)
(*   requests  makes one call for each HTTP request (REST and nginx proxy),*)
(*   once      makes one call and ends,                                    *)
(*   rounds    makes reqps calls in each of a number of rounds (generator),*)
(*   prompt    makes a call for each line of stdin until 'q'.              *)
(* keeps: it keeps its connection from one request to the next.  caught:   *)
(* the phases whose exceptions do not end the process.                     *)
(***************************************************************************)
EXTENDS Services

Framed   == "TFramedTransport"
Buffered == "TBufferedTransport"
JSON     == "TJSONProtocol"
Compact  == "TCompactProtocol"
Binary   == "TBinaryProtocol"

Threaded(port, methods, answer) ==          \* TThreadedServer
  [port |-> port, speaks |-> << Framed, JSON >>, type |-> "threaded",
   methods |-> methods, answer |-> answer, throws |-> FALSE]
Nonblocking(port, methods, answer) ==       \* TNonblockingServer, always framed
  [port |-> port, speaks |-> << Framed, Compact >>, type |-> "nonblocking",
   methods |-> methods, answer |-> answer, throws |-> FALSE]
Pool(port, methods, answer) ==              \* TThreadPoolServer
  [port |-> port, speaks |-> << Buffered, Compact >>, type |-> "pool",
   methods |-> methods, answer |-> answer, throws |-> FALSE]
Throws(server) == [server EXCEPT !.throws = TRUE]

UniqueIDServer_ttd == Threaded(3066, UniqueIDProcessor_ttd, "id")
UniqueIDServer_nb  == Nonblocking(3067, UniqueIDProcessor_nb, "id")
UniqueIDServer_tp  == Pool(3068, UniqueIDProcessor_tp, "id")
AsyncServer_ttd    == Threaded(3076, AsyncProcessor_ttd, "none")
AsyncServer_nb     == Nonblocking(3077, AsyncProcessor_nb, "none")
AsyncServer_tp     == Pool(3078, AsyncProcessor_tp, "none")
SumServer          == Threaded(3076, SumProcessor, "none")
HelloServer_ttd    == Threaded(3046, HelloProcessor_ttd, "ThisIsSparta")
HelloServer_nb     == Nonblocking(3048, HelloProcessor_nb, "HelloWorld")
HelloServer_tp     == Pool(3047, HelloProcessor_tp, "ThisIsSparta")
EchoServer         == Threaded(3046, EchoProcessor, "none")
ComputeServer_ttd  == Throws(Threaded(3056, ComputeProcessor_ttd, "processed"))
ComputeServer_nb   == Throws(Nonblocking(3057, ComputeProcessor_nb, "HelloWorld"))
ComputeServer_tp   == Throws(Pool(3058, ComputeProcessor_tp, "HelloWorld"))
TradeServer        == Nonblocking(9090, TradeProcessor, "report")
MotdServer         == Threaded(3062, MotdProcessor, "message")

Servers == { UniqueIDServer_ttd, UniqueIDServer_nb, UniqueIDServer_tp,
             AsyncServer_ttd, AsyncServer_nb, AsyncServer_tp, SumServer,
             HelloServer_ttd, HelloServer_nb, HelloServer_tp, EchoServer,
             ComputeServer_ttd, ComputeServer_nb, ComputeServer_tp, TradeServer, MotdServer }

-----------------------------------------------------------------------------
Phases == {"open", "call"}

Dial(port, transport, protocol, call) ==
  [port |-> port, speaks |-> {<< transport, protocol >>}, call |-> call, loop |-> "once",
   keeps |-> FALSE, caught |-> {}, ticks |-> TRUE, counts |-> {}]

(* What onRequest throws, the HTTP server (Pistache) turns into a 500.     *)
Proxy(c)          == [c EXCEPT !.loop = "requests", !.caught = Phases]
KeepingProxy(c)   == [Proxy(c) EXCEPT !.keeps = TRUE]
Generator(c)      == [c EXCEPT !.loop = "rounds"]
Counting(c, S)    == [Generator(c) EXCEPT !.counts = S]
Unticked(c)       == [Generator(c) EXCEPT !.ticks = FALSE]
Interactive(c)    == [c EXCEPT !.loop = "prompt"]
Catching(c, S)    == [c EXCEPT !.caught = S]

(* Mutants: a connection or a catch block of another directory.            *)
UniqueIDProxy_nb_Keeps == KeepingProxy(Dial(3067, Framed, Compact, UniqueIDCall_nb))
UniqueIDGenerator_nb_Catches ==
  Catching(Generator(Dial(3067, Framed, Compact, UniqueIDCall_nb)), {"call"})

UniqueIDProxy_ttd     == Proxy(Dial(3066, Framed, JSON, UniqueIDCall_ttd))
UniqueIDProxy_nb      == Proxy(Dial(3067, Framed, Compact, UniqueIDCall_nb))
UniqueIDProxy_tp      == Proxy(Dial(3068, Buffered, Compact, UniqueIDCall_tp))
UniqueIDGenerator_ttd == Counting(Dial(3046, Framed, JSON, UniqueIDCall_ttd), {"id"})
UniqueIDGenerator_nb  == Generator(Dial(3067, Framed, Compact, UniqueIDCall_nb))
UniqueIDGenerator_tp  == Generator(Dial(3068, Buffered, Compact, UniqueIDCall_tp))
AsyncClient_ttd       == Dial(3076, Framed, JSON, AsyncCall_ttd)
AsyncClient_nb        == Dial(3077, Framed, Compact, AsyncCall_nb)
AsyncClient_tp        == Dial(3078, Buffered, Compact, AsyncCall_tp)
SumClient             == Dial(3076, Framed, JSON, SumCall)
HelloProxy_ttd        == KeepingProxy(Dial(3046, Framed, JSON, HelloCall_ttd))
HelloClient_nb        == Catching(Dial(3048, Framed, Compact, HelloCall_nb), Phases)
HelloClient_tp        == Catching(Dial(3048, Buffered, Compact, HelloCall_tp), {"call"})
EchoGenerator         == Unticked(Dial(3046, Framed, JSON, EchoCall))
ComputeProxy_ttd      == Proxy(Dial(3056, Framed, JSON, ListCall_ttd))
ComputeProxy_nb       == KeepingProxy(Dial(3057, Framed, Compact, ListCall_nb))
ComputeProxy_tp       == KeepingProxy(Dial(3058, Buffered, Compact, ListCall_tp))
ComputeGenerator_ttd  == Counting(Dial(3056, Framed, JSON, ListCall_ttd), {"processed"})
TradeClient           == Catching(Interactive(Dial(9090, Framed, Compact, TradeCall)), Phases)
MotdClient            == Interactive(Dial(3062, Framed, JSON, MotdCall))

(* The nginx proxy takes its connection from GenericObjectPool, which is   *)
(* not in the repository, so it may speak in any way; it gives the         *)
(* connection back before it looks at the status of the call.              *)
HelloProxy_lua ==
  [KeepingProxy(Dial(3062, Framed, JSON, HelloCall_lua)) EXCEPT
     !.speaks = {Framed, Buffered} \X {JSON, Compact, Binary}]

Clients == { UniqueIDProxy_ttd, UniqueIDProxy_nb, UniqueIDProxy_tp,
             UniqueIDGenerator_ttd, UniqueIDGenerator_nb, UniqueIDGenerator_tp,
             AsyncClient_ttd, AsyncClient_nb, AsyncClient_tp, SumClient,
             HelloProxy_ttd, HelloClient_nb, HelloClient_tp, EchoGenerator,
             ComputeProxy_ttd, ComputeProxy_nb, ComputeProxy_tp, ComputeGenerator_ttd,
             TradeClient, MotdClient, HelloProxy_lua }

(* Who answers whom on one host: the server that has the port.             *)
SameHost == { p \in Clients \X Servers : p[1].port = p[2].port }

(* The published ports of the docker-compose files, as pairs of the port   *)
(* of the host and the port of the container, and the server in the        *)
(* container.                                                              *)
ComposeUniqueID == { << 3066, 3066, UniqueIDServer_ttd >>, << 3067, 3067, UniqueIDServer_nb >>,
                     << 3068, 3068, UniqueIDServer_tp >> }
ComposeAsync    == { << 3076, 3076, AsyncServer_ttd >>, << 3077, 3077, AsyncServer_nb >>,
                     << 3078, 3078, AsyncServer_tp >> }
ComposeCompute  == { << 3056, 3056, ComputeServer_ttd >>, << 3057, 3057, ComputeServer_nb >>,
                     << 3058, 3058, ComputeServer_tp >> }
ComposeHello    == { << 3046, 3046, HelloServer_ttd >>, << 3047, 3047, HelloServer_nb >>,
                     << 3048, 3048, HelloServer_tp >> }
Composed == ComposeUniqueID \cup ComposeAsync \cup ComposeCompute \cup ComposeHello

(* What a client and the server meet as: on one host the server that has   *)
(* the client's port answers; a published port reaches the server behind   *)
(* it when that listens on the port of the container.                      *)
OnOneHost == { [client |-> p[1], server |-> p[2], reached |-> TRUE] : p \in SameHost }
Published == { [client |-> p[1], server |-> p[2][3], reached |-> p[2][2] = p[2][3].port] :
                 p \in { q \in Clients \X Composed : q[1].port = q[2][1] } }
=============================================================================
