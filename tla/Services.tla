------------------------------ MODULE Services ------------------------------
(***************************************************************************)
(* The generated code of the services.  Every program is built with the    *)
(* copy of its own directory, and nothing but the wire holds the copies of *)
(* a service together, so each copy is stated as it is: the structs that   *)
(* carry the arguments and the result of a call (args and pargs, result    *)
(* and presult), the call a client makes, and the calls a processor knows. *)
(*                                                                         *)
(* _ttd, _nb, _tp: the copies of the thread-per-connection, non-blocking   *)
(* and thread-pool directories of a service.                               *)
(***************************************************************************)
EXTENDS Wire

Call(name, args, result) ==
  [name |-> name, oneway |-> FALSE, args |-> args, result |-> result]
Oneway(name, args) ==
  [name |-> name, oneway |-> TRUE, args |-> args, result |-> NoFields]

(* Mutants of a copy: made from another version of the .thrift file.       *)
EchoCall_Oneway == Oneway("call", << Struct(<< I64, String >>), String >>)
UniqueIDProcessor_tp_I64 == {Call("compute_unique_id", << I64 >>, Result(String))}

-----------------------------------------------------------------------------
(* UniqueID: string compute_unique_id(1: i32 id)                           *)
UniqueIDArgs_ttd      == << I32 >>
UniqueIDResult_ttd    == Result(String)
UniqueIDCall_ttd      == Call("compute_unique_id", UniqueIDArgs_ttd, UniqueIDResult_ttd)
UniqueIDProcessor_ttd == {Call("compute_unique_id", UniqueIDArgs_ttd, UniqueIDResult_ttd)}

UniqueIDArgs_nb       == << I32 >>
UniqueIDResult_nb     == Result(String)
UniqueIDCall_nb       == Call("compute_unique_id", UniqueIDArgs_nb, UniqueIDResult_nb)
UniqueIDProcessor_nb  == {Call("compute_unique_id", UniqueIDArgs_nb, UniqueIDResult_nb)}

UniqueIDArgs_tp       == << I32 >>
UniqueIDResult_tp     == Result(String)
UniqueIDCall_tp       == Call("compute_unique_id", UniqueIDArgs_tp, UniqueIDResult_tp)
UniqueIDProcessor_tp  == {Call("compute_unique_id", UniqueIDArgs_tp, UniqueIDResult_tp)}

-----------------------------------------------------------------------------
(* UniqueIDAsync: oneway void compute_unique_id(1: i64 id), the name of    *)
(* UniqueID's call with another type.                                      *)
AsyncArgs_ttd      == << I64 >>
AsyncCall_ttd      == Oneway("compute_unique_id", AsyncArgs_ttd)
AsyncProcessor_ttd == {Oneway("compute_unique_id", AsyncArgs_ttd)}

AsyncArgs_nb       == << I64 >>
AsyncCall_nb       == Oneway("compute_unique_id", AsyncArgs_nb)
AsyncProcessor_nb  == {Oneway("compute_unique_id", AsyncArgs_nb)}

AsyncArgs_tp       == << I64 >>
AsyncCall_tp       == Oneway("compute_unique_id", AsyncArgs_tp)
AsyncProcessor_tp  == {Oneway("compute_unique_id", AsyncArgs_tp)}

(* AsyncService: oneway void compute_result(1: i64 num_1, 2: i64 num_2)    *)
SumArgs      == << I64, I64 >>
SumCall      == Oneway("compute_result", SumArgs)
SumProcessor == {Oneway("compute_result", SumArgs)}

-----------------------------------------------------------------------------
(* HelloWorld: string hello_world()                                        *)
HelloArgs_ttd      == NoFields
HelloResult_ttd    == Result(String)
HelloCall_ttd      == Call("hello_world", HelloArgs_ttd, HelloResult_ttd)
HelloProcessor_ttd == {Call("hello_world", HelloArgs_ttd, HelloResult_ttd)}

HelloArgs_nb       == NoFields
HelloResult_nb     == Result(String)
HelloCall_nb       == Call("hello_world", HelloArgs_nb, HelloResult_nb)
HelloProcessor_nb  == {Call("hello_world", HelloArgs_nb, HelloResult_nb)}

HelloArgs_tp       == NoFields
HelloResult_tp     == Result(String)
HelloCall_tp       == Call("hello_world", HelloArgs_tp, HelloResult_tp)
HelloProcessor_tp  == {Call("hello_world", HelloArgs_tp, HelloResult_tp)}

(* The Lua client of the nginx proxy.                                      *)
HelloCall_lua      == Call("hello_world", NoFields, Result(String))

-----------------------------------------------------------------------------
(* EchoService: void call(1: TraceContext req, 2: string message)          *)
TraceContext  == << I64, String >>
EchoArgs      == << Struct(TraceContext), String >>
EchoResult    == NoFields
EchoCall      == Call("call", EchoArgs, EchoResult)
EchoProcessor == {Call("call", EchoArgs, EchoResult)}

(* TradeHistory: TradeReport get_last_sale(1: string symbol)               *)
TradeReport    == << String, Double, I32, I32 >>
TradeArgs      == << String >>
TradeResult    == Result(Struct(TradeReport))
TradeCall      == Call("get_last_sale", TradeArgs, TradeResult)
TradeProcessor == {Call("get_last_sale", TradeArgs, TradeResult)}

(* Message: string motd(1: string data)                                    *)
MotdArgs      == << String >>
MotdResult    == Result(String)
MotdCall      == Call("motd", MotdArgs, MotdResult)
MotdProcessor == {Call("motd", MotdArgs, MotdResult)}

-----------------------------------------------------------------------------
(* Compute: void computed_value(1: i32 row, 2: i32 column) and             *)
(* string compute_list(1: list<list<list<double>>> values)                 *)
ValueArgs_ttd        == << I32, I32 >>
ValueResult_ttd      == NoFields
ListArgs_ttd         == << List >>
ListResult_ttd       == Result(String)
ListCall_ttd         == Call("compute_list", ListArgs_ttd, ListResult_ttd)
ComputeProcessor_ttd == {Call("computed_value", ValueArgs_ttd, ValueResult_ttd),
                         Call("compute_list", ListArgs_ttd, ListResult_ttd)}

ValueArgs_nb         == << I32, I32 >>
ValueResult_nb       == NoFields
ListArgs_nb          == << List >>
ListResult_nb        == Result(String)
ListCall_nb          == Call("compute_list", ListArgs_nb, ListResult_nb)
ComputeProcessor_nb  == {Call("computed_value", ValueArgs_nb, ValueResult_nb),
                         Call("compute_list", ListArgs_nb, ListResult_nb)}

ValueArgs_tp         == << I32, I32 >>
ValueResult_tp       == NoFields
ListArgs_tp          == << List >>
ListResult_tp        == Result(String)
ListCall_tp          == Call("compute_list", ListArgs_tp, ListResult_tp)
ComputeProcessor_tp  == {Call("computed_value", ValueArgs_tp, ValueResult_tp),
                         Call("compute_list", ListArgs_tp, ListResult_tp)}
=============================================================================
