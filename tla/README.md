# Formal models of the Apache Thrift benchmark services

TLA+ models, model-checking runs and machine-checked proofs for the services in
`src/`. Source paths below are relative to `src/`; `uniqueid_server.cpp` without
a directory is `DSBUniqueIDService/tthreadedserver/uniqueid_server.cpp`.

## 1. The system

The repository holds small Thrift services, each built on several server types
(thread per connection, thread pool, non-blocking), with REST proxies and load
generators in front of them to measure latency. There are no unit tests.

| part | state | operations | talks to |
|---|---|---|---|
| **Unique-id handler** (six servers under `DSBUniqueIDService`, `DSBUniqueIDAsyncService`) | the statics `CURRENT_TIMESTAMP`, `counter`, shared by all threads; locals of each call | `compute_unique_id`, `get_counter`; `exit()` | stubs above it, the system clock |
| **Id format and machine id** (same files) | strings of a call | padding, `stoul`, mask; `GetMachineId`, `HashMacAddressPid` | ioctls of the host |
| **Pool event handler** (`*/server_event_handler.cpp`: both unique-id pools, echo pool, ML pool) | `t_min`, `t_max`; the `ThreadManager` it resizes | `createContext`, `deleteContext` | ThreadManager, queue of connections |
| **RPC stubs** (`gen-cpp`) | one connection; sequence ids of the concurrent client | `send_`/`recv_`, `dispatchCall`, `process_` | transport |
| **REST proxies** (`uniqueid_client.cpp`, `hello_client.cpp`, `compute_client.cpp`, ...) | a connection per request (unique id) or one shared for ever (echo, ML) | `onRequest` | stubs |
| **Workload generators** (`uniqueid_client_1.cpp`, `compute_client_1.cpp`, `LoadGenerator/loadgen.cpp`, `echo_client.cpp`) | a connection and counts of rounds, calls and answers in each thread | `run_workload_gen` | stubs |
| **One-call and interactive clients** (`uniqueid_async_client.cpp`, `async_compute_client.cpp`, `echonb_client.cpp`, `echo_tpclient.cpp`, `dump/`) | a connection | `main` | stubs, stdin |
| **Trade history, message server** (`dump/`) | `con_count`, `con_id`, `call_count` | `get_last_sale`, `motd`, shutdown on `q` | stdin, stubs |
| **Hindsight echo** (`EchoServerHindsight`) | the tracing library's buffers | `call`: begin, tracepoint, trigger, end | Hindsight agent, supervisor |
| **ML inference** (`MLInfer`) | none of its own | `compute_list` and its error path | libtorch |
| **Echo servers** (`EchoService`, `AsyncEchoServer`) | none | a constant answer | stubs |
| **nginx proxy** (`nginx-openresty`) | a pool of connections | `HelloWorld` | Thrift's Lua library |
| **Deployment** (`docker-compose` files) | published ports | | the servers in the containers |

A request reaches a unique-id server through a proxy or a generator, a client
stub, a connection, and the processor, which runs the handler in the thread the
server type has chosen: one per connection, a pool worker that keeps the
connection until it is closed, or one of four (eight) workers of the
non-blocking server, which serve all connections.

What is hard here, and therefore what the properties are about:

* **Interleaving.** `compute_unique_id` locks a `std::mutex` that is a local
  variable (`uniqueid_server.cpp:128`): no two calls ever lock the same one. The
  hooks of the pool handler read the pool's counts and then act on them.
* **Clock.** `system_clock` may be set back and may read a time before
  `CUSTOM_EPOCH`; two calls of one millisecond are told apart by `counter` alone.
* **Failure.** `get_counter` ends the process. The statics are lost. A failed
  `GetMachineId` goes unnoticed. Clients see their server go and come back, some
  with a connection they keep, most with no `catch`.
* **Agreement.** Client and server are separate programs, each built with its own
  copy of the generated code, its own port number, framing and encoding.
* **Boundaries.** The fields of an id are cut to 3 + 10 + 3 hexadecimal digits,
  and a mask takes the top bit.
* **Undefined behaviour.** `HashMacAddressPid` reads behind the end of a string.
* **Progress.** `addWorker` and `removeWorker` wait, called from the pool's own
  workers.

What makes each part correct: ids of a process differ, and those of its next
incarnation too; the process exits only because of the clock; the number is the
three fields and nothing else; the pool stays between its bounds, and a worker
takes every connection unless clients that stay hold them all, or it hangs. A call is run at most once, only by the service
that was meant and with the arguments that were sent, and returns only if it was
run (stubs, all clients); it comes back whatever the server does; a failure has a
reason (proxies); a generator that ends has made all its calls and counted what
it was answered (generators); no call of a connection is told the same number
twice, no message is told twice in a row (trade history, messages).

## 2. Modules

| module | models | notes |
|---|---|---|
| `IdFields` | the three fields of an id as numbers | constants `MachMod`, `TsMod`, `CtrMod` are 16^3, 16^10, 16^3 in the code |
| `UniqueID` | one server process: handler threads, statics, clock, exit, kill, restart | the core |
| `IdGenerator` | abstract: an atomic generator of increasing pairs | refined by `UniqueID` with serial calls |
| `UniqueIDInv` | inductive invariants; the refinement mapping to `IdGenerator` | checked by runs, used by the proofs |
| `UniqueIDProofs` | theorems about `UniqueID` | checked by TLAPS |
| `Hex`, `MachineId`, `IdFormat` | digit strings; `GetMachineId`; the statements that make the number | `IdFormat` runs `MachineId` between its own statements, as the call does |
| `HexProofs` | lemmas on numbers and recursive functions; what strings of digits are worth | checked by TLAPS |
| `IdFormatProofs` | theorems about `MachineId` and `IdFormat` | checked by TLAPS |
| `ThreadPool` | `PoolSvrEvtHandler`, the ThreadManager and the queue | |
| `ThreadPoolProofs` | theorems about `ThreadPool` | checked by TLAPS |
| `RpcContract` | abstract: what remote calls over one connection promise | refined by `RpcStubs` |
| `RpcStubs` | the generated concurrent client, the processor and the connection between them | |
| `RpcStubsProofs` | theorems about `RpcStubs`, and that it implements `RpcContract` | checked by TLAPS |
| `Wire` | what the generated `read` and `write` of a struct do | fields by id and type; others skipped; a schema is the sequence of the types of fields 1, 2, ..., or `Result`, the field 0 alone |
| `Services` | the generated code of each service, copy by copy: structs, calls, processors | data for `Exchange` |
| `Programs` | every server and client program: port, transport, protocol, call, loop, what it catches; published ports | data for `Exchange` |
| `Exchange` | a client program and a server program at the two ends of a connection, with the server's end and restart | composes the three above |
| `ProgramsProofs` | theorems about the data: copies of generated code, structs, pairs of programs | checked by TLAPS |
| `ExchangeProofs` | theorems about `Exchange` | checked by TLAPS |
| `Sessions` | the servers whose handler factories count connections and calls | |
| `SessionsProofs` | theorems about `Sessions` | checked by TLAPS |
| `MC*` | instances for TLC | small inputs, symmetry, the refinement mapping |

### UniqueID and the code

| action | code (`uniqueid_server.cpp`) |
|---|---|
| `Enter` | 120-130, a call up to `thread_lock.lock()`, which cannot block |
| `ReadClock` | 132-134, `timestamp` |
| `Check` | 39, `CURRENT_TIMESTAMP > timestamp`, to `exit` |
| `Compare` | 43, the second load of `CURRENT_TIMESTAMP` |
| `SetTime`, `Zero` | 46, 47 |
| `Load`, `Store` | 44 or 48, `counter++` |
| `Return` | 135-170, unlock, format, answer |
| `ExitProcess` | 41; other threads go on until the process is gone |
| `Kill`, `Restart`, `Tick`, `SetBack` | the environment: container stopped and started, clock |

The Makefiles pass no optimisation flag, so every access to a static is its own
load or store, and each is one step. The store buffers of an x86 processor add
no outcome: `lock()` and `unlock()`, though they make nobody wait, are locked
instructions and drain them; in between, a call loads from memory only before its
first store, and the load that follows its own `counter = 0` reads that store.
Taking each store at the moment it drains, and that load right after it, gives an
interleaving of the model. Each thread's locals `timestamp` and `counter_value` are
functions of the thread. `issued`, `raced` and `overtaken` are history variables:
the answers given, whether two calls were ever between `lock()` and `unlock()`
together, and the threads whose timestamp another call's store has passed since
their own check.

The six servers have the same handler text; they differ in how many threads run
it, the constant `Threads`. The oneway servers compute the id and drop it, which
is `Return` with an answer nobody reads. `SerialCalls` is the deployment in which
the only client is a REST proxy: its `Http::Endpoint` is initialised without
options (`uniqueid_client.cpp:90`), hence with one thread, and it waits for each
answer. `GetMachineId` runs anew in every call and may come to another result
each time (see below), so `Return` takes any machine id, or none.

### MachineId and IdFormat

One action per turn of the interface loop and per statement of the conversion.
Strings are sequences of digits, characters are their signed codes.
`HashMacAddressPid` is modelled as it is written: the loop runs over the length
of `mac_pid` but adds `mac[i]`, that is the address, its terminating zero, and
then bytes of the string's own buffer that were never written. Their values are
the variable `stack`, chosen freely.

### ThreadPool and the code

`createContext` and `deleteContext` (`server_event_handler.cpp:32-52`) are split
at every call of the ThreadManager, since each takes and releases its monitor.
`addWorker` and `removeWorker` are two steps: the limit changes (`AddWorker`,
`RemoveWorker`); the caller goes on when the count of workers equals the limit, at
once or after it has slept (`Added`, `Removed`). The step that makes count and
limit equal, a thread's start or end, notifies one of the sleepers (`Notify`,
`woken`), which sleeps on if they differ again when it gets to run (`SleepOn`).
The two operands of `>=` on line 46 are evaluated in an order C++ leaves open; the
model takes left to right. The ThreadManager is library code: its actions
(`Accept`, `Add`, `Take`, `Wait`, `Retire`, `Start`, `SleepOn`) follow the contract
in Thrift's documentation and are marked external. `Close` is the client's; those
that may never take it have their connections in `Staying`. `overlap` is a history variable: two hooks ran at the same time. The
texts of `stats` and the call count of `processContext` are left out.

### RpcStubs and the code

`UniqueIDConcurrentClient` (`DSBUniqueIDService/tthreadedserver/gen-cpp/UniqueID.cpp:336-418`)
lets threads share a connection. One action stands for each call it makes of the
library's sync object, and for each read of the connection: `GenerateSeqId`,
`LockWrite`, `Write` or `WriteFails` (a send); `LockRead`, `GetPending`,
`ReadMessageBegin`, `Receive`, `UpdatePending`, `WaitForWork` (a receive); the
`...Throws` actions are the exits without `commit`. `frame` is the message whose
header was read and whose body was not, possibly by another thread. `Serve` is
`dispatchCall` with `process_compute_unique_id`: the handler's result or its
exception. The processor writes only replies and exceptions, under the name of
the request, so the client's branches for other messages are never taken and
have no action. Nor has an exception of `Receive` while it reads the body: a frame
is in memory as a whole once its header was read. The sync object is the Thrift library's and is external:
mutexes, monitors whose wait releases the read mutex, notifications that are lost
on a thread that does not wait.

### Exchange and the code

One module for every pair of programs, since all clients are made of the same
parts: open, send, receive, a loop around them, and `catch` blocks around some of
it. What differs is data, and is in `Programs`, one definition for each program.
`Init` chooses the pair among those that meet on a port: on one host the server
that listens where the client dials (`OnOneHost`), and what a docker-compose file
publishes there (`Published`; `reached` is FALSE when nobody listens on the
published port of the container, which is the case for two echo servers).

| action | code |
|---|---|
| `Request` | `onRequest` begins (`DSBUniqueIDService/nonblocking/uniqueid_client.cpp:58`) |
| `Prompt` | `getline` in the interactive clients (`dump/nonblocking/nb_client.cpp:39`) |
| `Head`, `NextCall` | the two loops of `run_workload_gen` (`DSBUniqueIDService/tthreadedserver/uniqueid_client_1.cpp:56-80`) |
| `Connect` | `open()`, for a transport that is not open |
| `Send`, `SendThrows` | `send_compute_unique_id` (`DSBUniqueIDService/nonblocking/gen-cpp/UniqueID.cpp:204-216`) |
| `Receive`, `ReceiveThrows` | `recv_compute_unique_id` (218-254) |
| `UnknownMethod` | `dispatchCall` of a name that is not in `processMap_` (256-270) |
| `Process` | `process_compute_unique_id` (275-327) |
| `Refuse`, `Crash`, `Start` | library and environment |

`Fail` is what an exception does: uncaught, it leaves `main` or a thread's
function and `std::terminate` ends the process with all its threads; in a proxy
the HTTP library answers 500 and goes on. `conn` is what the client's transport
says of itself: after the server's end it is `broken`, still open for `isOpen()`.
Whether a failed write closes the socket differs between versions of the Thrift
library, so `closes` is chosen in `Init`. A published port may take a connection
and close it (docker's proxy), or refuse it. The plain client ignores the
sequence id of an answer, so messages carry none.

`call` is a history of each thread's call: how often a handler ran it, with which
arguments, how it came back, and whether its connection was stale from the
beginning or the server was in trouble meanwhile.

An endpoint initialised without options has one thread, so a proxy handles one
request at a time (`Threads` is used for generators only).

### Sessions and the code

`Accept` is `getHandler` with `++con_count`, `Call` is `get_last_sale` or `motd`,
`Release` is `releaseHandler`, `Stop` the end of the server and `Start` a new run.
`con_count` has no lock and needs none: both server types call the factory on the
thread that accepts. `call_count` has none either: a connection has one thread
(thread per connection), or is handed to a worker one message at a time
(non-blocking). `seq_num` is computed in `int`, taken to wrap as the build's
machine does; `motd` in `unsigned int`.

## 3. Runs

| run | instance | shows |
|---|---|---|
| `uniqueid_races` | 2 threads, 3 calls, clock -2..0, one set-back, one restart, 2 values of the counter field | types; ids differ and exits are justified while calls do not overlap; when they do, only an overtaken call sets `CURRENT_TIMESTAMP` back; ids differ across a restart; the inductive invariant `HandlerInv` holds |
| `uniqueid_serial` | 2 threads, 3 serial calls, clock -2..2, 2 values of the counter field, restart at once | ids always differ, the process exits only for the clock, and the service implements `IdGenerator`; `GInv`, which that rests on |
| `uniqueid_duplicates` | 2 threads | **violation**: one id twice |
| `uniqueid_exit` | 2 threads, clock never set back | **violation**: the server exits all the same |
| `idformat_fields` | hexadecimal, fields of 3 + 1 + 2 digits, hosts of up to 2 interfaces | `GetMachineId` and the number against definitions without loops or strings; order of ids |
| `machineid_pid` | the same | **violation**: the hash is not that of address and pid |
| `pool_bounds` | up to 5 threads, 4 connections, bounds 1..3, queue of 2 | the pool exceeds `t_max` by at most `t_max` - 2; it keeps its bounds and never hangs while hooks do not overlap; the inductive invariant `PInv` |
| `pool_live` | up to 3 threads, 4 connections, 2 of clients that may stay, bounds 1..2, fair | a worker takes every connection, unless as many as `t_max` are held by clients that stay, or the pool hangs |
| `pool_hang` | up to 4 threads, 3 connections, bounds 1..3, all clients close, fair | **violation**: two hooks that remove a worker each wait for one another |
| `rpc_shared` | 3 threads, 3 calls, answers in any order, a broken connection, fair | header and body stay together, nobody sleeps for ever, the stubs implement `RpcContract`, every call comes back; the inductive invariant `StubInv`, types included |
| `exchange_pairs` | every pair of programs, 2 generator threads, up to 2 rounds of 2 calls, one end of the server and any number of starts, fair | `AtMostOnce`, `ReturnedWasRun`, `FailuresExplained`, `QuietWhenIdle`, `CountsAnswers`, `EndedMeansAllCalls`; `StaleForEver`; the inductive invariant `ExchangeInv`; every call comes back, and every generator ends but the one that does not count |
| `sessions_numbers` | 2 clients, 3 connections of up to 5 calls, 2 runs of the server, stride 2, int of 4 bits, unsigned of 2 bits | who is told a number twice; messages change; the inductive invariant |

Bounds and why they are enough:

* Two calls overlapping are enough for every race on the statics; what a third
  thread adds is covered by the proofs, which hold for any set of threads.
* The clock range has a value below the initial `CURRENT_TIMESTAMP` (-1), an
  equal one, and later ones; `MaxBack` = 1 already makes the code exit.
* `CtrMod` is smaller than the number of calls, so counters run over their
  field. `TsMod` exceeds the clock range, as 16^10 ms (34 years) exceeds the
  life of the service; `ServiceAssumption` says so.
* `Workers` and `Conns` are permuted in `pool_bounds`, which checks invariants only.
* In `pool_live` two clients that stay are as many as `t_max` allows workers, so
  both exceptions of `EveryConnectionTaken` occur, and so does the pool that has
  to grow for a third connection while one client stays.
* Digit strings: `IdFormat` needs only that the three fields fill the word and
  the base is even, so that the mask hits the machine field; 6 digits keep TLC
  within 32 bits, and the proofs hold for any number.
* Three threads are one that reads, one whose answer arrives and one that is
  still sending, the case in which a notification can be lost.
* `t_max` = 3 is the smallest pool in which two hooks can pass a test meant for
  one. The code's (1,8) and (1,4) differ in size only; the echo pool starts with
  two workers and (2,4).
* In `exchange_pairs` two threads show what the failure of one does to another;
  two rounds of two calls show a count kept from the last round and a call left
  over from the last call; 0 rounds is a case of its own. One end of the server
  with a restart is enough to leave a stale connection behind; a second finds the
  same states again. All 16 servers and 21 clients are in one run, so that a
  client also meets the wrong server.
* In `sessions_numbers` every limit is lower than what the calls reach: 5 calls
  overrun the stride twice, the numbers of the third connection and some of the
  second do not fit, the index wraps at 4, which like 2^32 leaves 1 modulo 3. The
  history is cut at 6 answers.

Deadlock is not checked (`CHECK_DEADLOCK FALSE`): the calls of a run are
bounded, nobody restarts a process that has exited, and clients do stop.

Fairness: `UniqueID` has none, its properties are safety. In `ThreadPool` each
worker that does not sleep and the accepting thread run, because the operating
system schedules runnable threads. A worker serves one connection as long as it is
open. The generators, the one-call clients and the proxies that open a connection
for each request close it or exit, so theirs are closed in the end; the proxy of
the ML pool (`MLInfer/threadpool/compute_client.cpp:52-61`) keeps one for ever, and
the connections in `Staying` may or may not be closed. In `RpcStubs` threads run and the server runs what it was
sent, unless the connection breaks; that it breaks is never assumed. Calls are
bounded there, so a thread cannot be kept from a mutex for ever, which with
endless calls the system's mutexes would have to guarantee.
In `Exchange` the threads of the client run, and a server runs what it was sent,
except a pool server: there a call may wait for ever (`pool_hang`), so
`EveryCallEnds` and `GeneratorsEnd` exclude them. No fairness is assumed of
requests, input, the server's end or its restart, so a call also comes back when
the server stays down.

## 4. Findings

* **Duplicate ids** (`uniqueid_duplicates`): the local mutex protects nothing,
  and two calls of one millisecond load the same counter.
* **Exit without reason** (`uniqueid_exit`): a thread that read the clock before
  another one stored a later `CURRENT_TIMESTAMP` ends the server with
  "Timestamps are not incremental."
* **The pid is not hashed** (`machineid_pid`): `mac_pid` is built, and `mac[i]`
  added. Two processes of a host share a machine id, or have one that changes
  with what the stack holds.
* **A pool that hangs** (`pool_hang`): tests of the counts and the change they
  lead to are not one step, and `removeWorker` waits, in a worker, for another
  worker to retire. Two of them wait for one another.

What the passing runs establish and a reader may not expect:

* `CURRENT_TIMESTAMP` can run backward though the clock does not: a call that
  passed the check and was overtaken stores its earlier timestamp over the later
  one, since line 43 loads the static again but only asks whether the two are
  equal. `LoweredOnlyByOvertaken` says that this is the only way.
* The pool may outgrow `t_max`: two hooks that both read a count below it both
  add a worker. `OvershootBounded` gives the bound, at most `t_max` - 2 above
  it (4 workers for `t_max` = 3), and `UnoverlappedBounds` says that it takes an
  overlap.
* A proxy that keeps its connection never recovers from a restart of its server
  when the library leaves the socket open after a failed write (`StaleForEver`).
  The proxies that open one for each request do (`FailuresExplained`).
* One exception ends a whole generator: `EndedMeansAllCalls` holds only without
  `aborted`.
* The generators that count their rounds end, whatever the server does. The
  Hindsight generator compares `counter` with `seconds` and never increments it
  (`echo_client.cpp:33`): asked for one second or more it begins round after round
  until a failure aborts it (`GeneratorsEnd`). A negative number of seconds, which would keep any of them
  going until the count wraps, is not among the arguments of the model.
* The generator of the thread-per-connection UniqueID service dials 3046, where
  the echo servers listen; its calls fail there with an exception.
* Two published ports of `EchoService/docker-compose.yaml` (11, 17) lead to the
  ports 3047 and 3048 of containers whose servers listen on 3048
  (`echonb_server.cpp:54`) and 3047 (`echo_tpserver.cpp:54`).
* The 10001st call of a trade connection repeats a number of the next one
  (`RepeatsExplained`).

## 5. Proofs

A theorem holds for every value of the constants; a run shows the same formula on
a small instance first. Each proof has an inductive invariant, which a run checks
too, and one step or lemma for each action. (The invariants of `GetMachineId` and
of the digit strings, `MachineInv` and `FormatInv`, are in no run: the run checks
the properties that follow from them.)

### UniqueID

`UniqueIDProofs` is about every set of threads, every range and behaviour of the
clock, every number of calls and restarts, under `FieldAssumption` (the fields
are not empty) and `ServiceAssumption` (constants have their types; no timestamp
reaches the size of its field).

| theorem | establishes |
|---|---|
| `TypeCorrect` | `Spec => []TypeOK` |
| `HandlerInvariant` | `Spec => []HandlerInv` |
| `UnracedUniqueness` | `Spec => []UnracedUniqueIds` |
| `UnracedExits` | `Spec => []UnracedExitOnlyOnSetBack` |
| `OvertakenLower` | `Spec => LoweredOnlyByOvertaken` |
| `RestartUniqueness` | `Spec => []UniqueAcrossRestarts` |
| `SerialUniqueness` | `SerialCalls` implies `Spec => []UniqueIds` |
| `SerialExits` | `SerialCalls` implies `Spec => []ExitOnlyOnSetBack` |
| `GeneratorInvariant` | `Spec => []GInv` |
| `SerialGenerator` | `SerialCalls` implies `Spec => IncreasingPairs` |

None of the properties is inductive: that two answers differ says nothing of the
counters still held by threads, or of the statics the next call will use. The
strengthening `HandlerInv` has four parts. `UInv` says that while no race has
happened

* at most one thread is between lock and unlock (`OneOwner`), and it alone has
  unfinished business with the statics;
* every pair (timestamp, counter) handed out so far, in an answer or held by a
  thread about to compose one, is *past*: below the pair the statics stand for,
  taking into account the stores the owner has yet to make;
* held pairs differ from each other and from the answers, and answers differ.

A pair that is past can never be taken again: the check lets only later
timestamps through, and `counter++` moves the statics past the pair it returns.
`UnracedUniqueIds` follows because `Fields` is injective on timestamps within
their field and counters that have not wrapped; `TsMod` and `MaxClock` enter
here. `OInv` says what is left of the check when calls overlap: a call between
check and store that nobody has overtaken is not behind `CURRENT_TIMESTAMP`
(`NotOvertaken`), and without a race nobody is overtaken. Since the store in
`SetTime` is the only step of a process that moves `CURRENT_TIMESTAMP`
(`StampsAndChecks`), `LoweredOnlyByOvertaken` follows. `EInv` adds that as long as
the clock was never set back, `CURRENT_TIMESTAMP` and all timestamps are at most
the clock and the owner's is at least `CURRENT_TIMESTAMP`. `RInv` adds that every answer of an earlier process
has a timestamp of at most `downAt`, and every timestamp of this one exceeds it
when a restart takes a millisecond. `SInv`: with serial calls at most one thread
is busy, so nothing ever races.

`SerialGenerator` maps `alive` to `up` and `given` to the pairs of the answers of
the running process. `Return` is the generator's `Give`: the pair held is later
than all given (`HeldLater` of `GInv`, from `UInv`), and it is one the generator
may give (`CountersBounded`, `StampsRead`). `ExitProcess` and `Kill` are `Stop`,
`Restart` is `Begin`, every other step leaves both as they are.

### Digit strings, MachineId and IdFormat

`HexProofs` and `IdFormatProofs` are about every base and number of digits, every
host, pid and stack, every set of clock values and counters. Assumed are the
shapes the code gives them:

* `MachineAssumption`: the digits kept are digits of the 16-bit hash, that is,
  256 * 256 is a multiple of 16^3;
* `HostsAssumption`, `StackAssumption`: addresses and pids are not empty, and
  memory goes on behind a string for as long as a pid;
* `FormatAssumption`: three fields fill a word, and the base is even, so that the
  mask halves the machine field and nothing else.

| theorem | establishes |
|---|---|
| `HexRoundTrip` | `ToHex(n)` is a string of digits no longer than a word, and `FromHex` of it is `n % Word` |
| `FitToCuts` | `FitTo` leaves the width asked for, and the remainder by that power of the base |
| `FirstAddressFound` | `Spec => []LoopInv`: `mac` is `FirstAddress` when the hash is made |
| `MachineIdFound` | `Spec => []MachineIdDefined` |
| `FormatImplementsMachine` | `FormatSpec => Spec`, the specification of `MachineId` |
| `FormatMachineId` | `FormatSpec => []MachineIdDefined` |
| `SameIdSameFields` | two numbers are equal exactly when their `Fields` are |
| `IdsHaveTheirFields` | `FormatSpec => []IdIsItsFields` |
| `IdsGrow` | `FormatSpec => []IdsAreOrdered` |

*Induction.* What a recursive definition computes is proved position by position.
The library's induction theorems take an operator, which the provers cannot
instantiate; `UpTo` says the same of a set: with 0, and with k whenever it has
k - 1, a set has all of 0..n, since the numbers it lacked would have a least one
(`LeastNumber`, from the well-foundedness of <). A recursive function is what its
equation says only if some function solves it: `Recursion`, by the same induction.
So `Power`, `FromHex`, `SumAt` and `HashMacAddressPid` each get a lemma that says
what their values are (`PowerDef`, `FromHexDef`, `SumAtDef`, `HashIsSum`).

*Numbers.* A string of n digits is below the n-th power (`FromHexRange`), and one
behind another moves it to the left (`FromHexConcat`). The beginnings of
`ToHex(n)` are worth n divided by smaller and smaller powers, which is
`HexRoundTrip`; cutting a string in two is division by a power, which is
`FitToCuts`. Together they give a field: `FitTo(ToHex(n), width)` is worth
n % `Power[width]` (`FieldOf`). The three fields and the mask are `NumberRead`.

*The machine id.* The loop passes no usable interface (`LoopInv`), and an address
makes an empty string exactly when its first byte is zero (`EmptyString`). The
16-bit loop of `HashMacAddressPid` is the sum of the characters at odd places and
256 times that at even ones (`HashIsSum`). A pid of one digit makes it read one
character behind the address, the zero that ends it, which adds nothing
(`SumAtZero`): whatever the stack holds, such a process has the machine id of its
first usable address. That is half of `MachineIdDefined`.

*Invariants.* None of the three properties says anything before the end of a call,
so none is inductive. `MachineInv` adds to `LoopInv` that a result is the digits
of the hash. `FormatInv` adds that each string is `Missing` or the field of its
number, that `GetMachineId` starts only when both are made, and that a number is
composed of what the three strings are then, and still are.

`SameIdSameFields` is what `UniqueID` rests on: it lets answers differ when their
`Fields` do.

### ThreadPool

`ThreadPoolProofs` is about every set of workers and connections, every capacity
of the queue and every pair of bounds, under `PoolAssumption`.

| theorem | establishes |
|---|---|
| `PoolInvariant` | `Spec => []PInv` |
| `PoolTypeCorrect` | `Spec => []TypeOK` |
| `PoolUnoverlappedBounds` | `Spec => []UnoverlappedBounds` |
| `PoolOvershootBounded` | `Spec => []OvershootBounded` |
| `PoolHangNeedsOverlap` | `Spec => []HangNeedsOverlap` |

How far the count may run past the bound depends on calls that are under way.
`LimitApproached` accounts for them: limit and count differ by no more than the
workers that wait in `addWorker` or `removeWorker` have asked for; `AddsBounded`
counts those that have passed the test and will still raise the limit. For
connections, `ConnsAccepted` ties what workers hold to what was accepted. While
no hooks have overlapped, `Alone` holds: one hook at a time, one thread at most
being started, a test still true when its worker acts on it, and limit and count
equal but for that one change. That such a pool does not hang needs two facts
more. `Notified`: nobody sleeps when limit and count are equal, since the step
that made them equal woke the one sleeper there is. `IdleLeft`: a hook that is to
remove a worker has seen an idle one, which is idle still, as nobody else's hook
runs, or is the one that retires; so somebody is left to make them equal. Clients
that stay play no part in it: a worker with one is neither asleep nor idle.

### RpcStubs

`RpcStubsProofs` is about every set of threads and every number of calls, under
`StubAssumption`.

| theorem | establishes |
|---|---|
| `StubInvariant` | `Spec => []StubInv` |
| `StubTypeCorrect` | `Spec => []TypeOK` |
| `StubStreamInStep` | `Spec => []StreamInStep` |
| `StubNobodySleepsAlone` | `Spec => []NobodySleepsAlone` |
| `StubsKeepContract` | `Spec => CallsKeepContract` |

`StubInv` says that a call belongs to the one thread that makes it
(`CallsOwned`), who reads holds the mutex (`ReadersHold`), a message is in one
place, as a request, a reply or the body that is left (`OnePlace`), and somebody
is there to come for it (`Expected`), a header goes with its body from hand to
hand (`HandedOver`), and whenever calls are under way somebody goes on by himself
or was called and will find what he was called for (`SomebodyGoes`). The last is
what a lost notification would break; that the sentry has somebody to call rests
on a set of numbers having a largest one (`LastExists`). In the refinement
`GenerateSeqId` is the contract's begin, `Serve` its run, `Receive` its return
with the answer of that run, the `...Throws` steps its failure.

### Programs and Exchange

`ProgramsProofs` is about the data.

* `CopiesAgree`, `ProcessorsAgree`: the copies of a service's generated code have
  the same calls.
* `RoundTrip`: `read` of a schema reads what `write` of it has written.
* `PairsAgree`: where programs meet on one host or on a published port, a method
  that has the name of the client's call is that call. `compute_unique_id` is the
  name of two methods, one of them oneway; only their ports keep them apart.

`ExchangeProofs` is about every set of pairs of programs, every set of threads,
every number of rounds, calls and ends of the server, under `ExchangeAssumption`
(the pairs are of programs of the repository; at least one thread, one call in a
round).

| theorem | establishes |
|---|---|
| `ExchangeInvariant` | `Spec => []ExchangeInv` |
| `ExchangeTypeCorrect` | `Spec => []TypeOK` |
| `CallsRunAtMostOnce` | `Spec => []AtMostOnce` |
| `NothingIsLeft` | `Spec => []QuietWhenIdle` |
| `FailuresHaveReasons` | `Spec => []FailuresExplained` |
| `AnswersCounted` | `Spec => []CountsAnswers` |
| `GeneratorsFinish` | `Spec => []EndedMeansAllCalls` |
| `OnlyTheMeantRuns` | `Deployments \subseteq OnOneHost \cup Published` implies `Spec => []ReturnedWasRun` |
| `StaysStuck` | `Spec => StaleForEver` |

That a call is run at most once needs to know what is on the connection:
`OnTheWire` says that it is the client's call, which nobody has run, or a reply
by a method of its name after the call was run, or an exception for which there
is a reason. `Pending` says that a call that is being made has not come back, and
was not run before it was sent. `Reasons` collects why a call may fail before it
does: as long as one is being made, a server that is down or a broken connection
is known as `trouble`, as `stale`, or as a pair that does not fit. `Rounds` says that a generator in a
call has calls left and has made `counter * reqps + made` of them, so that its
end comes with `seconds * reqps`. The counts of answers rest on `RepliesRead`: a
reply that a client gets is one it can read and one it counts.

The invariant is split by thread (`ByThread`), since a step of one thread leaves
the others as they are (`Untouched`); the ends of the server and of an aborted
client are the two that touch all. `OnlyTheMeantRuns` needs, besides, `PairsAgree`
and `RoundTrip`, and the assumption that programs meet only where the sources and
the docker-compose files make them meet: a proxy of the unique-id service at a
port of its oneway version would have its call run by the wrong handler.

### Sessions

`SessionsProofs` is about every set of clients, every stride, width and bound,
under `SessionsAssumption` (constants are natural numbers, widths and stride
positive).

| theorem | establishes |
|---|---|
| `SessionsInvariant` | `Spec => []SInv` |
| `SessionsTypeCorrect` | `Spec => []TypeOK` |
| `SessionsCallsAreTold` | `Spec => []CallsAreTold` |
| `SessionsRepeatsExplained` | `Spec => []RepeatsExplained` |
| `SessionsMessageChanges` | `Spec => []MessageChanges` |

That no call is told twice is not inductive either: it says nothing of the
handlers that will give the next answers. `SInv` adds that connected clients
have handlers with different numbers, all counted by the factory
(`HandlersDiffer`, `HandlersCounted`), and that no answer of this run is ahead of
the factory, or of the handler with its number (`AnswersCounted`), so the next
call of a handler is new. `AnswersCounted` also says of every answer which two
numbers it was made of; with that, `RepeatsExplained` is arithmetic on one state:
two numbers c*S + n and d*S + m with c < d are equal only if n > S (`Overrun`,
from `StrideSeparates`), and `Int32` changes no number that fits (`Int32Fits`).
`MessageChanges` is `NextIndex`: without a wrap, consecutive indices differ
modulo three.

### Model-checked only

Liveness under fairness (`EveryConnectionTaken`, `EveryCallReturns`,
`EveryCallEnds`, `GeneratorsEnd`) needs ENABLED, which is out
of the prover's reach. Every invariant and action property of the passing runs has
a theorem. The violations of section 4 are behaviours, shown by TLC only.

## 6. Not modelled

* The tracing library of the Hindsight server and the agent it starts are not in
  the repository; its four calls return nothing to the handler.
* The connection pool of the nginx proxy (`GenericObjectPool`) is not in the
  repository; what the proxy does with a connection is.
* Libtorch's computation; the handler is one that answers or throws.
* `LoadGenerator/loadgen.cpp` does not compile (`client` and `trans` are not
  declared where they are used), so its generated copy has no program. The same
  holds of the older `uniqueid.cpp` beside the UniqueID stubs.
* In the generated code: the event handler hooks of the processors (none is set),
  `Multiface`, the `Null` services, skeletons, `printTo`, `swap`, the copies of the
  concurrent client in the other directories, `ComputeClient::computed_value`
  (nobody calls it), and the Lua server.
* A peer that stays connected and never answers: no client sets a timeout, so such
  a call does not end. The one case the models have is a pool server, which
  `EveryCallEnds` leaves out (see `EveryConnectionTaken` for when it occurs).
* The threads inside the non-blocking server: that calls of one connection do not
  overlap is its contract.
* At the end of its input an interactive client calls for ever; the model leaves
  every line of input open, so this is one of its behaviours and not singled out.
* The request ids of the Hindsight generator (`std::rand`, unseeded).
* Pistache, Boost logging and the text of output.

## 7. Plan

Done: the unique-id service, ids, the pool, the stubs, all pairs of programs, the
counting servers; proofs of every safety invariant and action property that the
runs check, and of both refinements. Left, in order of importance:

1. `NonblockingServer`: IO threads and workers, composed with `UniqueID`'s calls.
2. The echo pool's configuration (2 workers, queue of 1, bounds 2..4) as an
   instance.
