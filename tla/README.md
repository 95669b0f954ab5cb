# LJHRPC in TLA+

LJHRPC is a C++ RPC framework: an RPC layer (`src/src/*.cc`: `RpcProvider`,
`JhrpcChannel`, `ZKClient`, the log queue) over a reactor network library in the
manner of muduo (`src/src/netlayer`: event loops, connections, a thread pool, a
server). This directory holds TLA+ models of it, TLC configurations that check
them on small instances, and TLAPS proofs of what can be proved for every
instance. `N/` below is `src/src/netlayer/`, `R/` is `src/src/`.

## 1. The system and its parts

| Component | State | Operations | Talks to |
|---|---|---|---|
| `EventLoop` (`N/EventLoop.cc`) | `looping_`, `quit_`, `callingPendingFunctors_`, `pendingFunctors_` under `mtx_`, the eventfd | `loop`, `runInLoop`, `queueInLoop`, `quit`, `doPendingFunctors` | any thread queues functors; the loop's thread runs them and the handlers of ready channels |
| `EpollPoller`, `Channel` (`N/EpollPoller.cc`, `N/Channel.cc`) | the channel table, the epoll set; per channel `events_`, `index_`, `revents_`, the weak `tie_` | `updateChannel`, `removeChannel`, `poll`, `handleEvent` | called only in the loop's thread |
| `TcpConnection` (`N/TcpConnection.cc`) | `state_`, `inputBuffer_`, `outputBuffer_`, its channel | `connectEstablished`, `connectDestroy`, the four handlers, `send`, `shutdown` | `send` and `shutdown` come from any thread, as functors if it is not the loop's; its close callback is `TcpServer::removeConnection` |
| `Buffer` (`N/Buffer.h`, `.cc`) | a vector and two indices | `append`, `retrieve`, `readFd`, `writeFd` | owned by one connection |
| `EventLoopThread`, `EventLoopThreadPool`, `Thread` | `loop_` under `mtx_` and a condition, `loops_`, `next_` | `start`, `startLoop`, `getNextLoop`, the destructors | start, hand out, quit and join the sub loops |
| `TcpServer`, `Acceptor`, `Socket` | `connections_`, `started_`, the listening channel | `start`, `newConnection`, `removeConnection`, `~TcpServer` | functors go to and fro between the base loop and the sub loops |
| `RpcProvider` (`R/rpcprovider.cc`) | the service map, a `TcpServer` with four sub loops | `NotifyService`, `Run`, `MessageRWCB`, `SendRpcResponse` | takes what one read gave for one whole request; answers, then shuts down |
| `JhrpcChannel`, `JhrpcController` (`R/jhRpcChannel.cc`) | per call a ZooKeeper session and a socket; failed flag and text | `CallMethod` | finds the provider in ZooKeeper, connects, sends, takes one `recv` |
| `ZKClient` (`R/zookeeperutil.cc`) | the session handle, a semaphore given to the watcher | `start`, `createNode`, `getData` | providers register services (permanent) and methods (ephemeral); callers read a method's address |
| `Logger`, `LogQueue` of the RPC layer (`R/logger.cc`, `include/logqueue.h`) | a queue with lock and condition, the shared level | `Log`, `PushLog`, `PopLog`, the writer thread | every thread logs; one detached thread writes the day's file |
| Generated protobuf code (`rpcheader.pb.*`, `example/user.pb.*`, `example/friend.pb.*`), example services | the fields of a message; tables of methods | parse, write, measure, clear; stubs and `CallMethod` by index; `Login`, `Register`, `GetFriendLists` | called by `CallMethod` and `MessageRWCB` on both ends |
| `JhrpcApplication`, `JhrpcConfig` | the configuration, read once | `Init`, `Load` | start-up only |

What is hard to get right here, and so what the properties are for (the full
list, each at its line, is `hazards` in `PROJECT.json`):

* **interleaving**: `queueInLoop` decides whether to write the eventfd after the
  lock is released; `quit()` sets the flag and wakes in two steps; `send` and
  `shutdown` of another thread test `state_` in one step and act in a later one;
  the end of a connection travels through two loops' queues;
* **ordering**: FIN and the bytes it must follow, partial writes, handlers in
  the order close, error, read, write, functors queued while others run,
  functors of a server that is going against the quit of the loops that would
  run them;
* **boundaries**: a write of nothing or of everything, a vector that is full, no
  descriptor left, more ready descriptors than the array of events holds;
* **staleness**: a list of `Channel*` filled before the handlers run, an address
  read before it is used, an ephemeral node of a session that is over, a file
  opened before the day changed;
* **progress**: a loop asleep on work, a `start()` or a `join()` that never
  returns, a connection nobody removes, a client nobody accepts.

What makes each component correct, in a line: the **loop** runs each functor
once, in order and promptly, and stops when told; the **connection** keeps
bytes whole and in order, sends FIN last, comes up, goes down and is removed
once, and keeps `index_`, `events_` and the epoll set in agreement; the
**buffer** is a queue of bytes of bounded size; the **pool** starts and ends all
its loops and spreads connections evenly; the **server** loses no connection and
no client; a **call** gets the reply to its own request or a failure; the
**registry** lists the providers that live; the **log** writes each message once,
under its own level and day.

## 2. The plan

In order of importance. All modules of the plan exist; the last column says what
is proved about each.

| Module | Composes | Abstract specification | Proofs |
|---|---|---|---|
| `EventLoop` | | `TaskQueue` | type, both wakeups, refinement |
| `TcpConnection` | the loop as a queue of batches, `Channel`, one entry of `EpollPoller`, the socket, the peer | `ConnectionLife` | type, `Registered`, `WatchesOutput`, `Untorn`, `FinAfterOutput`, `KeepsReply`, `NeverFatal`, a `shutdown()` is remembered, an end is seen, refinement |
| `EventLoopThreadPool` | `EventLoopThread`, `Thread`, the life of each loop | | type, `LoopsUsable`, `Balanced`, `NoneLeft`, `PointerValid`, no wait of `start()` or `join()` is in vain |
| `TcpServer` | the base loop, sub loops, `Acceptor`, the ends of connections | `ConnectionLife` | type, `Tracked`, a removal is neither lost nor doubled, a client is heard, refinement, which thread does what |
| `Buffer` | | `ByteQueue` | type, size, refinement |
| `RpcCall` | `JhrpcChannel::CallMethod`, `JhrpcController`, `RpcProvider::MessageRWCB`, `SendRpcResponse`, a stream that is cut anywhere | | type, `OneReply`, `WholeSuccessIsAnswer`, no wait in vain |
| `ServiceRegistry` | `ZKClient`, `RpcProvider::Run`, the lookup of `CallMethod`; sessions that are lost and expire, providers that end and are started again | `Directory` | type, `ParentFirst`, `ListedOrWarned`, `ConnectedServes`, no post is missed, refinement |
| `LogQueue` | the macros, `LogQueue`, the writer thread, days, the other `Logger` | `LogFile` | type, `LabelIsRecent`, `MisfiledOnce`, no message is lost, refinement |
| `EpollPoller` | several channels, descriptors that are used again, the kernel's set, the list of active channels | | type, `TableAgrees`, `ActiveAlive`, `NeverFatal` and what may break it, `SizeBounded`, input is heard |
| `DataPath`, `Messages`, `Codec` | generated code, stubs and services on both ends, `CallMethod` and `MessageRWCB` by contents | | only what is cut is dropped, a whole request is run as it was asked, the answer is the service's |

The plan is done but for what the prover cannot reach (end of section 5).

Each module is written to be proved about: constants with a named assumption,
one action per operation or handler, invariants as conjunctions, and, but for
`Codec`, no `RECURSIVE` operator. The theorems worth having are those that make
one module fit to be abstracted in the next: the loop is a queue, so `TcpConnection`
and `TcpServer` may use a queue; the buffer is a queue of bytes, so `TcpConnection`
may use a sequence; a channel's records agree over every reuse of a descriptor, so
`TcpConnection` may look at one entry.

## 3. The modules

Names are the source's wherever TLA+ allows; `map` in `PROJECT.json` gives the
lines behind every definition. Definitions with the comment `mutant` are
plausible wrong versions of the definition below them. They are used by no
specification: each shows that a property can fail, by making it fail when it
takes that definition's place.

**`EventLoop`**: `Callers` and the loop's own thread `Loop`, with `call[t]` for the
half of `queueInLoop` or `quit` a thread has still to do, and `at` for where the
loop's thread is: `idle` before `loop()`, `start` before `quit_ = false`, `check`
at the `while`, `poll` in `epoll_wait`, `handle` and `handler` around the
callbacks of active channels, `swap`, `run` and `functor` in `doPendingFunctors`,
`stopped`. A critical section of `mtx_` holds one access to the vector and is one
step. `epoll_wait` may return for the eventfd, for a connection, for both, or for
nothing (the 10 second timeout, EINTR). `isInLoopThread` compares with an id that
is 0 unless `tid()` had run in the thread that built the loop: `TidCached` says
which. `TaskQueue` is what the rest of the code believes: a functor is run once,
in the order of the queue. The mapping is `functors \o pendingFunctors_`, the rest
of the swapped vector and then the shared one.

**`TcpConnection`**: a connection with its `Channel`, its poller entry (`epoll` is
the kernel's side, `index_` the poller's), the socket and the peer. `tasks` is
the loop's queue, `batch` the functors of the running `doPendingFunctors`; they
are kept apart because a batch owns the `TcpConnectionPtr`s its functors are
bound to until it ends. A handler that calls the user is cut at the call: in
`up`, `message`, `closing`, `down`, `complete` and `completeTask` the callback
runs, and `sendHere` and `shutdownHere` may be taken there. Other threads' `send`
is `sendTest`, `sendQueue`; their `shutdown` is `shutdownTest`, `shutdownSet`,
`shutdownQueue`. `next` runs the bits of `revents_` in the code's order. A
message is `MsgLen` numbered bytes, so that a part of it, or of two mixed ones,
can be told apart. The peer sends, shuts its side, or resets; `soError` is the
pending `SO_ERROR` a reset leaves, and `raisesSigpipe` the write after it was
read. `exited` records `LOG_FATAL` and SIGPIPE, both of which end the process.
`ConnectionLife` is what the user sees: up once, down once, then gone. Where the server
leaves (`leaving`), a connection that was shut down may go without the second call.

**`EventLoopThreadPool`**: the owner's thread walks through `start()`, `getNextLoop`
and the destructor; each sub thread through `Thread::start`'s lambda, `threadFunc`,
`loop()` and its end. `alive` is the lifetime of the `EventLoop`, a local of
`threadFunc`. Its specification is `PoolSpec`, so that one module of proofs may
extend this one and `TcpServer`. The wait on the condition variable is `condWait`, from which only
`publish` (notify) or a spurious wakeup leads back.

**`TcpServer`**: base loop and sub loops as queues run in batches between two tests
of `quit_` (`quitOf[l]`); of a connection only its opening and its end. `baseTid` is chosen in
`Init`: a base loop that knows its thread runs `runInLoop` inline, one that does
not (the provider's, see section 7) queues. `fds` bounds the descriptors. A callback may
`shutdown` its connection, whose life is then `shut` (`state_` is `DisConnecting`):
`connectDestroy` reports `down` only for one that is `up`, and a `shut` one that is
destroyed with its server goes unreported.

**`Buffer`**: the object as a record; `append`, `retrieve` and `readvInto` are the
code's functions on it. `readvInto` is what `readv` into the writable part and
`extrabuf`, and the append of the overflow, leave. `ByteQueue` is the promise. The
contents of the vector outside the readable part are modelled too: a compaction
that moves the wrong range shows.

**`RpcCall`**: `CallMethod` walks through `lookup`, `connect`, `send` and `recv`, each
with its failing return; `arrives` is the read that fills the input buffer, and one
of `MessageThrows`, `MessageIgnored` and `MessageRWCB` what the dispatch makes of
it. A message is known by its length: a request is `SizeLen` units of size,
`HeaderLen` of header and `ArgsLen` of arguments. `takes` cuts the stream anywhere;
`Cuts` are the lengths at which a cut message still parses, field boundaries in
protobuf. A string that ends too early throws out of `substr`, which nothing
catches: the provider's process ends (`dies`) and its connections get a reset or
an end of file. The rest of a cut request goes through the same parse and lookup as a
request of its own: it throws, is ignored, or, if its contents happen to be a request,
is run, which may be a method that nobody called. An answer is a reply and then a FIN,
after which the connection is not `connected` and takes no further reply; `runs` and
`replies` count the two apart. `CallMethod` takes one `recv`. `ignored`, `first` and
`replies` are history, read by properties only.

**`ServiceRegistry`**: `at` is where the thread that calls the API is (`off`, `bound`,
`init` and `wait` in `start()`, `exists` and `create` in `createNode`, `listening`; `get`,
`connect`, `returned` of a caller), `session` what ZooKeeper knows of it. The
library's thread connects, loses and regains the session and calls
`global_watcher` with each change; `context` is what the handle gives it: nothing
yet, the semaphore of `start()`, or the place where that semaphore was. `zoo_exists`
and `zoo_create` are two steps with every answer between them, and each may fail.
`Placements` says which providers share a host and port, so that one may be the
restart of the other; `bind` waits for the port. `Directory` is what the framework
expects of ZooKeeper. The mapping reads the nodes of the methods, and counts a
provider as gone when its session is over.

**`LogQueue`**: a macro is `BeginLog` (`SetLogLevel`) and `Log` (`PushLog`), each by any
thread. The writer goes round `time`, `localtime`, `open`, `pop`, `wait` and `write`. `tm`
is the static buffer of `localtime`, which a message of the network layer, `netLog`, also
fills, in three steps of its own: `setLogLevel`, which may write this `logLevel`, since the
two classes `Logger` share the symbol of `GetInstance`; `TimeStamp_now`, which takes the
time; and `TstoString`, which calls `localtime` with it, perhaps on a later day. `since`,
`queuedOn` and `linesAt` are history: the levels set since a macro began, the day of a push,
how many lines there were at a `localtime` of the network layer. `LogFile` is a log in which each message comes out once and in
order; the mapping puts what the writer holds before the queue.

**`EpollPoller`**: channels are numbered like connections; a descriptor is given to a
new connection, lowest first as the kernel does, as soon as it is free. `channels`
is the poller's table, `epoll` the kernel's: a pointer and the events.
`poll(F)` reports at most `size` of the ready descriptors; `active` are the
channels whose `handleEvent` is still to run, `current` the one that runs, with
`revents_` the bits it has left. What a handler or functor does to the poller is
what the code of `TcpConnection` does. Connections in `Outside` are held by another thread
too: its `send` runs as the functor `sendInLoop`, and its `shutdown` may set `state_` to
`DisConnecting` after the connection has ended. `late` follows such a connection: `sendInLoop`
may watch its output again, which adds its channel to the kernel's set a second time, EPOLLHUP
(`hup`) then runs `handleClose` again, and that queues a second `connectDestroy`
(`connectDestroyAgain`).

**`Messages`**, **`Codec`**, **`DataPath`**: each generated function of each message is a
table of its fields; a few operators that read the tables are the code they share.
`Messages` has `SharedCtor`, `Clear` and the accessors, `Codec` has `_InternalParse`,
`InternalSerializeWithCachedSizes...` and `ByteSizeLong`, the recursive part. `DataPath`
takes the three operators of `Codec` as constants, which `DataPath.cfg` replaces by
them, so that it can be proved about for any codec. It puts messages on both ends of calls: a caller fills its request object,
which it uses again, and hands a stub's index to `CallMethod`, which writes size,
header and arguments; `MessageRWCB` takes what one read gave (`MessageThrows`,
`MessageIgnored`, `MessageRuns`), finds service and method by name and runs them
by index; `recv` returns any first part of the reply up to `RecvLen` units. The
example services answer as their code does. `RpcCall` has the failures, by
lengths; `DataPath` has the contents, over a connection that does not fail.

**Proofs**: `EventLoopProofs`, `DataProofs` (of `DataPath` and `Buffer`), `RpcCallProofs`,
`TcpConnectionProofs`, `ServerProofs` (of `EventLoopThreadPool` and `TcpServer`),
`LogQueueProofs`, `EpollPollerProofs`, `ServiceRegistryProofs`.

**Instances**: `MCEventLoop`, `MCTcpConnection`, `MCTcpServer`, `MCBuffer`, `MCRpcCall`,
`MCServiceRegistry`, `MCLogQueue`, `MCEpollPoller` and `MCDataPath` define the small
sets; `EventLoopThreadPool` needs none.

## 4. The runs

| Run | Checks | Instance | Shows |
|---|---|---|---|
| `loop_runs` | `PromptWake`, `ImplementsTaskQueue`, `EveryFunctorRuns`, `QuitStops` | 2 callers, 3 functors, 2 quits | no functor is lost, doubled, overtaken or slept on; `quit()` after the reset of `quit_` ends the loop |
| `conn_in_loop` | `KeepsReply`, `NeverFatal`, `ImplementsLife`, `ShutdownEnds`, `Removed` | loop thread only, 2 messages of 2 bytes, 2 requests, resets | used the way `RpcProvider` uses it, from callbacks, a connection is right, and is removed when the peer ends it |
| `conn_threads` | `Registered`, `WatchesOutput`, `Untorn`, `FinAfterOutput` | another thread, and a server that goes | these four hold with the unlocked races of `send` and `shutdown` too |
| `pool` | `PointerValid`, `StartReturns`, `DestroyReturns` | 3 threads, 5 connections, users may quit loops | starting and destroying end, and nobody follows a pointer to a loop that is gone |
| `server` | `Tracked`, `ImplementsLife`, `ClosedIsRemoved`, `EveryClientAccepted` | 3 clients, 2 descriptors, 1 sub loop, the server may stop | each connection comes up, goes down and is removed once, but for one that was shut down, which the end of the server may remove unreported; every client is accepted |
| `buffer` | `MemoryBounded`, `ImplementsByteQueue` | 2 byte values, strings of 1 to 3, vector of 3 | bytes come out in order, whatever grows, moves or overflows |
| `rpc_calls` | `WholeSuccessIsAnswer`, `OneReply`, `CallReturns` | 2 calls, one of a method nobody serves; the stream is cut anywhere, the provider may die | a connection gets at most one reply, though pieces of a cut request may be run as requests; one that came whole is run at most once; a success that nothing cut is the answer; only a request the provider ignored leaves its caller waiting |
| `rpc_framing` | `SuccessIsAnswer`, violated | the same, replies of one unit, no crash | a request read in two pieces is run with the arguments of the first |
| `registry` | `ListedOrWarned`, `ConnectedServes`, `ImplementsDirectory`, `StartReturns` | 2 providers, one of which serves a method less, on two hosts or one; 1 caller, 2 methods, one session may be connected twice | what callers read is a directory; a provider that listens is listed, or `createNode` took a node or an error for its own; a caller reaches a provider of its method or what took the place of one that ended; `start()` is not left waiting |
| `log` | `MisfiledOnce`, `LabelIsRecent`, `ImplementsLogFile`, `EveryMessageWritten` | 2 threads, 3 messages, one of them fatal, 2 days, 1 message of the network layer | each message is written once and in order, unless the process exits; a file has at most one message of a later day, or a message of the network layer put the old day back into the buffer between two |
| `poller` | `TableAgrees`, `ActiveAlive`, `EveryInputRead` | 3 connections, one of which another thread holds, 3 descriptors, an array of 2 events | the records agree through every reuse of a descriptor, no handler runs on a channel that is gone, all input is read; a connection another thread shuts down late spoils no other's records |
| `messages` | `SizeIsLength`, `WholeRequestRuns`, `OnlyCutIsDropped`, `AnswerIsService` | 2 calls, 5 questions to 3 methods, requests and replies cut anywhere | only what was cut is dropped; a request that one read brings whole runs the method it names, once; a caller gets what the service answered, and nothing of an earlier answer |

Type invariants are proved (section 5) rather than run; that of `DataPath` is `Objects`, in
`DataProofs`.

CHECK_DEADLOCK is FALSE where the system really may stop: a loop that returned,
a connection that is gone, a server that is destroyed, a process that ended, calls
that all returned, a log with nothing to write, a bound that is reached.

### Bounds

* `loop_runs`: the wakeup races are between one caller and the loop; the second
  caller and the third functor give a swap between two appends and a functor
  queued by a functor. `MaxQuits` 2 lets a second quit come while the first is
  half done.
* `conn_*`: a message of two bytes can be written wholly, in part or not at all,
  and two messages can be torn or mixed. One outside thread is what the races on
  `state_` need; `MaxRequests` bounds only the peer's data, which nothing in the
  connection counts. `removals` is bounded by the number of `handleClose`s.
* `pool`: three loops and five connections wrap the round robin once and stop in
  the middle of the second round. `MaxConns` bounds the calls of `getNextLoop`.
* `server`: two descriptors for three clients make the third wait for a removal
  that goes from the sub loop to the base loop and back. `started_` is capped at
  2: from 1 on `start()` does nothing. Which sub loop a connection gets does not
  matter to its end, so one is enough for the interleaving of two queues.
* `buffer`: with prepend area 1, first size 2 and a second array of 2, strings of up
  to 3 bytes reach every branch of `makeSpace` and `readFd`: exact fits, growth,
  compaction with overlap, overflow. `MaxReadable` bounds the bytes held. The
  constants of the code (8, 1024, 65536) are an instance of the theorems.
* `registry`: two providers are enough for one to find, or to race for, the node of
  the other, and for a restart. `MaxConnects` bounds how often a session is
  connected: twice for one client, so that the watcher posts a second time.
* `log`: three messages let two wait while the writer holds one; with two days one
  message can be late. `MaxDay` and `NetLogs` bound the days and the other layer: one
  message of it is enough to put the old day back.
* `poller`: with three connections one descriptor can be given to three in turn,
  or two wait while a third is handled; an array of two events is smaller than the
  three that may be ready, and grows once to three. The connection that another thread
  holds is the first, so that two others may get its descriptor after it; it is shut down
  late once, after which `state_` is never `Connected` again.
* `messages`: two calls of one method use its objects twice. Strings are one or two
  units and varints have base 32, so numbers above 31 take more than one digit;
  `RecvLen` 9 ends inside a list of friends. A size is four units of base 64. With these
  and the tables of `Codec`, TLC also evaluates `CodecAssumption` (section 5).
* `rpc_*`: a size of 2, a header of 3 and arguments of 3 units can be cut before, at
  and after every boundary, and at a place where the cut part parses and one where
  it does not. Replies of up to 3 units, `recv` takes 2: a reply may be empty, fit,
  or be too long. `rpc_framing` has replies of one unit, so that only the request can
  be cut. Calls meet in one place, the provider's process; two show that.

### Fairness

* `EventLoop`: a thread that began a call finishes it; the loop's thread goes on
  wherever it does not block, its callbacks return, and `epoll_wait` returns once
  the eventfd is readable. The timeout and ready connections are possible and
  never counted on, so a lost wakeup shows.
* `TcpConnection`: the same, and the peer reads, so the kernel reports a writable
  socket (`pollWritable`); the base loop runs its functors, which `EventLoop` shows.
* `EventLoopThreadPool`: threads run; a loop leaves `epoll_wait` for its eventfd only.
* `TcpServer`: loops go on. epoll is level triggered here, so a client in the
  backlog or a closed peer is reported in every iteration until it is handled:
  strong fairness for `handleRead` and `handleClose`. That peers close in the
  end is an assumption about clients; a client of this framework closes after
  its reply.
* `RpcCall`: the provider starts, its loop handles what arrives, `CallMethod` goes on
  wherever it does not block. There is no timeout, so none helps a caller.

* `ServiceRegistry`: threads that began go on, a server that can be reached is
  connected to, and the session of a process that ended expires, as ZooKeeper's
  timeout has it. Losing a connection and crashing are never assumed.
* `LogQueue`: a macro that began is finished, and the writer goes on where it does not
  wait. The spurious wakeup is not fair: a lost notification would show.
* `EpollPoller`: handlers and functors go on. The kernel moves a descriptor it
  reported to the end of its list of ready ones, so one that stays ready is
  reported in its turn: strong fairness of a `poll` that reports it.

No fairness is assumed of any call a user may make. `DataPath` has no liveness
property; `RpcCall` has the one about calls.

## 5. What is proved

With TLAPS, for every value of the constants that meets the module's `ASSUME`.

`EventLoopProofs` (assumes `LoopAssumption`: the loop's thread is not one of the
callers, and the types of three constants):

* `LoopTypeCorrect`: `Spec => []TypeOK`, which also says that `looping_` and
  `callingPendingFunctors_` tell where the loop's thread is. Inductive as it is.
* `LoopSeesQuit`: `Spec => []QuitWakes`. It needs `LoopInv`, that is `TypeOK` and
  `OwnCalls`: the loop's thread has a half-done call of its own only in a handler,
  a functor or before `loop()`, so it can never be the one that set `quit_` and is
  now in `epoll_wait`.
* `LoopSeesFunctors`: `LateQueue` gives `Spec => []PromptWake`. `PromptWake` speaks
  of `epoll_wait` only and is not inductive; `PendingSeen` extends it to the
  whole iteration: with functors pending, the thread is on its way to the swap, or
  the eventfd is readable, or a thread is between its append and its write.
  `LateQueue` says that code of the loop's own thread does not call `queueInLoop`
  before `loop()`; without it the theorem is false (section 7).
* `LoopImplementsQueue`: `Spec => ImplementsTaskQueue`, for both values of
  `TidCached` and `EarlyQueue`. Under the refinement mapping `queueInLoop` is
  `Submit`, an inline `runInLoop` is `RunNow`, `runFunctor` is `RunNext`, the swap
  and all else stutter; `OwnCalls` gives that nothing is left of the last vector
  when the next one is swapped in.

`DataProofs`, about the data of calls (assumes `DataAssumption`, the shape of the
constants, and `CodecAssumption`: what is written of the requests, headers and
responses of this program is read back into a new object, and a header is shorter than a
uint32 can say):

* `DataPathOnlyCutIsDropped`: `DataSpec => []OnlyCutIsDropped`. A request that one read
  brings whole neither ends the provider nor is ignored, for any strings, questions,
  number of calls and receive buffer.
* `DataPathWholeRequestRuns`: `DataSpec => []WholeRequestRuns`. Such a request runs the
  caller's method, once, on the caller's request.
* `DataPathAnswerIsService`: `DataSpec => []AnswerIsService`.

The three rest on one invariant, `DataInv`. None is inductive alone: that nothing is dropped
needs that what is unread is a message of `CallMethod` to the last byte (`Unread`), that the
answer is right needs that the reply is of the caller's own request (`Answered`), and
both need that an object used again holds nothing else than a new one (`Objects`).
The lemmas follow the bytes: `FillAgain` (a caller sets every field of a request),
`SizeIsWritten` (four bytes make the size again), `PartsOfMessage` (`substr` finds header and
arguments where they were put), `ClearIsNew` (`Clear` leaves what the constructor
makes, whatever an earlier answer left), `ParsesBack`, `OneEntry` (the two names lead to one entry
of `ServiceTypeMap`), `ServiceAnswers` and, from these, `WholeRead`. That the tables of `Codec` do
read back what they write is what `CodecAssumption` leaves to TLC, which evaluates it
for the questions of the instance.

`DataProofs`, about the buffer (assumes `BufferAssumption`: the strings are over the bytes, sizes are
natural numbers):

* `BufferTypeCorrect`, `BufferMemoryBounded`: `Spec => []TypeOK`, `Spec =>
  []MemoryBounded`. The invariant is `BufferInv`: both, and that the readable bytes
  are at most `peak`. A vector grows only when the free bytes on both sides are
  fewer than what is to be written plus the prepend area, which bounds its new
  size by twice its new contents plus the prepend area (`GrowthArithmetic`).
* `BufferImplementsQueue`: `Spec => ImplementsByteQueue`. One lemma per operation
  says what it does to the contents: `GrowProperties` and `CompactProperties`
  (nothing), `WriteProperties`, `BufAppendProperties` and `ReadvProperties` (append),
  `RetrieveProperties` (drop from the front).

`RpcCallProofs` (assumes `CallAssumption`: sizes are positive, and the empty string
parses):

* `CallTypeCorrect`: `Spec => []TypeOK`, which also says that a call that returned
  has closed its socket. Inductive as it is.
* `RepliesAtMostOnce`, `WholeSuccess`: `Spec => []OneReply`, `Spec =>
  []WholeSuccessIsAnswer`, for any number of calls and any cuts, and whatever the pieces
  of a cut request read as. The invariant is `CallInv`: nothing of a call is at the
  provider before it is sent (`Unsent`); what was read and what was not make up one request
  at most (`Cut`); the first run gives the only reply, and a second run, or a run with
  short arguments, means that the first string was short (`RunGivesReply`); an end of file
  or a success without a reply means that the provider died (`Ended`).
* `NoVainWait`, the safety half of `CallReturns`: a call in `recv` has something to
  get, or a request that is unread at a provider that listens, or one that was ignored.
  `Connected` relates a call's place to its connection and to what is unread.

`ServerProofs`, about the pool (assumes `PoolAssumption`): `PoolTypeCorrect`, `HandsOutLoops`,
`SpreadsEvenly`, `AllJoined` and `NoDanglingLoop` state `PoolTypeOK`, `LoopsUsable`, `Balanced`,
`NoneLeft` and `PointerValid`, for any number of threads and connections. The
invariant `PoolInv` adds to the types that a thread's place says whether its loop
exists and is published (`ThreadHas`), that threads are started and joined in order
(`InTurn`), and that the loops before `next_` were given once more than the others
(`Even`). Two more theorems are the safety halves of `StartReturns` and
`DestroyReturns`. `StartMissesNothing`: while `start()` waits, its thread has not yet
notified (`Waits`). `JoinIsNotInVain`, for a pool that is not `Hasty` (section 7): the thread
that is joined has been told to end, and its eventfd is readable if it still runs (`Told`).

`ServerProofs`, about the server (assumes `ServerAssumption`): `ServerTypeCorrect`,
`ConnectionsTracked`, `ClosedAreLeaving`, `NoClientUnheard`, `ServerImplementsLife` and
`ThreadsConfined`, for any
clients, sub loops and descriptors, a base loop that knows its thread or not, and a
server that is destroyed at any moment. `ServerInv` says for each connection where its
three functors are: only in its own loop, and the one that takes it out of
`connections_` only in the base loop (`Placed`); `connectEstablished` once while it is
new, `connectDestroy` once from when it left `connections_` until it is gone, after it
(`Tidy`); `removeConnectionInLoop` once while it is down and still in `connections_` (`Listed`).
`Tracked` alone is not inductive: it does not say that a functor is queued only once.
There is one lemma per action; `OthersKept` disposes of the connections a step does
not concern, `PutKeeps` and `PopKeeps` say what a queue holds after its two operations.
`ClosedAreLeaving` is the safety half of `ClosedIsRemoved`, and `NoClientUnheard` of
`EveryClientAccepted`: where no descriptor is left for a client, each is held by a
connection that a queued functor opens, that is up, or that is on its way out. `ServerImplementsLife` is the
refinement that the run checks, for a server that is destroyed at any moment too: only
`destroyed`, called once `~TcpServer` has begun, takes a connection that is shut down
to its end unreported (`Life!Vanishes`). `ThreadsConfined` is why `connections_` and a
connection's state need no lock.

`TcpConnectionProofs` (assumes `ConnAssumption`): `ConnTypeCorrect`, `RecordIsRight`,
`OutputIsWatched`, `MessagesWhole`, `FinIsLast` state `TypeOK`, `Registered`,
`WatchesOutput`, `Untorn` and `FinAfterOutput`, for any callers in any threads and
messages of any length. The invariant is `ConnInv`: these, with `Early` (before
`connectEstablished` only the server's functors are queued and nothing else has
happened) and `Whole`, stronger than `Untorn`: a byte follows its predecessor, and
the output ends with a whole message, so that the next may follow. `Effects` sorts
all steps by what they do to the socket and the output, so that each conjunct is
proved over seven cases instead of thirty actions. `LoneReplyKept` states
`KeepsReply` where the loop knows its thread and nobody else calls (`TidCached`,
`Callers = {}`), which is how `RpcProvider` uses a connection; with other callers it
is false (section 7). `NotFatalInLoop` states `NeverFatal` under the same hypotheses, at whatever
moment the server is destroyed. Its invariant `EndInv` says that the connection is
`Fresh`, `Serving`, `Ending`, `Destroying` or `Gone`, that nothing of it is left in the
poller's hands in the last, and that one `connectDestroy` at most is queued
(`OneDestroy`), though both `removeConnectionInLoop` and the destructor may queue it.
`EndIsSeen`, from the same invariant, is the safety half of `Removed`.
`ShutdownRemembered` is the safety half of `ShutdownEnds`, for any callers: a connection in
`DisConnecting` has sent its FIN, waits for EPOLLOUT, or has `shutdownInLoop` to run.
With `~ServerStops` besides, `ConnImplementsLife` states the refinement
`ImplementsLife`. Its invariant `LifeInv` says
that a connection is `New`, `Up` or `Down`, and that while it is `Down` its removal is in
one place: the end of `handleClose`, the base loop, one `connectDestroy` in a queue of
the loop, or over (`Removal`). `Lives` says that each step stays in one of these or goes
one further.

`LogQueueProofs` (assumes `LogAssumption`): `LogTypeCorrect`, `LabelsAreRecent`,
`FewMisfiled`, `NoMessageLost` and the refinement `LogImplementsFile`, for any threads, messages and
days. `LogInv` says that a message is in one place (`OnePlace`), that the level the
writer would read was set since each macro began (`Recent`), and that a file is
chosen after everything written before it was logged, unless `localtime`'s buffer was
given an older day since (`Chosen`). `FewMisfiled` is about any number of messages of the
network layer: without one that took its time before midnight and called `localtime`
after, a file has one message of a later day at most. `NoMessageLost` is the
safety half of `EveryMessageWritten`: the writer never sleeps on a message, and each
message is with its thread, in the queue, with the writer, or in a file.

`EpollPollerProofs` (assumes `PollerAssumption`): `TypeCorrect`, `RecordsAgree`,
`HandlersOnLive`, `BoundedSize`, `NoInputUnheard`, for any number of channels and
descriptors and any of the connections held by other threads. `NoFatal` states `NeverFatal`
where no other thread holds one (`Outside = {}`), as `NotFatalInLoop` does of a single
connection; it is false otherwise (section 7). `FatalIsLate` says what is left then: a LOG_FATAL
means that some connection was shut down by another thread after its end. `PollerInv`
says that `index_` follows the life of a connection that is not late
(`IndexFollowsLife`), states the agreement of the table (`Table`) and of the kernel's
set (`Kernel`), late connections included, once from the channel and once from the
descriptor, says what a late connection may still be (`Ends`), and that the
active channels are up or late (`Handled`). `NoInputUnheard` is the safety half of
`EveryInputRead`: a connection that is up is watched for input, and no channel is to be
handled that has no bit left to handle (`HasWork`), where the iteration would stop.

`ServiceRegistryProofs` (assumes `RegistryAssumption`): `RegistryTypeCorrect`,
`StartMissesNoPost`, `ParentIsFirst`, `ListensListed`, `ReachesProvider` and the refinement
`RegistryImplementsDirectory`, for any providers, callers, placements and number of
reconnections. `RegistryInv` says where a session may be while the thread is in
each place (`Places`), what createNode came to for each path and which nodes that
leaves (`Created`), and that no two live providers share a port (`Placed`).
`StartMissesNoPost` is the safety half of `StartReturns`: while `start()` waits, the post is
there or the first connection is still to come (`Awaited`).

Only model-checked: liveness (`EveryFunctorRuns`, `QuitStops`, `ShutdownEnds`,
`Removed`, both `StartReturns`, `DestroyReturns`, `ClosedIsRemoved`,
`EveryClientAccepted`, `CallReturns`, `EveryMessageWritten`, `EveryInputRead`), which
rests on fairness and ENABLED and is out of the prover's reach: the theorems called
safety halves above say that what such a property waits for is on its way, the runs
that it arrives. Also `SizeIsLength`, and what `CodecAssumption` says: what the recursive
operators of `Codec` compute needs induction over data, which is out of the prover's reach
too. What a piece of a cut request runs depends on its contents: the arguments of a call
may hold a whole request. No property of `messages` speaks of it; `RpcCall` lets it be
anything.

## 6. Findings

A run that TLC ends with a counterexample; `findings` in `PROJECT.json` quotes the
line of the repository that says otherwise.

* `rpc_framing`: `MessageRWCB` takes the bytes of one read for one request
  (`R/rpcprovider.cc:102`); the lengths in the request, there "to prevent sticking",
  are not compared with how many bytes there are.

## 7. What the models assume or show besides

* **A base loop that does not know its thread.** `threadId_` is read from a cache
  that is 0 until `tid()` has run (`N/EventLoop.cc:35`). `RpcProvider`'s loop is built
  in a main thread that has not called it, so `runInLoop` there always queues and
  `wakeup()` is always written. `TcpServer` covers both; the theorems about the loop do.
* **An early quit.** `loop()` resets `quit_` (`N/EventLoop.cc:67`), so a quit that comes
  between `EventLoopThread` publishing the loop and `loop()` is lost; the destructor's
  `join()` would then wait for ever. The pool model has the constant `Hasty` for a
  destructor that early; the run `pool` sets it FALSE.
* **A second `send()`.** The code that stores what could not be written is inside the
  `if` for an empty output buffer (`N/TcpConnection.cc:170`): a `send()` while output is
  pending writes and stores nothing. `KeepsReply` is about the one reply that
  `RpcProvider` sends.
* **`shutdown()` of another thread** tests and sets `state_` in two steps
  (`N/TcpConnection.cc:239`). If `handleClose` comes between them, the connection is in
  `DisConnecting` again, and its end may reach a LOG_FATAL: a functor of `send()` adds its
  channel to the poller again, and it is removed twice. `NeverFatal` of `TcpConnection` is
  therefore checked where only the loop's thread calls, and that of `EpollPoller` proved
  for `Outside = {}`; the run `poller` has such a connection and shows that others are
  not affected until the process ends. Its model takes the thread that shut down late for an
  owner of the connection while the loop handles the channel (`destroyed`): without one,
  the handler would run on a channel that is gone.
* **The end of a server.** Functors that `~TcpServer` queues (`N/TcpServer.cc:114`) race
  with the quit of the sub loops, and may never run.
* **Queueing before `loop()`.** A functor the loop's own thread queues before
  `loop()`, as a thread init callback may, is followed by no wakeup and waits for an
  event or the timeout (`N/EventLoop.cc:139`). No code of the repository does it:
  `EarlyQueue` is FALSE in the run and a hypothesis of the theorem.
* **`send()` from another thread** binds `this` and `buf.c_str()`
  (`N/TcpConnection.cc:147-148`). Both may be gone when the functor runs. The
  model lets the functor send its message or `Junk`, and runs it only while
  somebody owns the connection (`owned`).
* **A FIN that overtakes.** `shutdown()` sets `DisConnecting` at once while an
  earlier `send()` of another thread is still a functor; the last write of
  `handleWrite` then sends the FIN first. `FinAfterOutput` says only that FIN
  follows the buffer.
* **A silent end.** `connectDestroy` calls `connectionCallback_` only in state
  `Connected`: a connection in `DisConnecting` when its server is destroyed gets no
  down callback. `ConnectionLife` allows it to a server that is leaving, and the run
  `server` has both; in `TcpConnection` `ImplementsLife` is checked where the server stays.
* **SIGPIPE.** Nothing in the repository ignores it: a write to a connection whose
  reset was read ends the process. `TcpConnection` has it (`raisesSigpipe`, `exited`).
* **A destructor that uses a loop after its end.** `~EventLoopThread` tests `loop_`
  and then calls `quit()` on it with no lock (`N/EventLoopThread.cc:20`); where a
  user quit the loop before, the loop may end between the two. `PointerValid` is
  about the pool's own steps.
* **Calls.** Every failing path of `CallMethod` uses the controller: callers that pass
  `nullptr`, as the examples do, are outside the model. `MessageRWCB` binds `done`
  to a reference to its own argument, so a service has to call `done->Run()` before
  it returns; the model's does. A call of an unknown service or method is never
  answered, and waits for ever. A piece of a cut request that reads as a request is run
  as one, of whatever method it names, and its reply, if it is the first, goes to the
  caller.
* **Registration.** A provider that is started again finds the ephemeral node of the
  process before it, keeps it, and is not listed any more when that session
  expires. An error of `zoo_exists` is taken for a node that is there
  (`R/zookeeperutil.cc:80`). A session that expires under a living provider is not
  made again: it serves on and is not listed. `ListedOrWarned` says that these are the
  only ways. A live provider that lost the race for a node exits.
* **The semaphore** of the watcher is a local of `start()`. When the session is
  connected again, the watcher posts to a place on the stack that is gone; the
  model lets that do nothing or end the process. A post before `zoo_set_context`
  goes through a null pointer.
* **The log.** A thread of the network layer may put the day that is over back into
  `localtime`'s buffer after the writer filled it, and the writer then opens the old file
  once more (`MisfiledOnce` names this exception). The fields of the buffer are written at once
  in the model; a reader that meets half of them sees neither day. A line's stamp is whatever day is in `localtime`'s buffer, perhaps not that of its file.
  `exit()` loses what is queued. Two classes named `Logger` define `GetInstance`: which
  one a call reaches is the linker's choice, so `netLog` may or may not write this
  `logLevel`.
* **Messages.** A reply of default values is no bytes, which `recv` cannot tell from an
  end of file; both are success. A reply longer than 512 bytes, or cut at a field, is
  accepted without its rest. A parse that fails leaves what it read in the
  response. `4 + header_size` wraps at 32 bits. `calluserservice` sends the password
  "123456" where `Register` accepts "12345".
* `Buffer`'s constructor ignores its argument (`N/Buffer.h:18-19`).
* `Acceptor`'s `createNonblocking` returns nothing (`N/Acceptor.cc:20`).

## 8. What is not modelled, and why

* `JhrpcApplication`, `JhrpcConfig`: parsed once, before anything runs.
* `InetAddress`, `TimeStamp`, log formatting: no state. A LOG_FATAL's exit is
  modelled where it ends a path, and `localtime`'s shared buffer in `LogQueue`.
* Of the generated code: descriptors' tables, reflection, arenas, merging and
  swapping, unknown fields, which the program does not call or meet. A unit of
  `Codec` stands for a byte; which bytes it holds does not matter. In `DataPath`, the
  names `empty` and `something_error` are for the strings "" and "something error".
* Of `ZKClient`: the lengths of its buffers for paths and data.
* The high water mark callback: nothing sets it.
* The high level of memory lifetime: who drops the last `TcpConnectionPtr` is
  outside the repository; `owned` stands for the object's existence.
* The tests of the repository and the `main` functions of the examples, which call
  what is modelled.
