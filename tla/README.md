# Specifications of muduo-server

TLA+ models of the library and the programs of this repository, checked by TLC on
small instances and, for the properties that matter most, proved by TLAPS for every
value of the constants. The models are translated from the sources, definition
by definition; `PROJECT.json` gives for each definition the lines it stands for.

## 1. The system

The repository is a C++ library (`muduo/base`) and a set of programs from the
same author's notes (`source/ch01` to `ch07`). The network layer `muduo::net`
that the programs of ch06 and ch07 call is not part of the repository.

| Part | State | Operations | Used by |
|---|---|---|---|
| `MutexLock`, `Condition` (Mutex.h, Condition.*) | the pthread mutex, `holder_` | lock, unlock, wait, waitForSeconds, notify, notifyAll | everything below |
| `CountDownLatch` | `count_` | wait, countDown | `Thread`, `AsyncLogging`, tests |
| `Thread` | `started_`, `joined_`, `tid_`, `latch_`; the `ThreadData` on the heap | start, join, destructor; the new thread's runInThread | `ThreadPool`, `AsyncLogging` |
| `BlockingQueue`, `BoundedBlockingQueue` | `queue_` | put, take, drain | tests, programs |
| `ThreadPool` | `threads_`, `queue_`, `running_`, `maxQueueSize_` | start, stop, run; the workers' take | the sudoku server |
| `AsyncLogging` | `currentBuffer_`, `nextBuffer_`, `buffers_`, `running_`; the back end's two spare buffers | append, start, stop; threadFunc | `Logger`'s output |
| `LogFile`, `FileUtil::AppendFile` | the open file, `writtenBytes_`, `count_`, `lastRoll_`, `lastFlush_`, `startOfPeriod_` | append, flush, rollFile | `AsyncLogging` |
| `Logging`, `LogStream` | a fixed buffer for each line; per thread the formatted second `t_time` and the cached tid; level, zone, output and flush functions | the macros, `<<`, ~Logger, the setters | everybody |
| `Timestamp`, `Date`, `TimeZone` | none; a zone's transitions | conversions | logging, the time servers |
| `Singleton`, `ThreadLocal(Singleton)`, `Atomic`, `ProcessInfo`, `StringPiece` | one pointer or word | get | programs |
| ch01 `StockFactory`, five versions | map of shared or weak pointers | get, deleter | |
| ch01 `Observer`, two versions | vector of raw or weak pointers | observe, notifyObservers, destructors | |
| ch02 `Inventory`, `CustomerData`, `CopyOnWrite_test` | a set, map or list behind a shared_ptr behind a mutex | add, remove, query, update, post, traverse | |
| ch07 chat servers, four, and the codec | `connections_`, or one set for each loop; the input buffer | onConnection, the codec's onMessage, the broadcast | `muduo::net` calls them |
| ch06 sudoku servers, three, and the solver | the input buffer, the pool's tasks; the linked matrix | onMessage, processRequest, solve | `ThreadPool`; `muduo::net` |
| ch07 file servers, three | a `FILE*` in each connection's context | onConnection, onWriteComplete | `muduo::net` |
| echo, finger, discard, daytime, time, timeclient, chargen, maxconnection | counters, chargen's message | the callbacks | `muduo::net` |

**Interactions.** All sharing between threads goes through `MutexLock`, with the
exceptions that make the code interesting: `ThreadPool::running_` is read without
the lock, `AsyncLogging::stop()` stores `running_` and notifies without it, a
`Thread` object may be destroyed while the thread it started still leaves
`countDown()`, shared_ptrs are dropped without any lock in `StockFactory` and
`Inventory`.

**What is hard** is the interleaving of waits and notifications (lost wakeups, a
signal that a newcomer steals, a notification that finds nobody), stopping
(threads asleep when `stop()` comes, in two different waits), lifetimes (objects
whose last reference goes while somebody else looks), failure of
`pthread_create`, the wall clock that `LogFile` reads; input that comes in any
pieces, connections that go down between two callbacks, work that is handed to
another loop; caches that a fork or a new time zone make stale; and the edges of the
arithmetic on dates, transitions and buffers. `PROJECT.json` lists the
hazards one by one with the line and the properties that cover each.

What makes each component correct:

* mutex, condition: `holder_` is the truth at every step; together they are a
  monitor.
* latch: nobody passes before zero, nobody is left asleep at zero.
* `Thread`: no use of a destroyed object, `tid()` known when `start()` returns,
  every pthread reaped once.
* queues: no lost wakeup, and all in all a FIFO queue whose operations complete.
* pool: no lost wakeup on either condition, tasks begin, `run()` and `stop()`
  return -- except where the pool can clog, which is made explicit.
* `AsyncLogging`: no message lost, doubled or reordered without a notice in the
  file, every message written in time, the buffers never run out.
* `LogFile`: no file name used twice, few lines in the wrong day's file or
  unflushed after they should be.
* logging: a line carries the second, the zone and the thread that it was made in; a
  piece is missing only if it did not fit; dates, zones and numbers are exact.
* `StockFactory`: one object per key, no dead entries. `Observer`: nobody who is gone
  is called, nobody who is there is left out.
* `Inventory`, `CustomerData` and the chat server's list: snapshots are stable, what is
  walked is alive, no update is lost, the two orders of locking do not deadlock.
* servers: a stream gives the same frames, lines and answers however it is cut; a
  broadcast reaches everybody, in order, once; a file arrives whole and is closed once;
  the connection counter is exact.

## 2. Modules

| Module | Models | State and actions against the code |
|---|---|---|
| `Monitor` | abstract | what a mutex with a condition promises |
| `MutexCondition` | Mutex.h, Condition.h, Condition.cpp | `owner` is the pthread mutex, `holder` is `holder_`; each of lock, unlock, wait is two or four steps, one for each access |
| `CountDownLatch` | CountDownLatch.cpp | extends `MutexCondition`; `wait()` is `EnterLatch`, `Sleep`/`Awake`, `WaitDone`, `Leave`; `countDown()` is `EnterLatch`, `CountDown`, `Leave` |
| `ThreadObject` | Thread.cpp | extends `CountDownLatch` with one waiter and one counter; the parent's start/join/destroy and the child's runInThread, down to the last unlock of the latch |
| `FifoQueue` | abstract | what a blocking queue promises |
| `BlockingQueue`, `BoundedBlockingQueue` | the headers of that name | one step per critical section; `entering` is a thread about to test its while condition |
| `ThreadPool`, `MCThreadPool` | ThreadPool.cpp | one step per critical section; the owner's start/stop, callers' run, the workers' loop with its unlocked read of `running_`, tasks that call `run()` or throw |
| `AsyncLogging` | AsyncLogging.h, AsyncLogging.cpp | `current`, `next`, `buffers` in front, `new1`, `new2`, `toWrite` behind; a message is its place in the order of `append()` calls; the back end's loop drops a backlog, writes one buffer after the other and recycles two, each a step of its own |
| `LogFile` | LogFile.cpp, FileUtil.cpp | one action for each way through `append_unlock()`, the clock as an actor of its own |
| `Calendar` | Date.cpp, Date.h, Timestamp.*, the UTC half of TimeZone.cpp | operators; C++'s division is `CDiv`, `CRem` |
| `TimeZone` | TimeZone.cpp | a zone is its transitions and local times; `findLocaltime` with both orders of `Comp`; what an unreadable file leaves behind |
| `LogStream` | LogStream.h, LogStream.cpp | `convert`, `formatSI`, `formatIEC`; a number that is scaled for printing is first rounded to the 53 bits of a double and then, exactly, to the digits that are shown; a buffer is its length and the pieces in it; the room test of strings and that of numbers |
| `LogRecord` | Logging.h, Logging.cpp, the tid cache of CurrentThread and Thread.cpp:23-38 | `Begin` (constructor with its header), `Stream`, `Finish` and `Output` (the destructor), the setters, the clock, `Fork` |
| `StockFactory` | source/ch01/StockFactory.cpp | `get`, the last drop of a shared_ptr, and the deleter's promotion, `deleteStock` or `removeStock`, and delete as separate steps; `version` says which class, `keepers` whose deleter has a shared_ptr to the factory |
| `Observer` | source/ch01/Observer.cpp, Observer_safe.cpp | the walk of `notifyObservers` element by element; `observe` up to its call of `register_`, which ends in a step of its own; `~Observer` before and after it unregisters, the drop of a shared_ptr; `Stray`, what a walk over a vector may do that another thread has changed |
| `CustomerData` | source/ch02/Customer.cpp, CopyOnWrite_test.cpp | extends `CopyOnWriteSet`: the writer of a map, the swap of a whole map, a walk that posts |
| `Net` | external: what the servers rely on of `muduo::net` | loops, connections, input buffers, output, functors; operators from one state of the network to the next |
| `ChatServer` | source/ch07/chat: codec.h and four servers | a callback is one step for each frame of its buffer and, for the snapshot walk, each receiver |
| `SudokuSolver` | source/ch06/sudoku/sudoku.cpp | nodes numbered in the order of their construction, links as fields; the recursion of `solve` in steps (a column is covered, a row tried, a choice taken back), its frames the rows on `stack_` |
| `SudokuServer` | the three sudoku servers | one step for each line; a pool's task is taken and answered in steps of its own |
| `FileTransfer` | source/ch07/filetransfer | up, down, write-complete, destruction; `fp` counts blocks read and closes |
| `SmallServers` | echo, finger07, discard, daytime, time, timeclient, chargen, maxconnection | one step for each callback |
| `MCThread` | -- | `ThreadObject` and what only its run says of it |
| `MCLogRecord`, `MCLogging`, `MCSharedObjects`, `MCServers` | -- | instances, inputs and reference definitions for TLC |
| `SharedSet` | abstract | a set with atomic updates whose readers keep the value of one moment |
| `CopyOnWriteSet` | source/ch07/chat/server_threaded_efficient.cpp:41-90 | lock, `unique()`, copy, modify as separate steps; readers take the pointer under the mutex and drop it without |
| `Inventory` | source/ch02/RequestInventory_test2.cpp | extends `CopyOnWriteSet` (the code of `add` and `remove` is that of the chat server) with the requests' mutexes and lifetimes |
| `*Proofs` | -- | theorems about the module of that name; `ThreadProofs` those about the mutex, the latch, `ThreadObject`, `LogRecord` and `TimeZone`, `LoggingProofs` those about `AsyncLogging` and `LogFile`, `SharedObjectsProofs` those about `StockFactory`, `Observer` and `CustomerData`, `ServersProofs` those about `FileTransfer`, `SmallServers` and the broadcast of `ChatServer` |

**Composition.** `ThreadObject` runs on the latch, which runs on the mutex, at
the grain of single accesses: that is where the hazards of these three are. The
queues, the pool and the logger take what a thread does between locking and
unlocking (or waiting) as one step. This is justified by `ImplementsMonitor`: the
mutex and the condition are a monitor, so no other thread sees the inside of a
critical section, and what the sections share is shared only under the mutex;
the exceptions (`running_` in the pool and in the logger, the late notify of
`AsyncLogging::stop()`, the release of a shared_ptr) have steps of their own.
A condition of `waitForSeconds` and a spurious wakeup are the same step.

`AsyncLogging` calls `LogFile` from one thread and looks at nothing of it, and `LogFile`
makes nothing of what its lines say: `logging` checks the two side by side, one in each
behaviour. `StockFactory`, `Observer`, `CustomerData` and the servers do not interact; one run
holds those of a kind, and the initial state says which program is run. All servers
share the one `Net`. The chat servers take copy-on-write for the atomic snapshot
that `Inventory` shows it to be, and the sudoku server takes `ThreadPool` for the
queue that its own run shows it to be.

**The network.** `Net` is external: `muduo::net` is not in the repository, and the
module has what the servers use of it. Input arrives in pieces of any length; a
connection may close at any moment between two callbacks; `send()` from another thread
becomes a functor of the connection's loop and finds the connection in whatever state it
is by then; `shutdown()` closes the writing side after all output is out; a
write-complete callback is queued when a connection's output is written. Only one
callback runs in a loop at a time. An `int32_t` has two digits to the base 4
on the wire, so that a length that is negative and one that is too large both occur.

**Modelled data.** Messages, tasks and elements are members of small sets. In
`AsyncLogging` a message's length only matters to whether it fits, which is left
open except that an empty buffer takes any message that is not too long. In
`LogFile` `writtenBytes` saturates above `rollSize`.

**The data race.** `ThreadPool::running_` is a plain `bool`. A worker that has
not locked `mutex_` since `stop()` cleared it may still read the old value
(`stale` in `ThreadPool`); after its next critical section it reads the new one.
`AsyncLogging::running_` is a `std::atomic` and has no such choice.

## 3. Runs

| Run | Instance | What it shows |
|---|---|---|
| `latch` | 2 waiters, 2 counters, count 2 | `ImplementsMonitor`, `LatchHolds`, `NobodyAsleepAtZero`, and that every waiter returns |
| `thread` | 1 object, 1 thread | `LifetimesKept` (object, pthread, ThreadData and thread name), `StartPublishesTid`, `StartTerminates` |
| `blocking_queue` | 2 producers, 3 consumers, 1 drainer, at most 3 elements | no lost wakeup; refinement of `FifoQueue` with its liveness |
| `bounded_queue` | 3 producers, 3 consumers, capacity 2 | the same, on both conditions |
| `thread_pool` | 2 workers or none, 2 callers, queue of 1, 5 tasks | no lost wakeup; tasks begin, `run()` and `stop()` return |
| `thread_pool_create_fails` | the same | violated: see section 6 |
| `logging` | 6 messages, backlog limit 3; a file with a day of 3 seconds, check every 3 lines, time up to 8, 1 setback | buffers, order, notices, delivery, `stop()`; file names; late and overdue lines |
| `inventory` | 2 requests, 2 printers | snapshots, lifetimes, no deadlock |
| `log_record` | 1 thread, a buffer of 130 bytes, 2 seconds, 3 zones, lines of up to 2 pieces; beside it about 8000 inputs of the conversions | `ConversionsExact`, `ZoneInForce`; the shape of a line, its time and its tid |
| `log_record_units` | the quantities of `log_record` | violated: see section 6 |
| `shared_objects` | 5 factories: 3 threads, 2 keys, 4 stocks; 2 observables: 3 observers; 2 maps or lists: 3 threads, 2 customers | one stock per key, no dead entries; who is updated; snapshots and no lost update |
| `servers` | 19 programs, 2 connections, 1 or 2 loops, 2 workers; the solver, 10 boards | frames, broadcasts, replies, files, small answers; grids completed, links restored |

**Bounds and why they are enough.**

* Latch: with two waiters a `notify` in place of `notifyAll` is caught, with two
  counters the count is seen above zero.
* Queues: a lost wakeup needs two waiters of a kind and a newcomer that steals
  what a signal announced, hence three threads on a side; two slots let two
  signals be on their way. `MaxPending` in `BlockingQueue` bounds the queue, which
  the code does not: `Put` waits at the bound in the model, and with three elements
  for three consumers the cases with more elements than sleepers occur. The proofs
  are for any bound.
* Pool: a queue of one with two workers and two tasks that submit tasks is enough
  for the pool to clog -- `StopTerminates` without its last disjunct, and
  `QueuedTasksBegin` without `NoWorkerLeft`, are violated in this instance, so the
  exceptions are real.
* Logger: a backlog of more than three buffers needs four messages that fill
  buffers; two more come before and after it. 25 in the code is `MaxBacklog` = 3 here.
  `MaxAppends` bounds the run.
* File: `MaxTime` allows the day to change twice, `MaxLine` and `rollSize` let a
  file fill with two lines or with four. Both bounds on lines are reached exactly.
* Log lines: one thread is enough because each line is made of the thread's own
  buffer and caches and of globals that, in the model as in a sane program, do not change
  while a line is open. The lengths of the pieces (1, 60, 41 and a number) meet the end of
  130 bytes with one, two and more bytes left, with whole pieces lost before and after the
  tail. A level above WARN closes the same macros as WARN does.
* Conversions: `CalendarExact` takes every day of the years about each turn of a century
  between 1900 and 2500, where leap years go wrong, and of four decades about 1970, where signs
  do; times of day where seconds fit 32 bits. `ZoneInForce` probes the second before, at and
  after every hour about all transitions of zones with and without summer time.
  `NumbersReadBack` has the powers of ten and their neighbours to the ends of 32 bits, and the
  quantities about every change of unit, up to the ends of 64 bits, where a double has lost
  the last digits. Both together are `ConversionsExact`.
* Stocks: four stocks allow a key to be made a third time while two deleters are
  on their way. `MaxStocks` bounds the run.
* Observers: three of them, so that one is taken out before, at and behind the place of
  the walk, and two that have expired stand side by side.
* Customer data: a map object more than threads, as below.
* Servers: two connections in two loops are a sender and a receiver in different threads;
  two lines or frames on each let a second one overtake; streams are cut in every way.
  `kMaxLen` = 2, `kTooLong` = 6, `kPuzzle` = 2 stand for 65536, 100 and 81 and keep their order:
  a whole request with a short id fits below the limit, one with a long id does not.
  Files have none, one and three blocks or cannot be opened. `kMaxSent` ends chargen's
  endless stream. The solver has boards of four by four (`Box` = 2; 3 in the code): with a
  solution, with several, with none found only after wrong guesses, contradictory, full.
  The servers answer from a table of three of these boards, and `RepliesMatch` also says that the
  solver computes that table.
* Inventory: one set object more than printers is enough (a copy happens only
  when a printer has or had the current one), so `Free` is never empty when
  `Copy` wants an object.

**Deadlock** is checked in every run but those whose system really stops (the
threads have returned, `stop()` has returned, the process has ended); the comment
at the head of each configuration says so.

**Fairness and why the code justifies it.** Threads inside an operation are
scheduled (weak fairness). Where a step is the acquisition of a mutex that others
take again and again (`latch`, `thread`, `inventory`) strong fairness says that a
thread is not starved for ever by the kernel's choice; in the models with one
step per critical section a thread that wants the mutex stays enabled and weak
fairness says the same. In the latch a woken waiter has the same fairness. No
fairness is given to calls (nobody has to append, stop, run, notify or print), to
spurious wakeups, to exceptions, to the user's function in `ThreadObject`. In
`AsyncLogging` the timeout of the back end's wait is fair: that is what
`waitForSeconds` is for. `log_record`, `shared_objects` and `servers` check safety only
and state no fairness; that everything arrives is stated there for the states in which
nothing is under way. In the pool tasks end; a task that does not is a clogged
worker by another name.

## 4. Proofs

For every theorem the constants satisfy only the `ASSUME`s of the module (finite
sets of threads and of loops, a capacity of at least one, a backlog limit of at least two, a `None`
that is no thread), which TLC evaluates in the runs. Every inductive invariant was
checked by TLC on the instance of its run before it was proved.

* `ThreadProofs`. `MutexHolderExact`, `MutexImplementsMonitor`: for any
  client. The inductive invariant ties `owner` to the place of each thread:
  a thread is in one of the owning places exactly when it owns the mutex, and
  `holder` is the owner exactly in "in". The refinement reads the monitor through
  `holder` alone, so all steps of the pthread mutex are stutters.
  `LatchHoldsAlways`, `LatchLosesNoWakeup`: a thread between its test of `count_`
  and its sleep ("sleeping") owns the mutex, so the thread that brings the count
  to zero meets sleepers only where `notifyAll` finds them.
  `ThreadLifetimesKept` and `StartHasTid` are about a `Thread` object on its latch, for any
  set of objects. The invariant `ThreadInv` adds to the latch's: which of parent
  and child can exist at each place of the parent (`Children`); that the latch's count is zero
  exactly when the child is past `countDown()` and that `tid_` is written before
  (`HandShake`); and what keeps the object and the `ThreadData` alive until their last use
  (`ObjectKept`, `DataKept`).
  `LogStampsTrue`, for any threads, zones, seconds and lines: the invariant `StampInv` says that
  what a living thread has cached is true -- its id, and the time of its last second unless the
  zone was set since -- and that no zone is set while a line is open. A fork gives the child a new id,
  and keeps the invariant because `afterFork` renews the cached one in the same step.
  `SearchFindsOffset`, for every table of transitions in ascending order and every time:
  `findLocaltime` returns the local time of the last transition at or before it, which is the
  reference `OffsetAt` of `ZoneInForce`.
* `BoundedBlockingQueueProofs`, `BlockingQueueProofs`. The lost-wakeup invariants
  are inductive only together with the types, and need counting: an element
  more, one waiter less and one thread entering more. `BoundedQueueIsFifo` and
  `QueueIsFifo` are the safety half of the refinement that the runs check with liveness.
* `ThreadPoolProofs`. `NoWorkerStranded` and `NoRunnerStranded` count in the same
  way; `stop()` breaks no case because it moves every sleeping worker at once.
  `PoolTypeOK` includes the bound of the queue.
* `LoggingProofs`. For `AsyncLogging` one invariant, `LoggerInv`, of four parts.
  `RecycleInv` gives `LoggerBuffersRecycled`: of the two new buffers
  one always goes to the front in a round; the second one goes only if the front
  had used up its next buffer, in which case at least two buffers come back.
  `StagesInOrder` says that the messages of each stage -- file, buffers to write, queued
  buffers, current buffer -- increase, and that each stage is wholly before the
  next; `Accounted`, that every message appended is in one of them, too long, or
  dropped. Together they give `LoggerOrderKept`. `Announced` gives
  `LoggerDropsAnnounced`: a backlog is dropped in the step that writes its notice.
  For `LogFile`: `LogFileNamesDistinct` from: the names are increasing and
  `lastRoll` is the last. `LogFileLinesBounded` from an invariant that gives late
  and overdue lines a budget of `count`, plus `checkEveryN - 1` for each setback.
* `InventoryProofs`. A writer has the mutex from its first step to its last, and
  from the moment it has seen `unique()` or made its copy nobody has a pointer to
  the current set. From this: the refinement of `SharedSet`, whole; and, with
  "a printer has its snapshot as long as it walks, and the request it is at is in
  it", that nobody prints a destroyed request.
* `SharedObjectsProofs`, for any number of threads, keys, stocks, observers, customers and
  maps. `StocksAreOne` and `StockDeletersInTime`: as long as no deleter has erased it, the
  entry of a key whose stock is in use is that stock (`InMap`), every deleter knows the
  key of its victim (`KeysKnown`), and a deleter of version 4 or 5 that is about to use the
  factory keeps it (`FactoryKept`).
  `ObserversNotifiedAlive`: as long as no two threads have been at the vector at once,
  `ObserverInv` says who is in it, once (`Registered`), that
  the observer that the walk has locked lives (`Locked`), what an observer
  that dies has made of the program (`Dying`), and what the walk has updated and has still before
  it while elements are erased at its index (`Walk`, `Walked`). `CustomerSnapshotsKept`: `CustomerInv` is copy-on-write's
  argument once more (`WritersAlone`), with the walker that itself posts.
* `ServersProofs`, for any connections, loops, limit and lengths of files; the theorems are
  about `MCServers`, whose steps are those of whichever server runs. `FilesArriveWhole`: the
  invariant `FilesInv` says that a connection has at most one callback, in the queue of its
  own loop, and none while it has output to be reported (`CallbacksOnce`); and of each
  connection in which of four stages it is. It has no `FILE` (`WithoutFile`); or it is up and a
  callback is due, and as many messages are out as blocks were read (`Sending`); or all is
  sent and none is due (`AllSent`); or it is down, and a callback still queued is `late`
  (`Gone`). Without the second part nothing rules out that two callbacks overtake the end of the
  file and close it twice. `CounterKept`, the part of `AnsweredExactly` about maxconnection:
  no call of a server moves a connection between up and not up, and as
  long as one is accepted there are fewer of them than the limit, rejected ones counted.
  `BroadcastReachesAll`, for any connections and any finite set of loops (a server has a fixed
  number of threads): the invariant `ChatInv` follows each pair of a receiver and a sender.
  What was sent to the receiver of the sender's messages is a run of their numbers, what waits
  for it in the queue of its own loop is the run that comes next, and all there is, but for the
  last message while a loop of "efficient" still walks with it (`Chained`); for a connection that
  is closing only as long as what waits for it may still be sent (`Reachable`). That needs that the
  list is that of the connections that are open (`ListExact`), that a loop
  walks with the last message of the connection it reads (`WalksLast`), and what may
  wait in which queue (`QueuesRight`): in "threaded" and "efficient" a message of another loop,
  so that the two ways a message can take, at once or through the queue, are never taken by messages of
  one pair, which could overtake each other. `AllInOrder` is one rank of all messages that
  the outputs and queues of all connections ascend in.
  The broadcast is a fold over a set; `FoldExists` shows that the recursive function behind
  `MapThenFoldSet` exists, and `SubsetInduction` what it computes
  (`SendAllBroadcasts`, `DistributeDistributes`).
  `BroadcastReachesAny` says the same of clients that write anything on any loops.
  `AnswersExact`, the whole of `AnsweredExactly`: the invariant `SmallInv` says of each
  connection, whatever the pieces its input came in, what it has been given
  and what stands in its buffer as functions of what was received (`Standing`, by program). Echo's
  output joined together is what came in, and nothing is kept back; finger has answered once the
  text holds a line, is down since, and holds the whole text until then; what the client of the time
  server has received and what is still to come are together the time (`ClientStands`). For chargen
  (`Flows`) a connection that is up has a callback in the queue or in the making, and the
  messages that follow a connection's first are counted as pairs of a connection and a
  number, so that one step adds one pair to a finite set
  (`Further`); none is counted twice (`Charged`), because no connection has two
  callbacks, and the last one of a connection that went down, which counts a message that was not
  sent, leaves it in `Spent`. It rests on lemmas about sequences of bytes cut anywhere: the two parts
  are the whole (`SplitIs`), the first line of a text does not change when the text grows
  (`FirstLineStays`), and concatenation of a list of texts is unfolded at its end
  (`FlattenedAppend`). `AnswersExactAny` says the same of peers that send
  anything (the time server its time) at any time on any loops; chargen's message and the
  bound on what it writes are those of `MCServers`.

**Only model-checked.**

* All liveness (the liveness half of the refinements,
  `WaitersReleased`, `StartTerminates`, `QueuedTasksBegin`, `RunReturns`,
  `StopTerminates`, `MessagesReachFile`, `EverybodyReturns`), which is beyond the prover.
* What compares an operator with a reference that is enumerated or computed by recursion over
  sequences. The library's induction theorems take an operator, which no prover here can
  instantiate; `ServersProofs` does induction on sets instead (`NatSetInduction`,
  `SubsetInduction`), which is enough for a fold, and has not been carried to these: `ConversionsExact`,
  `LineShape`, and of `ZoneInForce` the way back from local time, which is searched in a table
  whose local times need not ascend (`log_record`); and in `servers` the streams that are
  cut into frames and lines, and the solver (`FramesDelivered`, `RepliesMatch`).

`MutexHolderExact` and the type invariants (`BoundedTypeOK`, `PoolTypeOK`) are proved
and no longer run: what they say is in `ImplementsMonitor` and the refinements, or
holds by the shape of the queue.

## 5. Where the exceptions in the properties come from

* The pool can clog. A task that calls `run()` sleeps in it when the queue is full
  (ThreadPool.cpp:61-63) and its worker takes nothing meanwhile. `stop()` signals
  `notEmpty_` only (line 43), so such a worker is joined for ever. The properties
  name this case (`Clogged`, `NoWorkerLeft`) and hold otherwise.
* Tasks that are queued when `stop()` comes, or `run()` after it, are not executed
  (lines 102-107): the liveness of tasks is stated for a running pool.
* What is in the logger's current and queued buffers when the back end sees
  `running_` cleared is not written (AsyncLogging.cpp:73). `OrderKept` says exactly
  that: what is missing from the file is still in the pipeline, too long, or was
  dropped with a notice.
* When the logger's thread cannot be created `start()` waits on its latch for ever
  (AsyncLogging.h:33-34 and Thread.cpp:141-145): `StartHangs`.
* A `BoundedBlockingQueue` of size 0 is full and empty at once and blocks
  everybody; `Capacity` is at least one in the model.
* What `formatSI` prints is rounded from the double; just below a limit it has one digit too many
  (`CarriedOver` in `ConversionsExact`, section 6).
* A log line loses the pieces that do not fit its buffer, a number already when fewer than
  32 bytes are left, while shorter pieces behind them still get in; it loses its
  newline when one byte is left (`LineShape`, LogStream.h:32-38). A thread's lines of
  the second in which `setTimeZone()` is called keep the old zone's time (`outdated` in
  `StampsTrue`, Logging.cpp:109).
* An hour that is repeated for another reason than the end of summer time has no way
  back from local time (`SpelledLike` in `ZoneInForce`).
* `StockFactory` versions 3 and 4 erase whatever entry is there (lines 118 and 161, which
  say so), and version 3 may use a factory that is gone (`clobbered`, `dangling`).
* `Observer.cpp` has no lock: an observer that is destroyed while it is about to be
  updated, or after its subject, is used after its end. In `Observer_safe.cpp`
  `register_()` takes no lock: a `push_back` that runs into a walk may move the elements
  under its iterator. From then on (`unsafe`) the model lets a walk call anything (`Stray`), and
  nothing is promised; the properties say that nothing else leads there.
* The pool's sudoku server loses the answers that are not out when a bad line shuts the
  connection down (server_threadpool.cpp:62-63), and whether an id is too long depends on
  the pieces: a long line that arrives whole is answered (lines 52-71).
* `download2` uses its `FILE*` after the close when a write-complete callback was
  queued before the connection went down (download2.cpp:48-60, `late`).
* `maxconnection` counts a rejected connection until it is gone, so that for three seconds
  others may be rejected in its place (echo.cpp:33-45).
* Rolls of a log file are refused in the second of the last one and while a
  clock that was set back is behind `lastRoll_`; the bounds on lines grow with
  the number of setbacks, and the file's size is not bounded by `rollSize`.

## 6. Findings

`thread_pool_create_fails`: `Thread::join()` asserts `started_` (Thread.cpp:153).
When `pthread_create` fails, `Thread::start()` clears `started_` and returns
(141-145; the fatal log line is commented out), `ThreadPool::start()` keeps the
object, and `ThreadPool::stop()` joins it. The assertion fails in a debug build;
with `-DNDEBUG` `pthread_join` gets an id that names no thread.

`log_record_units`: LogStream.h:238 says that `formatSI()` returns at most five characters, and
LogStream.cpp:103 that its largest unit ends at "999P". The limits are compared with
the integer (line 138), but what is printed is the double (line 108): 99949999999999999 is below
the limit and is 99.95e15 as a double, which is printed as "100.0P", and 999499999999999999 is printed
as "1000P". `ConversionsExact` allows the digit too many to these numbers only (`CarriedOver`),
and beyond 2^53 the text to be off by what the double is.

## 7. What is not modelled, and why

* `Atomic`, `Singleton`, `ThreadLocal`, `ProcessInfo`, `StringPiece`, `Exception`:
  single steps, pure reads or external behaviour.
* `threadInitCallback_`, `setMaxQueueSize` after `start()`, and `stop()` from a worker,
  which would join itself, in the pool; nor anything about a task that is given to
  `run()` after `stop()`, which is neither executed nor refused.
* `LogFile::rollFile()` from outside, which takes no lock; writes that fail in
  `AppendFile` (FileUtil.cpp:36-41), after which neither the code nor a model knows what
  reached the file.
* The bytes of a zone file (version 2 data behind the first part included), and a file that
  cannot be opened: `readTimeZoneFile` ends with `return true` (TimeZone.cpp:185), so the
  zone then is valid, has no local times, and a conversion reads the front of an
  empty vector. The model starts from at least one local time.
* The digits of a double, the stack trace, the wording of log lines. What a fork makes
  of lines in the parent's stdio buffer, which both processes write: the model
  follows the child only.
* The chat client and its load generator: a terminal and statistics around the codec, which is
  modelled; reconnection is in `muduo::net`. The high-water mark callbacks, which only log.
* finger01 to finger06, which are finger07 with parts missing.
* `RequestInventory_test.cpp`, `MutualDeadLock.cpp`, `SelfDeadLock.cpp`, `Counter`: programs
  of a few lines that are wrong on purpose and say so.
* `source/recipes`: earlier copies of the library.

## 8. Plan

Done, in this order: mutex, latch and thread; the queues; the pool; the logger and
its file; `StockFactory`; copy-on-write and `Inventory`; their proofs; log lines with
calendar, zones and numbers; the servers; the objects of ch01 and ch02.

The second round of proofs is done as well: `OneStockPerKey` and `DeletersInTime`, the
logger's order and notices, the lifetimes of `Thread`, snapshots and observers, the file
servers and maxconnection's counter, the broadcast of the chat servers, the answers of the small ones, the stamps of log lines and the search in a zone's table.

Left, most important first:

1. `FramesDelivered` for any stream, cut into frames as `AnswersExact` cuts it into lines.
2. The way back in `ZoneInForce`: under which distance of the transitions from each other the
   local times ascend, too, and `fromLocalTime` then is the inverse of `toLocalTime`.
3. That the file, told that one writer's lines come one after the other, keeps its bounds
   when it is composed with the logger.

## 9. Running

    tlc -config ThreadPool.cfg MCThreadPool      # any run: its module and cfg in PROJECT.json
    tlapm ThreadPoolProofs.tla                   # any *Proofs module
