# Specifications of cpp_parallel_programming

The repository (`src/`) is a C++ course on parallel programming: two thread
pool libraries, many small concurrent programs and coroutines, and benchmarks
built on them.
This directory holds TLA+ modules that model the programs whose correctness
depends on interleavings, TLC configurations that check them on small
instances, and TLAPS proofs of the most important results for every instance.

Contents:

1. [The system](#1-the-system): components, state, operations, hazards
2. [The modules](#2-the-modules): what models what, and how to read a step
3. [The runs](#3-the-runs): questions, bounds, and what they show
4. [Fairness](#4-fairness)
5. [The proofs](#5-the-proofs)
6. [Where the code and its comments disagree](#6-where-the-code-and-its-comments-disagree)
7. [What is not modelled](#7-what-is-not-modelled)
8. [The plan](#8-the-plan)

Paths below are relative to `src/`. To check everything by hand:

    tlc -workers 2 -config MCThreadPool.cfg ThreadPool      # see section 3
    tlapm ThreadPoolProofs.tla                              # see section 5

`PROJECT.json` lists components, runs, mutants, findings, hazards and theorems
in machine-readable form, with the source lines of every definition. A *mutant*
is a plausible bug: an operator such as `Take_NoPop`, defined before the
definition `Take` that it would replace. Each property of each passing run has
at least one mutant that makes the run fail. No mutant is part of a next-state
relation.

## 1. The system

### Thread pools and what runs on them

**StdThreadPool::ThreadPool** (`lib/threadPool/include/threadPool.h`), and its
twin SimpleThreadPool (`0_tutorial/1_multiThread/5_threadsQuiz/08_threadPool.cpp`).
*State:* a FIFO queue of callables, a mutex, a condition variable, `stop`, the
worker threads, and for each callable a future. *Operations:* the constructor
starts the workers; `submitTask` and `submitTasks` lock, test `stop`, push,
unlock, notify one; a worker waits for work or `stop`, pops, runs; the
destructor sets `stop`, notifies all, joins. *Interaction:* the benchmarks share
one global pool (`gPool`); callables may submit to the pool that runs them.
*Hard:* the notification is sent after the unlock, so that it races with a
worker that looks at the queue of its own accord; the destructor drains the
queue while callables still submit. *Correct if:* no callable is lost, run twice
or stranded while a worker sleeps; what was accepted is run before the
destructor returns; the destructor returns.

**ParallelLib, ParallelLib2, ParallelLib3** (`lib/tbbThreadPool`). *State:* the
first keeps a `concurrent_queue`, threads that poll it, an arena of TBB and a
stop flag; the others, which are the same text twice, a `task_group` and a limit
on TBB's parallelism. *Operations:* submit, and the destructor. *Hard:* the first
stops without draining; the lambdas that it leaves in the arena refer to the pool
after its destruction; the others depend on a TBB that may have no thread to
give. *Correct if:* a callable is held by one thread; a future becomes ready or
breaks; the destructor returns.

**Benchmark case 2** (`1_benchmark/1_threadPool_test/src/case2_parallelismErosion.cpp`).
Parents run on `gPool`, submit children and wait for them while they hold their
worker. *Hard:* with as many parents as workers all may wait for children that
nobody can run. *Correct if:* with fewer parents than workers, or a pool per
parent, it ends; the demo ends too, by itself or by its watchdog.

**Benchmark case 3** (`case3_submitTasks.cpp`). Six strategies map in parallel on
`gPool` and reduce one result at a time: in main (block, pipeline, std_async), in
a thread with a condition variable (callback), in a second pool (dual), or in the
workers under a mutex (parallel_reduce). *Hard:* the counter and the notification
of the callback style (the repository's report describes a lost wakeup that it
once had); a vector of futures that is filled under a mutex and read without it;
workers that use variables of main's stack. *Correct if:* every item is
computed once and its result added to the sum once, after it was computed, and nobody
uses the locals of an iteration that has ended.

### Lock-free structures (`0_tutorial/1_multiThread/6_lockFree`)

**SPSCQueue** (`lockfree_queue.cpp`): a ring of plain slots, two atomic
positions with acquire and release. *Correct if:* the two threads never touch a
slot without an order between them, and items arrive in order, each once.

**MpscQueue** (same file): a linked list; a push is an exchange of the tail and
a store of the link. *Hard:* between the two the chain is broken; a producer
writes into a node that the consumer moves past and deletes. *Correct if:* no
deleted node is touched and the consumer sees the order of the exchanges.

**Lock-free stacks** (`aba_problem.cpp`): with a bare pointer and with a tagged
one, and the concurrent demo. *Hard:* ABA; a successor read through a pointer to a
node that another thread has deleted. *Correct if:* it is a stack whatever
addresses the allocator hands out again.

### Exercises with threads (`0_tutorial/1_multiThread`)

| program | state | hard part | correct if |
| --- | --- | --- | --- |
| producer_consumer (`5_threadsQuiz/01`) | bounded queue, two condition variables, a stop flag read without the mutex | who is woken at the end | within the bound, items in order and once, everybody ends |
| producer_consumer2 (`5_threadsQuiz/01`) | a slot, one condition variable | `notify_one` may wake the wrong kind of thread | nothing overwritten or printed twice, nobody left asleep |
| sequentialPrintABC (`5_threadsQuiz/02`) | a flag, three atomic flags, or promises | the hand-over of the turn | letters in turn |
| CountDownLatch, cpp20_latch (`5_threadsQuiz/04`, `2_threadsManage/6`) | counters | a latch counted down too often | main waits for the last worker, workers for the door |
| ReadWriteLock (`5_threadsQuiz/07`) | reader count, writer flag, one condition variable | only the last reader notifies | exclusion; nobody sleeps beside a free lock |

### Exercises with processes (`0_tutorial/2_multiProcess`)

| program | state | hard part | correct if |
| --- | --- | --- | --- |
| `1_forkAndExec.cpp` | children, shared memory of vfork and clone, a shared file descriptor | which child `wait` reaps; who may write when | every child but one is reaped, the file is complete, the counts are right |
| `1_pipeAndFIFO.cpp` | pipes with several ends, a FIFO | a full pipe; an end left open; opening before `mkfifo` | all data read, no end open, both end |
| `2_msgQueue.cpp` | a queue with a key, which outlives the run | messages of an interrupted run; who removes the queue | the urgent message first, nobody misses a message |
| `3_signal.cpp` | handlers, mask, flags, alarm | a signal between the test and `pause`; a flag that is not reset | no signal kills, loops end for the right one |
| `4_semaphore.cpp` | semaphores, a ring buffer, a reader count | order of the semaphores; a lock taken by one process and freed by another | exclusion, no item lost, everybody ends |
| `5_sharedMemory.cpp` | fields polled without a lock | two updates that overlap; a flag set too early | right unless two updates overlap |

### Eight queens (`1_benchmark/3_eightQueen/src`)

Searches with marks, with bit masks, and by dancing links; threads that take
ranges of the first row of half a board. *Hard:* undoing exactly what was done;
odd boards, remainders and halves. *Correct if:* all count what the brute force
of `nqueens.cc` counts.

### Other benchmarks (`1_benchmark`)

**Timed counters** (`0_basic_test/src/case4_tooManyThreads.cpp`, `case5_lockCost.cpp`).
*State:* atomics `ready`, `go`, `done`; a task index or a counter. *Operations:* main creates
threads that wait at the gate, releases them and times until all have reported.
*Hard:* what is inside the timed window; fresh state for each iteration. *Correct
if:* nothing is counted before the release, and everything when the clock stops, as
the assertions of case 5 say; they fail exactly when the threads do not divide the
work (section 6).

**PersistentTeam and the locks of the TBB benchmark** (`2_tbb_test/include/bench_common.h`,
`src/case2_mutex.cpp`). *State:* two barriers, a plain stop flag and a plain
function; counters under mutexes, read-write locks or atomics. *Hard:* only the
barriers keep the owner's writes away from the threads' reads. *Correct if:* each
operation counts once, and no write meets a read.

**Slots and nested loops** (`case1_partitioner.cpp`, `case3_nestedTask.cpp`). *State:* an
array of atomic sums, one per chunk. *Hard:* TBB divides ranges anywhere, so that
two bodies share a slot; a mutex held over a nested loop. *Correct if:* every
element is in its slot once; the only deadlock is the one the demo expects.

**PPL strategies** (`4_ppl_strategy_test/src/strategies.h`, `case5_uneven_tasks.cpp`). *State:* the
range and a sum. *Hard:* parts that do not divide it, or are more than its elements.
*Correct if:* each element is added once.

### Lessons with threads (`0_tutorial/1_multiThread`)

Short programs, one per feature of the library, with two to five threads each.

| lessons | state | hard part | correct if |
| --- | --- | --- | --- |
| mutexes and lock managers (`2_threadsManage/0_mutex.cpp`, `1_lockManager.cpp`) | mutexes of all kinds, counters, maps | `try_lock` that fails, recursion, readers beside readers | no race, no lost update, nobody unlocks what he does not hold |
| waiting (`2_wait.cpp`) | flags under a mutex, condition variables | a notification before the wait; a wakeup without one | who waits goes on, and only when the flag is set |
| promises and futures (`3_promise.cpp`, `1_threadCreate.cpp`) | the shared state of a promise, packaged tasks, stop tokens | a value set while another thread waits; a callback that runs in the requesting thread | the value is seen whole and once; stop is noticed |
| atomics and memory order (`4_atomic_operator.cpp`, `5_memoryOrder.cpp`) | atomics beside plain data | which store makes the plain data visible | plain data is read after the store that publishes it |
| barriers, semaphores (`6_cpp20_sync.cpp`) | counters of arrivals and permits | a thread that runs ahead into the next phase | phases do not mix, permits are not exceeded |
| deadlocks (`7_deadlock.cpp`) | two mutexes, levels | opposite orders; `std::lock`; hierarchy levels | the corrected versions end |
| OpenMP (`3_openmp`) | shared variables, critical, atomic, ordered, single, tasks, locks | what is shared and what is not | the sum of the serial loop, phases apart |
| quizzes (`5_threadsQuiz/05`, `06`, `6_lockFree/CAS.cpp`, `Foo` of `1_threadCreate.cpp`) | counters, two mutexes as signals | updates that overlap; the order of printing | no update lost, in the order that the quiz asks for |

### Coroutines (`0_tutorial/3_coroutine`)

**Frames, promises, awaiters, generators, tasks** (`1_cpp20`, `_code`). *State:*
for each coroutine its frame (not yet made, suspended, running, done, destroyed),
the fields of its promise (value, result, exception, continuation), the owner
that will destroy it. *Operations:* the promise type decides where a frame
suspends and who resumes the awaiter; a generator's `next` resumes and reads; an
awaiter may hand the handle to a detached thread that resumes it later. *Hard:*
control goes to and fro between frames on one stack; a frame that ends by itself
is gone when its owner destroys it; references to temporaries of the caller; a
`get` in main that races with a resume in another thread. *Correct if:* a frame is
resumed only where it is suspended and by one thread, destroyed once, and the
values are those of a plain loop.

**Schedulers** (`1_cpp20/6_scheduler.cpp`, `3_impl/3_simpleScheduler.cpp`,
`_code/std_coroutineUsage.cpp`). *State:* a ready queue or vector, timers,
priorities, the current task. *Operations:* spawn, run, yield, sleep, shut down.
*Hard:* a task that is put into a queue from two places; timers that outlive the
scheduler. *Correct if:* a task is in one place, none is lost, rounds are fair,
the most urgent task comes first.

### Parts that are not modelled

Each is listed in `PROJECT.json` with the reason, and in section 7: the Boost
coroutines, the context switches in assembler, the TBB exercises, the
measurements without a protocol.

## 2. The modules

A step is the largest piece of code that no other thread can observe in part: a
critical section together with the `wait` that ends it, one access to an atomic,
one system call. What happens between an unlock and the notification that
follows it is always a step boundary, and a condition variable may wake a waiter
without a notification (`SpuriousWakeup`). A thread's local control is a place
in `pc`; a callable, message or node is a model value or a small number.

### The core: pool, and programs on the pool

| module | models | state and actions in terms of the code |
| --- | --- | --- |
| `Executor` | the promise of a pool | a callable is new, queued, running, ready or refused; the pool open, closing or closed. `Close` requires that nothing accepted is left. Abstract: no code |
| `ThreadPool` | `threadPool.h` | `tasks`, `stop` as in the class; `cur[w]` is the worker's local `task`; `batch[c]` what a submit call has still to push; `status` the future. `Submit`, `Enqueue`/`Refuse`, `NotifyOne` are the submit calls, from the owner or from inside a callable; `Take`, `Park`, `Exit`, `SpuriousWakeup`, `Finish` the worker loop; `SetStop`, `NotifyAll`, `Join` the destructor |
| `NestedWait` | case 2 | `queue`, `run`: the pools, at the level that `ThreadPool` justifies (an idle worker takes the front). `args` chooses the benchmark and its number of parents. `SubmitParent`, `ParentsDone`, `Complete` are main; `SubmitChild`, `ParentReturns`, `ChildReturns` the callables; the watchdog leaves or aborts |
| `MapReduce` | what case 3 computes | abstract: items are computed in any order, then their results are added, once each. `computed` and `total_sum` count, per item, how often that was done: the integer `total_sum` of the code becomes the bag of what was added to it, so that an addition too many is a step that the specification does not have, and no stutter |
| `CallbackReduce` | case 3, callback style | critical sections of `result_mutex`: `Publish` then `Notify` by a worker; `Pop`, `Reduce`, `Break`, `Idle` by the serial thread; main submits, gets all futures, joins. The history `computed` counts the calls of `heavyComputation`; `total_sum` counts additions per item |
| `PoolReduce` | case 3, the other five | `strategy` chooses; the actions say which thread reduces, and when; `computed` and `total_sum` are as in `CallbackReduce` |
| `TbbPool` | `tbbThreadPool.cpp` | `lib` chooses the polling pool over an arena or the task group. TBB is external, modelled from its use: an enqueued lambda is called once by some granted thread; a spawned callable is started by a granted thread or by the one in `wait()` |

### Lock-free structures

| module | step | notes |
| --- | --- | --- |
| `SpscQueue` | one access to a position or to a slot | a load returns any store between the last one seen and the latest; what a thread has seen is what happens before its next step, which makes `NoSlotRace` a statement about data races |
| `MpscQueue` | one access to `tail_`, a link or `head_` | `Exchange` and `Link` are a push; the consumer runs after the producers are joined, as in the program, or beside them, as the class allows |
| `LifoStack` | abstract stack of values | |
| `LockFreeStack` | one access to `head_` or to a field of a node that may be deleted | addresses are reused; a read through a deleted pointer returns anything; the bare pointer is modelled with one popping thread, because the source says itself that several break it; tags do not wrap; loads see the latest store |

### Exercises with threads

`BoundedBuffer`, `SlotBuffer`, `ReadWriteLock`, `PrintOrder` and `Latches` model
one program each. `ThreadExercises` runs them, and `MpscQueue` and
`LockFreeStack`, one at a time: its initial state chooses `program`. Three
observations that the models make visible and the properties state:

* The `notify_all` that announces the end of production does not make a
  consumer look at the flag: its predicate is about the queue only. The time
  limit of `wait_for` ends it (`01_producerConsumer.cpp:46-48`, and 81 for the
  comment). Without the limit (mutant `Expire_Never`) the program hangs.
* `try_pop` of the linked queue may say "empty" although a push that came later
  in the list has returned, because an earlier one has not linked its node yet.
* libstdc++'s latch whose counter falls below zero is not at zero for anybody
  who waits; the standard leaves it undefined. See section 6.

### Lessons with threads

The first half of `ThreadLessons` holds the lessons as *scripts*: for each thread the
sequence of its operations in the order of the source, such as
`Lock("m")`, `Add("counter", 1)` or `Wait("cv", "m", "ready")`.
The second half is the machine: `Step(t)` does the next operation of thread `t`,
`GetLock` ends a wait for a mutex, `SpuriousWakeup` one for a condition variable.
`ThreadExercises` runs the lessons as the program "lesson".

* *Data races* are found by the happens-before order: `order` records what each
  thread knows of the accesses to plain variables, what each mutex and atomic passes on
  of it (an unlock, a release store, a fence, the end of a thread), and two
  accesses of which neither is known to the other, one of them a write, race.
  `RaceFree` names the one lesson that has a race: what `memory_order_consume`
  publishes beside the pointer (`5_memoryOrder.cpp:87`).
* A load returns the latest store. Relaxed loads that lag behind are not
  modelled; what a lesson may not conclude from a relaxed load appears as a race.
* `worker` of `6_cpp20_sync.cpp` takes a `std::barrier<>` (line 79), `task` makes one
  with a completion function (line 100), which is another type; the lesson is
  modelled as it is meant, one completion per phase.
* Loops are shortened to two or three passes; the work between is left out.

### Coroutines

| module | models | notes |
| --- | --- | --- |
| `CoroutineFrames` | frames, promises, owners, awaiters, detached threads | an interpreter: `stack[t]` is the call stack of a thread, whose entries say which function executes and what it does when it gets control back; a step is one operation of the script on top. What C++ leaves undefined (a resume of a frame that is not suspended, a read of a destroyed frame, a second destroy) is recorded in `misuse` and ends the example |
| `CoroutineExamples` | the examples of `1_cpp20` and `_code` | for each the script of main and of each coroutine, the promise types, what its loops should print (`prints`), and the undefined operation that it is known to run into (`flaw`) |
| `CoScheduler` | the schedulers | `style` chooses: ready queue and timed queue of owners, rounds and priorities over a vector, or a thread with a queue of handles |
| `Coroutines` | runs them one at a time | |

Recursive generators, pipelines, symmetric transfer and continuation chains are
all scripts of the one machine, so that the same properties speak of all of them.

### Exercises with processes

`Pipes`, `MessageQueue`, `Semaphores` and `ProcessCreation` give each process a
*script*: the sequence of system calls and shared accesses of its source,
consumed one per step. `Signals` and `SharedMemory` use places instead. The
kernel is external and modelled from how the code uses it. In all of them
sleeping is an arbitrary delay and system calls do not fail, but for the failures
that the examples are about. `ProcessExercises` runs them one at a time.

* Children of the pipe, queue and signal examples return from their example and
  would run the rest of main as parents of their own; here they end.
* `ProcessCreation` is all of main from `memoryIndependenceExample` on. The
  vforked child of `demonstrateDanger` (line 316) is never waited for, so
  that later calls of `wait(nullptr)` may reap a child other than the
  one meant; exactly one child is left over between examples
  (`OneLeftOver`), which the advice at line 797 warns of. `cloneThread` unmaps the
  child's stack after three seconds, and a child that still runs crashes.
* The counter of the keyed segment of `5_sharedMemory.cpp` is incremented with
  `(*counter)++`. The comment (line 184) calls it atomic; the property says what
  holds: `RightUnlessOverlap`.

### Eight queens

`Queens` defines the reference, `Solutions(n)`, as `bruteforce` does. `QueensSearch`
is the iterative search with marks or masks and its sub solvers, `QueensCover`
the dancing links down to every link of every node in both versions, `QueensThreads`
the division of the first row among threads. A machine that reports zero processors makes `solve_mt` divide by
zero; the model ends there (`DivideByZero`).

### Other benchmarks

| module | models | notes |
| --- | --- | --- |
| `StartGate` | case 4 and case 5 of `0_basic_test` | `bench` chooses; a step is one access to an atomic, but the increment under the mutex is two, so that the lock matters. `VerifyFails` is the assertion of case 5 in a Debug build, which ends the program; a Release build goes on (`NextIteration`, `Finish`). Zero threads (an unknown number of processors) end in a division by zero |
| `ThreadTeam` | `PersistentTeam` and `case2_mutex.cpp` | `Arrive` is a barrier; `called` remembers which assignment of `fn_` a thread calls; a critical section is two steps, load and store; TBB's locks are as `std::mutex` and `std::shared_mutex` |
| `RangeSplit` | `strategies.h`, `case5_uneven_tasks.cpp`, the strategies of `2_tbb_test` that use pools | a chunk's result is a sum of powers of four, so that the sum tells which element was counted how often; the shuffled variants read another array and are the same here |
| `SlotReduction` | `case1_partitioner.cpp`, the loops of `case3_nestedTask.cpp` | TBB may divide a range larger than its grain anywhere: every partitioner does one of the things that `Split` allows |
| `NestedSteal` | the two demonstrations of `case3_nestedTask.cpp` | `stack` holds the calls of each thread of TBB: a thread that waits in a loop starts other tasks on top of it |

`Benchmarks` runs these, `PoolReduce`, the pools of `TbbPool` and the queens, one at
a time: its initial state chooses `program`. The comment at
`case3_nestedTask.cpp:280-281` explains the deadlock by the chunk that a second
thread has stolen: the holder would wait for it for ever. In the model the second
thread has finished that chunk before it blocks; the deadlock arises because the
holder, while it waits, starts another task of the outer loop itself and locks
the mutex again. `NestedLock` says that this is the only way, and that `isolate`
closes it. Whoever has stolen a chunk is never inside it when the watchdog ends the
program; but chunks may be left that nobody has started, once every thread is blocked.

## 3. The runs

Twelve runs: eight that pass, four that show a disagreement (section 6). In every
passing run each property has a mutant that it catches.

| run | module | question | bounds |
| --- | --- | --- | --- |
| `MCThreadPool` | `ThreadPool` | is a callable ever lost, doubled or stranded; does shutdown drain and return; does the pool implement `Executor` | 3 workers, 3 callables |
| `MCNestedWait` | `NestedWait` | is a worker free in the safe zone; is a deadlock final; does every program end | 3 workers, up to 3 parents, 2 children |
| `MCNestedClaim` | `NestedWait` | violation: is the deadlock of the demo necessary | 2, 2, 2 |
| `MCCallbackReduce` | `CallbackReduce` | lost wakeups, use after the end, each result once, `Finishes` | 2 workers, 4 items |
| `MCBenchmarks` | `Benchmarks` | the other strategies against `MapReduce`; the TBB pools (one holder per callable, futures settle, destructors return, the group pools implement `Executor`); all queens solvers against `Solutions`; timed counters, slots and divided ranges against a serial sum; the nested lock; each program ends | case 3: 2 workers, 3 items; TBB pools: 1 worker, up to 2 threads of TBB, 3 callables; queens: boards of 1 to 5, 0 to 4 threads, 0 or 2 processors; gate: up to 3 threads, 3 tasks, 4 increments, 2 iterations; team: 2 threads, 6 operations, batches of 2; ranges of 3 and 5 elements in 1, 2 or 4 parts with grains 1 and 2; slots: rows of 4 or of 3 and 2 elements; nested lock: 3 threads, 4 tasks of 2 chunks |
| `MCSpscQueue` | `SpscQueue` | data races on slots, FIFO, everything arrives | 7 items through 4 slots |
| `MCLockFreeStackClaim` | `LockFreeStack` | violation: is a deleted node never read | 2 pushing, 2 popping threads, 2 addresses |
| `MCThreadExercises` | `ThreadExercises` | what each of seven programs and 55 lessons promises; that each ends, but for two lessons about deadlock | 3 threads of each kind (2 poppers), 2 items, 3 rounds; stack: 2 addresses, one push per thread; lessons: up to 4 threads beside main, loops of 2 or 3 passes |
| `MCLatchClaim` | `Latches` | violation: does the start door hold back the workers | 2 workers |
| `MCProcessExercises` | `ProcessExercises` | what each of six programs promises; that each ends but for the hangs that the code admits | 3 children; the loops of the examples shortened to 1 to 5 passes |
| `MCCoroutines` | `Coroutines` | is every frame used as the language allows; do generators, tasks and timers deliver what they should; do the schedulers lose, double or misplace a task; does every example end | every example of `1_cpp20` and `_code` with loops of 2 to 5 values; schedulers: 3 tasks of 2 steps |
| `MCTurnsClaim` | `Coroutines` | violation: do the tasks of the ready queue take turns | 2 tasks of 5 steps |

Why the bounds are enough for what they are for:

* Three workers and three callables are the least with a sleeper, a worker that
  overtakes it and a third that submits; the proofs cover every number.
* Parents are below, at and above the threshold where a deadlock can arise:
  with three workers, 2 parents are inside the safe zone and 3 outside.
* Seven items take a ring of four slots around twice, so that every slot is
  reused and the ring is full and empty at different positions.
* Two addresses and two pushing threads make the allocator hand an address out
  again while another thread still expects it at the top.
* Boards of one to five columns include odd and even ones, one without a
  solution and the degenerate one; thread numbers include 0 (all processors),
  numbers that do not divide the board, and more threads than columns.
* Four increments among one and three threads divide the work and do not; two iterations
  show what outlives the first. Six operations in a team of two give each thread
  more than one batch and the read-write lock two writers among readers.
* Ranges of three and five elements in four parts leave parts that are short, empty or
  begin behind the end. Rows of three and two elements with a grain of two have a
  last block that is short, and one row that needs no more than one slot.
* Three threads let one hold the mutex, one block on it, and one run the chunks. With
  four tasks there is one for each of them and one that the holder can start on top
  of its own: all threads may be blocked while chunks are left.
* A pipe of five units takes two messages and not the flood of four; a read
  takes more than one message and less than two.
* `MaxRuns` (3) bounds how often a program is interrupted and run again on the
  same message queue, `MaxInterrupts` (1) how often the user interrupts one of
  the signal examples. They are the only bounds on the environment.

* Three tasks of two steps let a scheduler wrap around, finish one task while
  others are left, and order three priorities. Two tasks with five steps are the
  least with which the doubled entry of `MCTurnsClaim` shows.

`CHECK_DEADLOCK FALSE` is said where the system may really stop: the programs
of `ThreadExercises`, `ProcessExercises`, `Benchmarks`, `Coroutines` and
`Latches` end (and some of the examples hang, see `ProcessesEnd` and
`ProgramsFinish`), and the owner of a `TbbPool` may wait for ever.

### What the properties say

*Pool.* `Bookkeeping`: each callable is in one place only. `Shutdown`: a worker
leaves only a stopped and drained pool. `NoStrandedTask`: while a worker sleeps,
each queued callable has a worker on its way to the mutex or a notification still
to be sent. `Progress`: what was accepted is finished, the destructor returns.
`KeepsPromise`: refinement of `Executor`.

*Nested waiting.* `FreeWorker`: in the safe zone some worker of `gPool` holds no
parent. `DeadlockIsForever`: only the watchdog leads out. `OnePlace`, `Ends`.

*Map and reduce.* `NoLostWakeup`: the serial thread never sleeps while there is
something to do and nobody is about to notify it. `Handout`, `NobodyOutlives`
(the condition variable on main's stack). `ComputesSum` and `Reduces` (refinement of
`MapReduce`): each item is computed once and its result added once. Two mutants break the
"once" of each alone: a result that stays in the queue when it is popped (`Pop_Kept`), a loop of main that
takes a result again (`EndLoop_ReducesAgain`). `PoolsSafe` (the futures of the dual strategy are
complete when main reads them), `Finishes`.

*TBB.* `PoolsSafe`: one holder per callable, and the pool's own
threads do not touch a destroyed pool (the arena's may: place "dangling");
`PoolProgress`: futures become ready or break, and destructors return. A
`get` on the pools over a task group is guaranteed only if TBB grants a thread
(`Served`): with `threadCount = 1` it does not, and an owner that waits for a
future before it destroys the pool waits for ever. `GroupKeepsPromise`: these
pools implement `Executor`; `ParallelLib` does not, by design of its destructor.

*Lock-free.* `NoSlotRace`, `Fifo`, `AllArrive`; `LockFreeSafe` and `StackIsLifo` (the
stacks); the linked queue is in `ExercisesSafe`.

*Counting.* `PartsAddUp`: the solvers keep their state in step with the board and
count each solution once (but for the board of one column, see section 6), and each
element of a divided range is added once, in its slot.
`CountsExact`: no work falls outside of the timed window and no increment is lost; the
counters of case 5 fall short of `kTotalWork` by the remainder that `per_thread` drops, and
their assertion fails if and only if there is one; the team's barriers order `fn_` and `stop_`. `NestedLock`: the deadlock has one cause.

*Exercises.* `LockSafe` (readers and writers), `ExercisesSafe` (the bounded queue, the
slot, the letters in turn, the latches, the linked queue), `ChannelsSafe` (pipes, FIFO, message
queue, signals), `MemorySafe` (semaphores, shared memory) and `ChildrenSafe` (process creation)
join the invariants of the modules. After an interrupted run of the message queue the next one
receives the old messages, against which the code does nothing: of such a run `ChannelsSafe` says only that
the urgent message still comes first. `ProgramsFinish`, `BenchmarksEnd` and
`ProcessesEnd` say that each program ends. `ProcessesEnd` names its exceptions: the
reader that looks for the FIFO before it is made, the second message that never
comes, the signal between the test and the pause. `ProgramsFinish` names two
lessons: the opposite orders of `7_deadlock.cpp:28-42`, and lines 174-175.

*Lessons.* `LessonsSafe`: no data race, no misuse of a mutex, and the right result when
the threads have ended, each with the exceptions that the code has.

*Coroutines.* `FramesSafe`: one runner per frame, resumed only where it is suspended,
destroyed once, nothing left; the examples that break a rule are named with their
line, and each breaks that one only. `PrintsRight`: the values of a plain loop.
`SchedulersSafe`: a task is in one place, rounds are fair, priorities are kept, but
for the queues of owners, which double tasks. `ExamplesEnd`.

## 4. Fairness

* *Threads and processes are scheduled* (weak fairness of each one's next step).
  A mutex is granted at last to a thread that asks for it: the critical sections
  are finite and no model lets a thread hold one for ever.
* *Callables and computations end.* A callable that blocks is modelled by its own
  steps (`NestedWait`) and not assumed to end.
* *Stores become visible* (strong fairness of the loads in `SpscQueue` that see
  the latest store): the standard asks implementations to make stores visible in
  reasonable time.
* *An exchange on the stack does not fail for ever* while what it expects is
  there infinitely often (strong fairness of `Push` and `Pop`). A lock-free structure
  promises progress to some thread only; the programs end because the number of
  operations of the others is finite, so this is no more than the schedule gives.
* *Timeouts and timers expire* (the `wait_for` of the bounded buffer, the alarm, the
  watchdog).
* *A lock that is free again and again is got at last* (strong fairness of `GetLock` in
  the lessons): with a fair scheduler and finite scripts the other threads run out of
  operations.
* *Coroutines are not threads*: in `Coroutines` it is the main thread, the detached
  threads and the scheduler's thread that are scheduled fairly, and sleeps that end.
  Nobody is obliged to resume a coroutine: if the code does not, `ExamplesEnd` fails.
* Nobody is obliged to submit, to destroy a pool or to interrupt a program, and
  spurious wakeups are never relied on.

In `Benchmarks` each step of a program brings it nearer to its end, whoever takes it, so
it is enough that some step follows as long as one is enabled (weak fairness of
the next-state relation). Two programs differ. The dancing links are one
thread; that it is scheduled is written as "if it has not ended, it takes
infinitely many steps", which says the same as weak fairness of an action that
is enabled until the end, and spares TLC an enabledness test over their
links. The threads of the pools over TBB poll, so that a step need not be progress:
each of them is scheduled fairly, as are the destructor and a `get` that can return.

## 5. The proofs

All proofs are checked by TLAPS from the definitions, the library's theorems
about finite sets and sequences, and the named assumptions of the modules on their
constants. A module of proofs extends the module that it is about; those of the ring
buffer stand at the end of `SpscQueue` itself.

**`ThreadPoolProofs`** (`PoolAssumption`: workers exist, are finite in number, and
are not the owner; the empty callable is not a task). Any number of workers, any
set of callables, submissions from the owner and from running callables.

1. `TypeCorrect`: `TypeOK` is inductive by itself. It says also that a worker's
   local `task` is empty exactly outside of a run, on which the rest relies.
2. `BookkeepingCorrect` and `ShutdownCorrect`: `TypeOK /\ Bookkeeping` and
   `TypeOK /\ Shutdown` are inductive. The hard step is `Take`: the front leaves
   the queue, no other position holds it (`PopFront`), and no other worker does.
3. `NoWakeupLost`: `TypeOK /\ NoStrandedTask` is inductive. Its measure
   is the number of queued callables against workers at the mutex plus pending
   notifications; each step is shown to keep the difference, by cases on whether a
   worker was parked.
4. `ImplementsExecutor`: under `AbstractLife` and `AbstractPhase` the initial state
   maps to the initial state and each step to a step of `Executor` or a
   stutter. `Join` maps to `Close`, whose condition, nothing left, is where
   `Bookkeeping` and `Shutdown` are needed.

**`NestedWaitProofs`** (`NestedAssumption`: finite, non-empty set of workers, numbers of parents and children).
`OnePlaceCorrect`: no two workers hold one parent. `SafeZoneCorrect`: with fewer parents
than workers a worker stays free. By `OnePlace`, the map from a worker that holds
a parent to that parent is injective; were every worker held there would
be as many parents as workers.

**`CallbackReduceProofs`** (`CallbackAssumption`: workers exist). `Handout` and
`TypeOK` are inductive together; `NoLostWakeup` (`WakeupCorrect`) is inductive relative
to them, with the case that matters in `Notify` and in the serial thread's `Idle`;
`NobodyOutlives` (`OutlivesCorrect`) follows from `TypeOK` and `Handout`.
`SumCorrect`: the style implements `MapReduce`, with its counts. `Ledger` is the missing
invariant. It says that each result is in one place (the queue `Ready`, the serial thread's
hand, the sum `reduced`), that results exist exactly for the callables that are done or
about to notify, and that `completed_tasks` is their number; a serial thread that leaves has
therefore seen them all. `Once` says that no count exceeds one: an item that a worker
publishes has no result yet, and one that is reduced is not in the sum, both by `Ledger`.
`Publish` maps to `Map`, `Reduce` to `Reduce`, everything else to a stutter.

**`SpscQueue`** (`SpscAssumption`: the capacity is positive). The invariant is
`TypeOK /\ Bounded /\ Fifo`; `Bounded` says that no view is ahead of the other
thread and that at most `Capacity - 1` items are in the ring. Two stores to
different items of such a window go to different slots: `SamePosition`, from
arithmetic of `%`. `FifoCorrect` and `RaceFreeCorrect` follow, for every capacity
and every number of items.

**`BenchmarksProofs`** (`BenchmarkAssumption`: there are items, workers and threads, the owner of a
pool is not one of its threads, threads of the pool are not TBB's, and the callables are finite in
number; the team has threads and operations, which its threads and the batches divide without
a remainder, as the constants of `case2_mutex.cpp:31-37` do; tasks, work, processors and gated
threads are natural numbers).

1. `ReducesCorrect`: block, pipeline, std_async, dual and parallel_reduce implement `MapReduce`, for
   every number of workers and items. The types are not inductive alone. `ReduceInv` adds
   who works on what (`Working`), which results exist (`Results`), where those are that
   dual hands to its second pool (`InSerialPool`) and which futures it has recorded
   (`Recorded`), what is in the sum (`Summed`) and what the place of main says about all
   of this (`MainKnows`). `Once`, next to it, bounds the counts: a result is added where it is
   not in the sum yet, whichever thread does it. Main ends only when everything is in the sum.
2. `PoolsCorrect`: with `ReduceInv`, dual's vector is complete when main reads it: a
   future that is ready has been recorded. For the pools over TBB, `TbbInv` says where each
   callable is (`TbbQueue`, `TbbHolders`), that the threads of a pool over an arena have
   left once the destructor releases its members (`TbbArena`), and that `wait()` leaves neither
   queued nor running callables behind (`TbbGroup`). `TbbRoom` bounds the lambdas in the arena
   by the submissions.
3. `GroupKeepsPromiseCorrect`: with `TbbInv`, the pools over a `task_group` implement `Executor`; the
   release of the members is its `Close`, and `TbbGroup` is what its condition needs.
4. `NestedLockCorrect`: any number of threads, tasks and chunks. `StealInv` describes the stacks of
   calls: a thread leaves a call only where it waits in an inner loop, with the mutex in its
   hands, and there is one such thread (`StealStacks`, `StealMutex`). Inside `isolate` no
   task of the outer loop is anybody's second call (`StealIsolated`). So where the watchdog
   aborts it is the holder itself that locks again, with a second task on top of its own.
   The proof showed that an earlier form of the property was too strong: it denied that
   chunks could be left, which holds only for no more tasks than threads. The run now has
   more tasks.
5. `CountsCorrect`, for the gate. `Counted` is the set of increments made, a pair of thread and
   number each; `GateInv` says that the counter is its size, that of the tasks claimed each is
   running or counted, that who holds the mutex has loaded the latest counter, and what the
   place of the main thread says about all of this (`GatePhases`). Once all threads have reported,
   n threads have made n times `TotalWork \div n` increments, which is `TotalWork` less its
   remainder (`GateTotal`, `Leftover`): the assertion of case 5 fails if and only if that is not zero. For the team and the arena, `Owed(u)` is
   what thread u has still to do: its slice of the operations from the moment at which the
   owner resets the counter, and the rest of it once the thread has started. `TeamShares`
   says that no operation is owed twice, by two threads or by a thread and a batch;
   `TeamCounts` that the counter is the number of writes no longer owed (`Made`); `TeamLock`
   that who holds the lock to write has loaded the latest counter and is alone. `TeamPhases`
   is the argument about the barriers: while the owner is outside of `run` every thread is
   before `start_`. When the owner verifies nothing is owed, and the writes are all operations,
   or every fifth one (`FifthsCount`).

**`ThreadExercisesProofs`** (`ExercisesAssumption`: the threads are finite in number, the two
kinds are apart, somebody consumes, everybody does something, the empty value is no
producer's; `NodesAssumption`: a null pointer is no node, and the first node of the
linked queue carries no item; `StackAssumption`: finitely many addresses, the null pointer is
none of them, and the marks for a freed node and for an untagged head are neither nodes nor
numbers). Any number of readers, writers, producers, consumers, workers, items and
rounds; any number of pushing and popping threads, operations and addresses, of which a
new node gets any that is free.

1. `LockCorrect`: `LockSafe` is inductive by itself. The reader count is the number of
   readers inside (`ReaderEnters`, `ReaderLeaves`); the last one out, and a writer, wake
   everybody, so that whoever sleeps has a reason.
2. `ExercisesCorrect`: `ExercisesSafe` follows from one invariant per program.
   `BufferInv` adds to the property who has ended and what that says about the
   queue (`BufferControl`). Its hard step is `Consume`: the front of the queue is the
   next item of its producer (`FrontIsNext`), because that item is in the queue and every
   item of the producer in front of it is older. `SlotInv` is the property itself: whoever
   fills or empties the slot wakes somebody of the other kind or finds none asleep
   (`SlotWakes`). `OrderInv` ties the flag, or the lights, to the number of letters, and in the chain of promises
   says that at most one printer is between its first and last letter.
   `LatchInv` counts the workers that are not done and those that have been at the door.
   `MpscInv` numbers the nodes of the linked queue in the order of the exchanges
   (`NodeAt`). Each link is made, or its producer has still to make it (`Links`); the
   links up to the sentinel are made and their nodes deleted (`Consumed`), so
   that no producer holds a deleted node. That different numbers are different nodes
   (`NodesApart`) is what keeps one producer's link from touching another's.
3. `LockFreeCorrect`: `StackInv(s)` is preserved in the sense that some sequence `s` of
   addresses satisfies it after the step if one did before (`StackStep`); a push puts the
   new node in front of `s`, a pop takes the first away, other steps leave it alone.
   The list in memory is unique (`OneList`) and no longer than there are addresses
   (by the pigeonhole principle), so that it is the one that `Reached` chooses.
   `StackNodes` and `StackValues` say whose every living node is and where every value;
   `StackCounts` that the counter never passes what was returned. The heart is
   `StackHeads`: with a tag, the head that a popping thread has seen either is the top or
   has an older tag, so that an exchange that succeeds has read the right
   successor; without one, nobody else pops, and what was seen stays in the list.
   This is the argument why the tag cures ABA.
4. `StackImplementsLifo`: under the same invariant `Push` and `Pop` are steps of `LifoStack`,
   and all others stutter.

**`ProcessExercisesProofs`** (`PipeAssumption`: a message has a unit and fits the reader's buffer, as
every text of `1_pipeAndFIFO.cpp` fits its `BUFFER_SIZE`; `QueueAssumption`: the program is run
once at least and polls once at least; `SignalAssumption`: rounds, waits and interrupts are
natural numbers; `SemaAssumption` and `SharedAssumption`: the children and the programs are
finite in number and have names of their own, a buffer has a slot). A process runs a script, and
what is left of it is an end of the script from its beginning (`PipePlaces`, `QueuePlaces`,
`SemaPlaces`). So the number of steps that a process has made, or has still to make, says what it holds
and what it has put in and taken out, whatever the others do in between.

1. `MemoryIsSafe`. Of the semaphores, `MutexHeld` says that the mutex is 1 less the processes
   that have made a `P` and not yet the `V` (`HasMutex`). `RingHeld` gives the other two
   semaphores, the items made and those taken as quotients of the steps made, and the bounds
   of the ring follow by arithmetic; that `in - out` and `count` agree modulo the slots by
   `WholeTurns`. `ReadersHeld` says that the counted readers are those between `arrive` and `depart`, and
   that the lock is taken as long as one of them is past the first; that it is another
   process that frees it does not matter, as no process is named. `CountHeld` counts the
   increments written (`Written`). `Collected`: the parent removes the semaphores when all
   children have ended. Of the shared segments, `RingPlaces` says what each of the two processes knows
   of the count where it stands: room that the parent has seen cannot be taken by the child.
   Unless two updates have overlapped the count is exact, and the slots between `tail` and
   `head` hold the items that are made and not taken (`RingExact`).
2. `ChannelsAreSafe`. Of the pipes, `PipeHeld` says which end each process holds, by the calls that
   are left (`Holds`), and `PipeOnce`, `PipeTwice`, `PipeFlood` and `PipeNamed` what
   was written and read. Of the message queue, `Urgent` says that the first message that the
   child has taken is the urgent one and that the others are not, and `Undisturbed` what is in the queue of a first
   run, by the calls that are left. Of the signals, `SignalTyped` says that who may be
   sent a signal has a handler for it, which is why the child of `parentChildExample` survives
   a signal that comes before it has registered its own; `Alarms` and `Rested` count alarms and
   interrupts against rounds, and `Masked` says where a blocked signal is.

**`CoroutinesProofs`** (`SchedulerAssumption`: the tasks are numbered from 1, and each prints a line at
least). `SchedulersAreSafe`, for any number of tasks and lines. The property is not inductive:
`TakeTurns` speaks of lines, but what the vector keeps in balance is how often a round has come to a task
(`Taken`). `RoundsFair` says that these numbers do not fall along the vector and that the last is
at most one more than the first. The task in front, whose turn comes next, moves to the end with one
more (`Rotation`), and is not over while any task is not. `PriorityKept` says that of two tasks
the lower has begun, or is about to, only if the higher is over; `HeldOnce` counts the places of a task in the scheduler with
a thread, which are one from its first timer to its end; `FramesKept` that what runs is not
over. `LinesCounted` ties the lines printed to the steps left.

`TypeOK` of `NestedWait`, `CallbackReduce` and `SpscQueue`, and `Bounded`, are
proved, and for that reason not repeated in a run.

*Model-checked only:* every liveness property (TLAPS has no proof rule for
fairness here). `LessonsSafe`, `FramesSafe` and `PrintsRight`: the lessons and the examples of
coroutines are dozens of programs without a parameter, each a script of its own, so that a
proof would only repeat, program by program, what TLC does in full. `ChildrenSafe`: the scripts of
`ProcessCreation` are built by an operator that takes an operator and folds it over a range,
which the provers cannot expand for a number of rounds that is not known.
What recursive definitions compute (`PartsAddUp`: the queens, the sums of a divided
range and of its slots) is compared with a reference on bounded instances; it cannot be proved with the
installed provers, which do no induction over data.

## 6. Where the code and its comments disagree

| run | property | what |
| --- | --- | --- |
| `MCNestedClaim` | `NeverCompletes` | `case2_parallelismErosion.cpp:89-90` calls the deadlock of as many parents as workers a mathematical necessity, and a completed run a sign of a wrong analysis. Main submits parents one at a time while workers already run; if the children of an early parent are queued before the last parent, free workers run them and the demo completes. The deadlock is possible, not necessary. |
| `MCLockFreeStackClaim` | `NoUseAfterFree` | `aba_problem.cpp:193` promises that the version with tags does not crash. Its `pop` reads the successor through the pointer it has loaded (line 227), whose node another `pop` may have deleted. The tag makes the exchange fail afterwards; the read has happened. |
| `MCLatchClaim` | `StartDoor` | the workers of `cpp20_latch` call `arrive_and_wait` on the start door themselves (`6_cpp20_sync.cpp:31`), whose count is 1 (line 42): the first worker opens it before main does, and further arrivals take the counter below zero. |
| `MCTurnsClaim` | `TakeTurns` | `6_scheduler.cpp:101` says that the two tasks take turns. `yield_current` pushes the running task (line 68), and `run` pushes it again when it comes back and is not done (lines 61-64): each yield doubles the entries of the task, and one may print several lines while the other waits. |

Disagreements that a passing run states as the code's behaviour:

* `nqueens.h:5` says that all solvers count the same. On a board of one column the
  sub solver with masks starts behind the row in which it would count (lines 354,
  373): `solve_bitopt_mt(1)` is 0, `solve_bitopt_serial(1)` is 1. `PartsAddUp` names it.
* `case5_lockCost.cpp:173` and `184` assert that the counter is `kTotalWork`. Each
  thread counts `kTotalWork / resolveThreadCount(state)` (lines 167, 177), which drops the
  remainder. The model has the assertion (`VerifyFails`), and `CountsExact` says when it fails:
  if and only if the number of threads does not divide the work. The sweep is 1, 2, 4 and the
  number of processors, so it takes a machine with 7 or 14, say. The run
  includes 3 threads with work 4, where a Debug build aborts.
* `HierarchicalMutex` puts `current_level` back right after it has locked
  (`7_deadlock.cpp:148`), so that the wrong order of lines 174-175 is never refused,
  although the comment there says that it is; the two threads may wait for each other.
* The comment of `4_tbb/1_exception.cpp:45-53` says that `function_b` catches; the code
  does not, and the `Guard` of `function_a` takes its counter down twice (lines 57-60).
* `is_prime(int)` of `3_promise.cpp` is given 3045348722, which wraps to a negative
  number and is printed as prime.
* `demonstrateScheduler` (`std_coroutineUsage.cpp:559-571`) starts no task.
* `Foo` unlocks, in the threads of `second` and `third`, mutexes that main has locked
  (`1_threadCreate.cpp:53`, `58`), which the standard leaves undefined. `ProperUse` names it.

## 7. What is not modelled

* *Boost coroutines* (`2_boost`, `boost`, `2_impl/_code`): single-threaded uses of a
  library whose hand-over is a call and a return; what could go wrong in their
  pipelines is covered by the generators and tasks of `Coroutines`.
* *Context switches* (`2_impl/X64Coroutine`, `X86Coroutine`): registers and stacks in
  assembler.
* *TBB exercises* (`4_tbb`): single calls of the library. The flow graph with a limiter
  (`4_flow_graph.cpp:153-188`) drops what `try_put` rejects and decrements
  by an edge and by hand; whether it delivers depends on the inside of TBB.
* *The event-driven scheduler* of `3_simpleScheduler.cpp`, the producer and consumer of
  `7_quiz.cpp` and `traditional_callback_approach`: the former two run in one thread
  without a choice, the last is three detached threads and no coroutine.
* *OpenMP* loops whose result no schedule can change.
* *Libraries*: TBB, OpenMP, Boost and the kernel are modelled only as far as code
  under `src/` relies on them.
* *Measurement and output*: Google Benchmark registrations, timing loops, text.
* *Weak memory* beyond the visibility of the positions in `SpscQueue`: the other
  models let a load see the latest store.
* *Machine level*: the assembler of the context switches; registers and stacks.

Within modelled programs, the following is left out: `sigactionExample` of
`3_signal.cpp` (one thread); the timing loops of `4_semaphore.cpp`; the three
examples of `5_sharedMemory.cpp` that synchronise by sleeping; the recursive
mask searches of `nqueens_opt*.cc`, which visit the states of the iterative one.

Hazards that no property covers, apart from those listed in `PROJECT.json`:
`i * i` may overflow in the load of case 3; a tag may wrap around
(`aba_problem.cpp:107`); readers may starve writers in `ReadWriteLock`; the signal
handlers print through `std::cout`; the System V semaphores are used
without `SEM_UNDO`; a ring of capacity 1 holds nothing.

## 8. The plan

Done, in this order: pool and its promise; nested waiting; map and reduce;
lock-free structures; the TBB pools; thread exercises; process exercises; queens;
gates, teams, slots, divided ranges and nested locks of the benchmarks; coroutines
and their schedulers; the lessons on locks, waiting, promises, atomics, memory
order, deadlocks and OpenMP; proofs of the pool, nested waiting, all reductions of case 3,
the ring buffer, the stacks, the thread exercises, the TBB pools, the timed counters,
the nested lock, the pipes, message queues, signals, semaphores and shared segments, and
the schedulers of coroutines.

What could follow:

1. *Proofs.* The slots of `SlotReduction`, whose sums are additions one by one; the machine of
   `CoroutineFrames` for every script of generators, if it is said what a script may be.
2. *Coroutines of Boost*, as scripts of `CoroutineFrames` with two-way values, and the
   table of records of `2_impl`, which says who may switch to whom.
3. *Weak memory* for the lessons: loads that return older stores, as in `SpscQueue`.
