------------------------------ MODULE StartGate ------------------------------
(***************************************************************************)
(* The benchmarks of 0_basic_test that create their threads, hold them at  *)
(* a gate and time what they do behind it: case4_thread_count, where they  *)
(* claim tasks, and the counters of case5_lockCost ("baseline" counts in a *)
(* local variable).  The contrast, case4_per_task_thread, has a thread per *)
(* task and no gate.                                                       *)
(***************************************************************************)
EXTENDS Integers, FiniteSets

CONSTANTS
  ThreadNumbers,    \* state.range(0); 0 stands for hardware_concurrency()
  Cores,            \* what hardware_concurrency() may return
  TotalTasks,       \* total_tasks of case4
  TotalWork,        \* kTotalWork of case5
  Iterations        \* bound: the rounds of "for (auto _ : state)"

VARIABLES
  bench,            \* the benchmark
  num_threads,      \* its threads are 0..num_threads - 1
  iteration,
  main,             \* where the main thread is; "aborted": assert failed
  ready, done, go,  \* the three atomics of the gate
  next_task,        \* next_task of case4
  counter,          \* tasks run, or the counter of MutexState or AtomicState
  mtx,              \* the threads that hold mtx
  pc,               \* thread -> where it is
  left,             \* thread -> rounds of its counting loop that are left
  seen              \* thread -> the counter that it loaded under mtx

vars == <<bench, num_threads, iteration, main, ready, done, go, next_task,
          counter, mtx, pc, left, seen>>

Counting == {"baseline", "mutex", "atomic"}
Gated == {"thread_count"} \cup Counting

Threads == 0..num_threads - 1

\* Mutant: the remainder makes every share greater by one.
per_thread_Ceil == (TotalWork + num_threads - 1) \div num_threads

per_thread == TotalWork \div num_threads

\* The number of threads of each benchmark; case4_thread_count is registered
\* without the sentinel.
resolveThreadCount ==
  IF bench = "per_task_thread" THEN {TotalTasks}
  ELSE (ThreadNumbers \ {0})
         \cup {hw \in Cores : bench \in Counting /\ 0 \in ThreadNumbers}

\* What an iteration starts with: fresh atomics, fresh shared state.
Fresh == [ready |-> 0, done |-> 0, go |-> FALSE, next_task |-> 0, counter |-> 0]

Init ==
  /\ bench \in Gated \cup {"per_task_thread"}
  /\ num_threads \in resolveThreadCount
  /\ iteration = 1
  /\ main = IF bench \in Counting /\ num_threads = 0 THEN "undefined" ELSE "creating"
  /\ ready = Fresh.ready /\ done = Fresh.done /\ go = Fresh.go
  /\ next_task = Fresh.next_task /\ counter = Fresh.counter
  /\ mtx = {}
  /\ pc = [u \in Threads |-> "absent"]
  /\ left = [u \in Threads |-> 0]
  /\ seen = [u \in Threads |-> 0]

Goto(u, place) == pc' = [pc EXCEPT ![u] = place]

-----------------------------------------------------------------------------
\* The main thread.

\* threads.emplace_back, one after the other.
Create(u) ==
  /\ main = "creating"
  /\ pc[u] = "absent"
  /\ \A v \in 0..u - 1 : pc[v] # "absent"
  /\ Goto(u, IF bench \in Gated THEN "starting" ELSE "running")
  /\ main' = IF u # num_threads - 1 THEN "creating"
             ELSE IF bench \in Gated THEN "gathering" ELSE "joining"
  /\ UNCHANGED <<bench, num_threads, iteration, ready, done, go, next_task,
                 counter, mtx, left, seen>>

\* Spin until all threads are ready, and let them go: the clock runs.
Release ==
  /\ main = "gathering"
  /\ ready = num_threads
  /\ go' = TRUE
  /\ main' = "timing"
  /\ UNCHANGED <<bench, num_threads, iteration, ready, done, next_task, counter,
                 mtx, pc, left, seen>>

\* Spin until all threads are done: the clock stops.
StopClock ==
  /\ main = "timing"
  /\ done = num_threads
  /\ main' = "joining"
  /\ UNCHANGED <<bench, num_threads, iteration, ready, done, go, next_task,
                 counter, mtx, pc, left, seen>>

Join ==
  /\ main = "joining"
  /\ \A u \in Threads : pc[u] = "exited"
  /\ main' = "verifying"
  /\ UNCHANGED <<bench, num_threads, iteration, ready, done, go, next_task,
                 counter, mtx, pc, left, seen>>

\* Mutant: next_task outlives the iteration.
NextIteration_KeepsTasks ==
  /\ main = "verifying"
  /\ iteration < Iterations
  /\ iteration' = iteration + 1
  /\ main' = "creating"
  /\ ready' = Fresh.ready /\ done' = Fresh.done /\ go' = Fresh.go
  /\ counter' = Fresh.counter
  /\ pc' = [u \in Threads |-> "absent"]
  /\ UNCHANGED <<bench, num_threads, next_task, mtx, left, seen>>

\* What the assertions of the counters' verify say; the other groups assert
\* nothing.
Verified == bench \in {"mutex", "atomic"} => counter = TotalWork

\* assert in verify(*shared), in a Debug build.
VerifyFails ==
  /\ main = "verifying"
  /\ ~Verified
  /\ main' = "aborted"
  /\ UNCHANGED <<bench, num_threads, iteration, ready, done, go, next_task,
                 counter, mtx, pc, left, seen>>

\* verify(*shared) goes on when the assertion holds, and in a Release build,
\* where NDEBUG leaves it out, when it does not: once more from fresh state.
NextIteration ==
  /\ main = "verifying"
  /\ iteration < Iterations
  /\ iteration' = iteration + 1
  /\ main' = "creating"
  /\ ready' = Fresh.ready /\ done' = Fresh.done /\ go' = Fresh.go
  /\ next_task' = Fresh.next_task /\ counter' = Fresh.counter
  /\ pc' = [u \in Threads |-> "absent"]
  /\ UNCHANGED <<bench, num_threads, mtx, left, seen>>

\* Likewise after the last round.
Finish ==
  /\ main = "verifying"
  /\ iteration = Iterations
  /\ main' = "finished"
  /\ UNCHANGED <<bench, num_threads, iteration, ready, done, go, next_task,
                 counter, mtx, pc, left, seen>>

-----------------------------------------------------------------------------
\* The threads.

\* ready.fetch_add
Announce(u) ==
  /\ pc[u] = "starting"
  /\ ready' = ready + 1
  /\ Goto(u, "waiting")
  /\ UNCHANGED <<bench, num_threads, iteration, main, done, go, next_task,
                 counter, mtx, left, seen>>

\* while (!go) yield
Pass(u) ==
  /\ pc[u] = "waiting"
  /\ go
  /\ Goto(u, IF bench = "thread_count" THEN "claiming" ELSE "counting")
  /\ left' = [left EXCEPT ![u] = IF bench \in Counting THEN per_thread ELSE 0]
  /\ UNCHANGED <<bench, num_threads, iteration, main, ready, done, go, next_task,
                 counter, mtx, seen>>

\* next_task.fetch_add tells the thread its task, or that none is left.
Claim(u) ==
  /\ pc[u] = "claiming"
  /\ next_task' = next_task + 1
  /\ Goto(u, IF next_task >= TotalTasks THEN "reporting" ELSE "running")
  /\ UNCHANGED <<bench, num_threads, iteration, main, ready, done, go, counter,
                 mtx, left, seen>>

\* taskCntNumbers()
RunTask(u) ==
  /\ pc[u] = "running"
  /\ counter' = counter + 1
  /\ Goto(u, IF bench = "thread_count" THEN "claiming" ELSE "exited")
  /\ UNCHANGED <<bench, num_threads, iteration, main, ready, done, go, next_task,
                 mtx, left, seen>>

\* One round of countWithAtomic, or of countLocal, which shares nothing.
CountOne(u) ==
  /\ bench \in {"atomic", "baseline"}
  /\ pc[u] = "counting"
  /\ left[u] > 0
  /\ counter' = IF bench = "atomic" THEN counter + 1 ELSE counter
  /\ left' = [left EXCEPT ![u] = @ - 1]
  /\ UNCHANGED <<bench, num_threads, iteration, main, ready, done, go, next_task,
                 mtx, pc, seen>>

\* Mutant: the increment is not protected.
LockAndLoad_NoLock(u) ==
  /\ bench = "mutex"
  /\ pc[u] = "counting"
  /\ left[u] > 0
  /\ mtx' = mtx \cup {u}
  /\ seen' = [seen EXCEPT ![u] = counter]
  /\ Goto(u, "storing")
  /\ UNCHANGED <<bench, num_threads, iteration, main, ready, done, go, next_task,
                 counter, left>>

\* countWithMutex: lock mtx and load the counter ...
LockAndLoad(u) ==
  /\ bench = "mutex"
  /\ pc[u] = "counting"
  /\ left[u] > 0
  /\ mtx = {}
  /\ mtx' = {u}
  /\ seen' = [seen EXCEPT ![u] = counter]
  /\ Goto(u, "storing")
  /\ UNCHANGED <<bench, num_threads, iteration, main, ready, done, go, next_task,
                 counter, left>>

\* ... and store it, incremented, before the unlock.
StoreAndUnlock(u) ==
  /\ pc[u] = "storing"
  /\ counter' = seen[u] + 1
  /\ mtx' = mtx \ {u}
  /\ left' = [left EXCEPT ![u] = @ - 1]
  /\ Goto(u, "counting")
  /\ UNCHANGED <<bench, num_threads, iteration, main, ready, done, go, next_task,
                 seen>>

\* The loop is over: done.fetch_add comes last.
Report(u) ==
  /\ \/ pc[u] = "reporting"
     \/ pc[u] = "counting" /\ left[u] = 0
  /\ done' = done + 1
  /\ Goto(u, "exited")
  /\ UNCHANGED <<bench, num_threads, iteration, main, ready, go, next_task,
                 counter, mtx, left, seen>>

Main == \/ \E u \in Threads : Create(u)
        \/ Release \/ StopClock \/ Join
        \/ VerifyFails \/ NextIteration \/ Finish

Thread(u) == \/ Announce(u) \/ Pass(u) \/ Claim(u) \/ RunTask(u) \/ CountOne(u)
             \/ LockAndLoad(u) \/ StoreAndUnlock(u) \/ Report(u)

Next == Main \/ \E u \in Threads : Thread(u)

Spec == Init /\ [][Next]_vars

-----------------------------------------------------------------------------

\* What an iteration has to count.
Expected == CASE bench = "baseline"            -> 0
              [] bench \in {"mutex", "atomic"} -> TotalWork
              [] OTHER                         -> TotalTasks

\* What no thread counts: the remainder that per_thread rounds away.
Dropped == IF bench \in {"mutex", "atomic"} THEN TotalWork % num_threads ELSE 0

\* The clock measures the work and nothing but the work: nothing is counted
\* before the main thread lets the threads go, and when it stops the clock
\* every task was run once and no increment was lost
\* (case4_tooManyThreads.cpp:62-92, case5_lockCost.cpp:117-145).  The
\* exception are the counters of case5 when num_threads does not divide
\* kTotalWork: the remainder is never counted, and the assertions that the
\* counter is kTotalWork (case5_lockCost.cpp:173, 184) fail then, and only
\* then: never because an increment was lost or is still to come.
TimedExactly ==
  /\ bench \in Gated /\ main \in {"creating", "gathering"} => counter = 0
  /\ bench \in Gated /\ main \in {"joining", "verifying"}
       => counter = Expected - Dropped
  /\ main = "verifying"
       => counter = Expected - Dropped /\ (Verified <=> Dropped = 0)
  /\ main = "aborted" => Dropped # 0

Over == main \in {"finished", "undefined", "aborted"}
=============================================================================
