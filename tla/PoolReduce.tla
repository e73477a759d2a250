----------------------------- MODULE PoolReduce -----------------------------
(***************************************************************************)
(* The benchmarks of case3_submitTasks.cpp that need no condition variable *)
(* of their own: block, pipeline, std_async, dual and parallel_reduce.     *)
(* They differ in who reduces and when; all compute MapReduce.             *)
(***************************************************************************)
EXTENDS Naturals, Sequences, SequencesExt

CONSTANTS
  Workers,      \* the threads of gPool
  N             \* tasks_nums

Strategies == {"block", "pipeline", "std_async", "dual", "parallel_reduce"}

VARIABLES
  strategy,     \* which of the benchmarks runs
  submitted,    \* the counter of main's submit loop
  main,         \* "submitting", "getting", "reducing", "serial" or "finished"
  k,            \* the counter of main's loop over futures or results
  doing,        \* thread -> the item that it works on, 0 for none
  at,           \* thread -> its place in the callable
  ready,        \* the items whose future of the submit loop is ready
  computed,     \* item -> how often its result was computed
  serial_pool,  \* dual: the queue of the pool of one thread
  serial_futures,  \* dual: the items whose serial future was recorded
  total_sum     \* item -> how often its result was added to total_sum

vars == <<strategy, submitted, main, k, doing, at, ready, computed,
          serial_pool, serial_futures, total_sum>>

Items == 1..N

\* std::async(launch::async) runs every item on a thread of its own.
Threads == Workers \cup Items

ThreadsOf(s) == IF s = "std_async" THEN Items ELSE Workers

Taken == ready \cup {doing[w] : w \in Threads}

Init ==
  /\ strategy \in Strategies
  /\ submitted = 0
  /\ main = "submitting"
  /\ k = 1
  /\ doing = [w \in Threads |-> 0]
  /\ at = [w \in Threads |-> "idle"]
  /\ ready = {}
  /\ computed = [i \in Items |-> 0]
  /\ serial_pool = <<>>
  /\ serial_futures = <<>>
  /\ total_sum = [i \in Items |-> 0]

-----------------------------------------------------------------------------

\* main's loop hands the next item to the pool or to std::async.
Submit ==
  /\ main = "submitting"
  /\ IF submitted < N
     THEN submitted' = submitted + 1 /\ UNCHANGED main
     ELSE main' = "getting" /\ UNCHANGED submitted
  /\ UNCHANGED <<strategy, k, doing, at, ready, computed, serial_pool,
                 serial_futures, total_sum>>

\* A thread of gPool takes the next item in the order of submission; an
\* async thread has its own item.
Take(w, i) ==
  /\ w \in ThreadsOf(strategy)
  /\ at[w] = "idle"
  /\ i \in 1..submitted \ Taken
  /\ IF strategy = "std_async" THEN w = i ELSE \A j \in 1..i - 1 : j \in Taken
  /\ doing' = [doing EXCEPT ![w] = i]
  /\ at' = [at EXCEPT ![w] = "mapping"]
  /\ UNCHANGED <<strategy, submitted, main, k, ready, computed, serial_pool,
                 serial_futures, total_sum>>

\* The callable returns: its future is ready.
Return(w) ==
  /\ ready' = ready \cup {doing[w]}
  /\ doing' = [doing EXCEPT ![w] = 0]
  /\ at' = [at EXCEPT ![w] = "idle"]

\* heavyComputation; block, pipeline and std_async return the result.
Map(w) ==
  /\ at[w] = "mapping"
  /\ computed' = [computed EXCEPT ![doing[w]] = @ + 1]
  /\ IF strategy \in {"dual", "parallel_reduce"}
     THEN at' = [at EXCEPT ![w] = "mapped"] /\ UNCHANGED <<doing, ready>>
     ELSE Return(w)
  /\ UNCHANGED <<strategy, submitted, main, k, serial_pool, serial_futures,
                 total_sum>>

\* parallel_reduce: the worker adds its result to total_sum itself.
ReduceInWorker(w) ==
  /\ strategy = "parallel_reduce"
  /\ at[w] = "mapped"
  /\ total_sum' = [total_sum EXCEPT ![doing[w]] = @ + 1]
  /\ Return(w)
  /\ UNCHANGED <<strategy, submitted, main, k, computed, serial_pool,
                 serial_futures>>

\* dual: serial_pool.submitTask(...).
HandOver(w) ==
  /\ strategy = "dual"
  /\ at[w] = "mapped"
  /\ serial_pool' = Append(serial_pool, doing[w])
  /\ at' = [at EXCEPT ![w] = "recording"]
  /\ UNCHANGED <<strategy, submitted, main, k, doing, ready, computed,
                 serial_futures, total_sum>>

\* Mutant: without future_mutex an append may be overwritten by another.
Record_Unlocked(w) ==
  /\ at[w] = "recording"
  /\ serial_futures' \in {serial_futures, Append(serial_futures, doing[w])}
  /\ Return(w)
  /\ UNCHANGED <<strategy, submitted, main, k, computed, serial_pool, total_sum>>

\* dual: the future is recorded under future_mutex, then the callable returns.
Record(w) ==
  /\ at[w] = "recording"
  /\ serial_futures' = Append(serial_futures, doing[w])
  /\ Return(w)
  /\ UNCHANGED <<strategy, submitted, main, k, computed, serial_pool, total_sum>>

\* Mutant: the thread drops what it has moved out of the queue.
ReduceInPool_Dropped ==
  /\ serial_pool # <<>>
  /\ serial_pool' = Tail(serial_pool)
  /\ UNCHANGED <<strategy, submitted, main, k, doing, at, ready, computed,
                 serial_futures, total_sum>>

\* dual: the only thread of serial_pool reduces the front of its queue.
ReduceInPool ==
  /\ serial_pool # <<>>
  /\ total_sum' = [total_sum EXCEPT ![Head(serial_pool)] = @ + 1]
  /\ serial_pool' = Tail(serial_pool)
  /\ UNCHANGED <<strategy, submitted, main, k, doing, at, ready, computed,
                 serial_futures>>

-----------------------------------------------------------------------------

\* future.get() of the k-th item, in the order of submission.  pipeline and
\* std_async reduce it at once, the others go on to the next one.
Get ==
  /\ main = "getting"
  /\ k \in ready
  /\ IF strategy \in {"pipeline", "std_async"}
     THEN main' = "reducing" /\ UNCHANGED k
     ELSE k' = k + 1 /\ UNCHANGED main
  /\ UNCHANGED <<strategy, submitted, doing, at, ready, computed, serial_pool,
                 serial_futures, total_sum>>

\* Mutant: the last result is left out.
ReduceInMain_ButLast ==
  /\ main = "reducing"
  /\ k <= N
  /\ total_sum' = IF k < N THEN [total_sum EXCEPT ![k] = @ + 1] ELSE total_sum
  /\ k' = k + 1
  /\ main' = IF strategy = "block" THEN "reducing" ELSE "getting"
  /\ UNCHANGED <<strategy, submitted, doing, at, ready, computed, serial_pool,
                 serial_futures>>

\* block: the loop over the results; pipeline and std_async: the second half
\* of the loop over the futures.
ReduceInMain ==
  /\ main = "reducing"
  /\ k <= N
  /\ total_sum' = [total_sum EXCEPT ![k] = @ + 1]
  /\ k' = k + 1
  /\ main' = IF strategy = "block" THEN "reducing" ELSE "getting"
  /\ UNCHANGED <<strategy, submitted, doing, at, ready, computed, serial_pool,
                 serial_futures>>

\* Mutant: parallel_reduce goes on to the loop over the results, as block
\* does, and adds again what the workers have added.
EndLoop_ReducesAgain ==
  /\ main \in {"getting", "reducing"}
  /\ k = N + 1
  /\ main' = CASE main = "getting" /\ strategy \in {"block", "parallel_reduce"}
                                                         -> "reducing"
               [] main = "getting" /\ strategy = "dual"  -> "serial"
               [] OTHER                                  -> "finished"
  /\ k' = 1
  /\ UNCHANGED <<strategy, submitted, doing, at, ready, computed, serial_pool,
                 serial_futures, total_sum>>

\* main leaves the loop that it is in.
EndLoop ==
  /\ main \in {"getting", "reducing"}
  /\ k = N + 1
  /\ main' = CASE main = "getting" /\ strategy = "block" -> "reducing"
               [] main = "getting" /\ strategy = "dual"  -> "serial"
               [] OTHER                                  -> "finished"
  /\ k' = 1
  /\ UNCHANGED <<strategy, submitted, doing, at, ready, computed, serial_pool,
                 serial_futures, total_sum>>

\* dual: the loop over serial_futures, read without future_mutex.
GetSerial ==
  /\ main = "serial"
  /\ IF k > Len(serial_futures) THEN main' = "finished" /\ UNCHANGED k
     ELSE /\ total_sum[serial_futures[k]] > 0
          /\ k' = k + 1
          /\ UNCHANGED main
  /\ UNCHANGED <<strategy, submitted, doing, at, ready, computed, serial_pool,
                 serial_futures, total_sum>>

Main == Submit \/ Get \/ ReduceInMain \/ EndLoop \/ GetSerial

Thread(w) ==
  \/ \E i \in Items : Take(w, i)
  \/ Map(w) \/ ReduceInWorker(w) \/ HandOver(w) \/ Record(w)

Next == Main \/ (\E w \in Threads : Thread(w)) \/ ReduceInPool

Spec == Init /\ [][Next]_vars

-----------------------------------------------------------------------------

TypeOK ==
  /\ strategy \in Strategies
  /\ submitted \in 0..N
  /\ main \in {"submitting", "getting", "reducing", "serial", "finished"}
  /\ k \in 1..N + 1
  /\ doing \in [Threads -> 0..N]
  /\ at \in [Threads -> {"idle", "mapping", "mapped", "recording"}]
  /\ ready \in SUBSET Items
  /\ computed \in [Items -> Nat]
  /\ serial_pool \in Seq(Items)
  /\ serial_futures \in Seq(Items)
  /\ total_sum \in [Items -> Nat]

\* dual reads serial_futures without the mutex (case3:257-263): by then every
\* worker has left the callable, and each item's future is there once.
FuturesComplete ==
  main = "serial" =>
    /\ ToSet(serial_futures) = Items
    /\ Len(serial_futures) = N
    /\ \A w \in Threads : at[w] = "idle"

Consistent == TypeOK /\ FuturesComplete

Iteration == INSTANCE MapReduce WITH finished <- (main = "finished")

Reduces == Iteration!Spec
=============================================================================
