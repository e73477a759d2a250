------------------------------ MODULE ThreadTeam ------------------------------
(***************************************************************************)
(* The locks of case2_mutex (2_tbb_test): N operations on a counter, done  *)
(* by the PersistentTeam of bench_common.h, which keeps its threads        *)
(* between two barriers, or by a parallel_for in an arena of TBB.  The     *)
(* counter is behind a mutex, taken once per K operations, behind a        *)
(* read-write lock of which every fifth operation is a writer, or atomic.  *)
(***************************************************************************)
EXTENDS Integers, FiniteSets

CONSTANTS
  N,            \* operations
  NumThreads,   \* NUM_THREADS, the team's and the arena's; divides N
  BatchSizes,   \* the values of K; they divide N
  Iterations    \* bound: the rounds of "for (auto _ : state)"

VARIABLES
  lock,         \* "mutex", "shared_mutex" or "atomic"
  driver,       \* "team" or "parallel_for"
  K,            \* operations per lock
  iteration,
  pc,           \* party -> where it is
  stop_, fn_,   \* the team's: fn_ is the iteration that assigned it
  called,       \* thread -> the iteration whose function it calls
  i, upto,      \* thread -> the rest of its share: the operations i..upto - 1
  batches,      \* the batches that the arena has not started yet
  writer,       \* the threads that hold the lock to write
  readers,      \* the threads that hold it to read
  seen,         \* thread -> the counter that it loaded
  counter       \* mutex_counter, shared_data or atomic_counter

vars == <<lock, driver, K, iteration, pc, stop_, fn_, called, i, upto, batches,
          writer, readers, seen, counter>>

Threads == 0..NumThreads - 1
Main == -1
Parties == Threads \cup {Main}

N_PER_THREAD == N \div NumThreads

\* Operation x changes the counter.
Writes(x) == lock # "shared_mutex" \/ x % 5 = 0

WRITE_COUNT == 1 + (N - 1) \div 5

Goto(x, place) == pc' = [pc EXCEPT ![x] = place]

-----------------------------------------------------------------------------

Init ==
  /\ lock \in {"mutex", "shared_mutex", "atomic"}
  /\ driver \in {"team", "parallel_for"}
  /\ K \in IF lock = "mutex" THEN BatchSizes ELSE {1}
  /\ iteration = 1
  /\ pc = [x \in Parties |-> IF x = Main THEN "resetting"
                             ELSE IF driver = "team" THEN "before start_" ELSE "idle"]
  /\ stop_ = FALSE /\ fn_ = 0
  /\ called = [t \in Threads |-> 0]
  /\ i = [t \in Threads |-> 0] /\ upto = [t \in Threads |-> 0]
  /\ batches = {}
  /\ writer = {} /\ readers = {}
  /\ seen = [t \in Threads |-> 0]
  /\ counter = 0

\* arrive_and_wait: the party waits at "in" until all have arrived, and then
\* all go on to where After says.
Arrive(x, before, in, After(_)) ==
  /\ pc[x] = before
  /\ LET arrived == {x} \cup {y \in Parties : pc[y] = in}
     IN pc' = IF arrived = Parties
              THEN [y \in Parties |-> After(y)]
              ELSE [pc EXCEPT ![x] = in]
  /\ UNCHANGED <<lock, driver, K, iteration, stop_, fn_, called, i, upto,
                 batches, writer, readers, seen, counter>>

\* start_.arrive_and_wait() of a thread, of run() and of the destructor.
ArriveAtStart(x) ==
  Arrive(x, "before start_", "in start_",
         LAMBDA y : IF y # Main THEN "released"
                    ELSE IF stop_ THEN "joining" ELSE "before end_")

\* Mutant: run() returns without the second barrier.
ArriveAtEnd_Skipped(x) ==
  Arrive(x, "before end_", "in start_",
         LAMBDA y : IF y = Main THEN "verifying" ELSE "before start_")

\* end_.arrive_and_wait() of a thread and of run().
ArriveAtEnd(x) ==
  Arrive(x, "before end_", "in end_",
         LAMBDA y : IF y = Main THEN "verifying" ELSE "before start_")

-----------------------------------------------------------------------------
\* The main thread.

Reset ==
  /\ pc[Main] = "resetting"
  /\ counter' = 0
  /\ Goto(Main, IF driver = "team" THEN "assigning" ELSE "executing")
  /\ batches' = IF driver = "team" THEN {} ELSE 0..(N \div K) - 1
  /\ UNCHANGED <<lock, driver, K, iteration, stop_, fn_, called, i, upto, writer,
                 readers, seen>>

\* run: fn_ = fn
Assign ==
  /\ pc[Main] = "assigning"
  /\ fn_' = iteration
  /\ Goto(Main, "before start_")
  /\ UNCHANGED <<lock, driver, K, iteration, stop_, called, i, upto, batches,
                 writer, readers, seen, counter>>

\* parallel_for returns when the body has returned for every batch.
Executed ==
  /\ pc[Main] = "executing"
  /\ batches = {}
  /\ \A t \in Threads : pc[t] = "idle"
  /\ Goto(Main, "verifying")
  /\ UNCHANGED <<lock, driver, K, iteration, stop_, fn_, called, i, upto,
                 batches, writer, readers, seen, counter>>

\* VERIFY_EXACT, and the next iteration or the end of the benchmark; the team
\* goes on until the end of the program.
NextIteration ==
  /\ pc[Main] = "verifying"
  /\ IF iteration < Iterations
     THEN /\ iteration' = iteration + 1
          /\ Goto(Main, "resetting")
     ELSE /\ Goto(Main, IF driver = "team" THEN "stopping" ELSE "finished")
          /\ UNCHANGED iteration
  /\ UNCHANGED <<lock, driver, K, stop_, fn_, called, i, upto, batches, writer,
                 readers, seen, counter>>

\* ~PersistentTeam: stop_ = true
Stop ==
  /\ pc[Main] = "stopping"
  /\ stop_' = TRUE
  /\ Goto(Main, "before start_")
  /\ UNCHANGED <<lock, driver, K, iteration, fn_, called, i, upto, batches,
                 writer, readers, seen, counter>>

Join ==
  /\ pc[Main] = "joining"
  /\ \A t \in Threads : pc[t] = "exited"
  /\ Goto(Main, "finished")
  /\ UNCHANGED <<lock, driver, K, iteration, stop_, fn_, called, i, upto,
                 batches, writer, readers, seen, counter>>

-----------------------------------------------------------------------------
\* The threads.

\* Past start_: if (stop_) return; fn_(t), with a slice of its own.
CallFn(t) ==
  /\ pc[t] = "released"
  /\ IF stop_
     THEN Goto(t, "exited") /\ UNCHANGED <<called, i, upto>>
     ELSE /\ Goto(t, "working")
          /\ called' = [called EXCEPT ![t] = fn_]
          /\ i' = [i EXCEPT ![t] = t * N_PER_THREAD]
          /\ upto' = [upto EXCEPT ![t] = (t + 1) * N_PER_THREAD]
  /\ UNCHANGED <<lock, driver, K, iteration, stop_, fn_, batches, writer, readers,
                 seen, counter>>

\* The arena calls the body for batch c on one of its threads.
CallBody(t, c) ==
  /\ pc[t] = "idle"
  /\ c \in batches
  /\ batches' = batches \ {c}
  /\ Goto(t, "working")
  /\ i' = [i EXCEPT ![t] = c * K]
  /\ upto' = [upto EXCEPT ![t] = (c + 1) * K]
  /\ UNCHANGED <<lock, driver, K, iteration, stop_, fn_, called, writer, readers,
                 seen, counter>>

\* Mutant: writers are let in among readers, and readers among writers.
Acquire_Shared(t) ==
  /\ pc[t] = "working"
  /\ i[t] < upto[t]
  /\ lock # "atomic"
  /\ IF Writes(i[t])
     THEN writer' = writer \cup {t} /\ UNCHANGED readers
     ELSE readers' = readers \cup {t} /\ UNCHANGED writer
  /\ seen' = [seen EXCEPT ![t] = counter]
  /\ Goto(t, "holding")
  /\ UNCHANGED <<lock, driver, K, iteration, stop_, fn_, called, i, upto,
                 batches, counter>>

\* The lock is taken, to write or to read, and the counter is loaded.
Acquire(t) ==
  /\ pc[t] = "working"
  /\ i[t] < upto[t]
  /\ lock # "atomic"
  /\ writer = {}
  /\ IF Writes(i[t])
     THEN readers = {} /\ writer' = {t} /\ UNCHANGED readers
     ELSE readers' = readers \cup {t} /\ UNCHANGED writer
  /\ seen' = [seen EXCEPT ![t] = counter]
  /\ Goto(t, "holding")
  /\ UNCHANGED <<lock, driver, K, iteration, stop_, fn_, called, i, upto,
                 batches, counter>>

\* The operations of one batch, up to the end of the share, and the unlock.
Release(t) ==
  /\ pc[t] = "holding"
  /\ LET next == IF i[t] + K < upto[t] THEN i[t] + K ELSE upto[t]
     IN /\ counter' = IF t \in writer THEN seen[t] + (next - i[t]) ELSE counter
        /\ i' = [i EXCEPT ![t] = next]
  /\ writer' = writer \ {t} /\ readers' = readers \ {t}
  /\ seen' = [seen EXCEPT ![t] = 0]
  /\ Goto(t, "working")
  /\ UNCHANGED <<lock, driver, K, iteration, stop_, fn_, called, upto, batches>>

\* atomic_counter.fetch_add
FetchAdd(t) ==
  /\ pc[t] = "working"
  /\ i[t] < upto[t]
  /\ lock = "atomic"
  /\ counter' = counter + 1
  /\ i' = [i EXCEPT ![t] = @ + 1]
  /\ UNCHANGED <<lock, driver, K, iteration, pc, stop_, fn_, called, upto,
                 batches, writer, readers, seen>>

\* The function, or the body, returns.
Return(t) ==
  /\ pc[t] = "working"
  /\ i[t] >= upto[t]
  /\ Goto(t, IF driver = "team" THEN "before end_" ELSE "idle")
  /\ i' = [i EXCEPT ![t] = 0] /\ upto' = [upto EXCEPT ![t] = 0]
  /\ UNCHANGED <<lock, driver, K, iteration, stop_, fn_, called, batches, writer,
                 readers, seen, counter>>

Owner == \/ Reset \/ Assign \/ Executed \/ NextIteration \/ Stop \/ Join
         \/ ArriveAtStart(Main) \/ ArriveAtEnd(Main)

Thread(t) == \/ ArriveAtStart(t) \/ ArriveAtEnd(t) \/ CallFn(t)
             \/ \E c \in batches : CallBody(t, c)
             \/ Acquire(t) \/ Release(t) \/ FetchAdd(t) \/ Return(t)

Next == Owner \/ \E t \in Threads : Thread(t)

Spec == Init /\ [][Next]_vars

-----------------------------------------------------------------------------

\* Every operation of every iteration counts once: VERIFY_EXACT never aborts
\* (case2_mutex.cpp:129, 146, 224, 241, 259, 272).
VerifyExact ==
  pc[Main] = "verifying" =>
    counter = IF lock = "shared_mutex" THEN WRITE_COUNT ELSE N

\* The two barriers are all that protects fn_ and stop_: when the owner writes
\* them every thread is between its last end_ and its next start_, where it
\* reads neither, and the function that a thread calls is that of this
\* iteration (bench_common.h:151-157, 163-173).
TeamRaceFree ==
  /\ driver = "team" /\ pc[Main] \in {"assigning", "stopping"} =>
       \A t \in Threads : pc[t] \in {"before start_", "in start_"}
  /\ \A t \in Threads :
       driver = "team" /\ pc[t] \in {"working", "holding", "before end_"} =>
         called[t] = iteration

Over == pc[Main] = "finished"
=============================================================================
