----------------------------- MODULE Benchmarks -----------------------------
(***************************************************************************)
(* Programs of 1_benchmark side by side: the strategies of case3 of        *)
(* 1_threadPool_test that use the pool and futures only, the solvers of    *)
(* 3_eightQueen, the timed counters of 0_basic_test and 2_tbb_test, the    *)
(* divided ranges of 2_tbb_test and 4_ppl_strategy_test, the nested loops  *)
(* under a mutex; and the pools of lib/tbbThreadPool with any program.     *)
(* One of them is chosen at the start and runs alone.  The variables of    *)
(* PoolReduce and TbbPool, of which temporal properties speak, then stay   *)
(* as they are; those of the other programs are "unused".                  *)
(***************************************************************************)
EXTENDS Integers, Sequences, FiniteSets

CONSTANTS Workers, ReduceItems,                 \* PoolReduce
          Sizes, Width,                         \* QueensSearch
          CoverSizes,                           \* QueensCover
          ThreadNumbers, Cores,                 \* QueensThreads
          PoolThreads, Helpers, PoolOwner, PoolTasks,   \* TbbPool
          GateThreads, TotalTasks, TotalWork,   \* StartGate
          Operations, NumThreads, BatchSizes,   \* ThreadTeam
          Iterations,                           \* StartGate, ThreadTeam
          Totals, Parts, Grains,                \* RangeSplit
          StealThreads, Outer, Inner            \* NestedSteal

ASSUME BenchmarkAssumption ==
  /\ ReduceItems \in Nat \ {0} /\ Workers # {} /\ PoolThreads # {} /\ Helpers # {}
  /\ PoolOwner \notin PoolThreads \cup Helpers /\ PoolThreads \cap Helpers = {}
  /\ IsFiniteSet(PoolTasks)
  /\ Operations \in Nat \ {0} /\ NumThreads \in Nat \ {0}
  /\ Operations % NumThreads = 0
  /\ BatchSizes \subseteq Nat \ {0} /\ \A b \in BatchSizes : Operations % b = 0
  /\ GateThreads \subseteq Nat /\ Cores \subseteq Nat
  /\ TotalTasks \in Nat /\ TotalWork \in Nat

\* SlotReduction: one row for the partitioners, two for the nested loops.
InnerSizes == {<<4>>, <<3, 2>>}

VARIABLES
  program,
  strategy, submitted, reduce_main, k, doing, at, ready,
  computed, serial_pool, serial_futures, total_sum,
  solver, search_N, col0, row, col, columns, diag, antidiag, avail, stack,
  search_count, done,
  version, cover_N, links, calls, mode, cover_count,
  runner, sub_solver, threads_N, num_threads, use_symmetry, t, start, range,
  results, total, threads_main,
  lib, granted, tasks, lambdas, stop, tbb_pc, cur, awaited, status,
  bench, gate_threads, gate_iteration, gate_main, gate_ready, gate_done, go,
  next_task, gate_counter, gate_mtx, gate_pc, left, gate_seen,
  lock, driver, K, team_iteration, team_pc, stop_, fn_, called, team_i, upto,
  batches, writer, readers, team_seen, team_counter,
  split_strategy, split_total, parts, grain, pending, open, inner, inner_sum,
  split_ready, sum, returned,
  loop, inner_sizes, g, ranges, bodies, leaves, sums, slots_total,
  isolated, outer, chunks, steal_stack, steal_mtx, over

reduceVars  == <<strategy, submitted, reduce_main, k, doing, at, ready,
                 computed, serial_pool, serial_futures, total_sum>>
searchVars  == <<solver, search_N, col0, row, col, columns, diag, antidiag,
                 avail, stack, search_count, done>>
coverVars   == <<version, cover_N, links, calls, mode, cover_count>>
threadsVars == <<runner, sub_solver, threads_N, num_threads, use_symmetry, t,
                 start, range, results, total, threads_main>>
tbbVars     == <<lib, granted, tasks, lambdas, stop, tbb_pc, cur, awaited,
                 status>>
gateVars    == <<bench, gate_threads, gate_iteration, gate_main, gate_ready,
                 gate_done, go, next_task, gate_counter, gate_mtx, gate_pc,
                 left, gate_seen>>
teamVars    == <<lock, driver, K, team_iteration, team_pc, stop_, fn_, called,
                 team_i, upto, batches, writer, readers, team_seen,
                 team_counter>>
splitVars   == <<split_strategy, split_total, parts, grain, pending, open,
                 inner, inner_sum, split_ready, sum, returned>>
slotsVars   == <<loop, inner_sizes, g, ranges, bodies, leaves, sums,
                 slots_total>>
stealVars   == <<isolated, outer, chunks, steal_stack, steal_mtx, over>>

vars == <<program, reduceVars, searchVars, coverVars, threadsVars, tbbVars,
          gateVars, teamVars, splitVars, slotsVars, stealVars>>

Reduction == INSTANCE PoolReduce
               WITH N <- ReduceItems, main <- reduce_main
Search    == INSTANCE QueensSearch
               WITH N <- search_N, count <- search_count
Cover     == INSTANCE QueensCover
               WITH N <- cover_N, count <- cover_count
Threaded  == INSTANCE QueensThreads
               WITH BoardSizes <- Sizes, N <- threads_N, main <- threads_main
Tbb       == INSTANCE TbbPool
               WITH Workers <- PoolThreads, Owner <- PoolOwner,
                    Tasks <- PoolTasks, pc <- tbb_pc
Gate      == INSTANCE StartGate
               WITH ThreadNumbers <- GateThreads, num_threads <- gate_threads,
                    iteration <- gate_iteration, main <- gate_main,
                    ready <- gate_ready, done <- gate_done,
                    counter <- gate_counter, mtx <- gate_mtx, pc <- gate_pc,
                    seen <- gate_seen
Team      == INSTANCE ThreadTeam
               WITH N <- Operations, iteration <- team_iteration,
                    pc <- team_pc, i <- team_i, seen <- team_seen,
                    counter <- team_counter
Splitting == INSTANCE RangeSplit
               WITH strategy <- split_strategy, total <- split_total,
                    ready <- split_ready
Slotted   == INSTANCE SlotReduction
               WITH total <- slots_total
Steal     == INSTANCE NestedSteal
               WITH Threads <- StealThreads, stack <- steal_stack, mtx <- steal_mtx

NoSearch    == /\ solver = "unused" /\ search_N = "unused" /\ col0 = "unused"
               /\ row = "unused" /\ col = "unused" /\ columns = "unused"
               /\ diag = "unused" /\ antidiag = "unused" /\ avail = "unused"
               /\ stack = "unused" /\ search_count = "unused"
               /\ done = "unused"
NoCover     == /\ version = "unused" /\ cover_N = "unused" /\ links = "unused"
               /\ calls = "unused" /\ mode = "unused" /\ cover_count = "unused"
NoThreaded  == /\ runner = "unused" /\ sub_solver = "unused"
               /\ threads_N = "unused" /\ num_threads = "unused"
               /\ use_symmetry = "unused" /\ t = "unused" /\ start = "unused"
               /\ range = "unused" /\ results = "unused" /\ total = "unused"
               /\ threads_main = "unused"
NoGate      == /\ bench = "unused" /\ gate_threads = "unused"
               /\ gate_iteration = "unused" /\ gate_main = "unused"
               /\ gate_ready = "unused" /\ gate_done = "unused"
               /\ go = "unused" /\ next_task = "unused"
               /\ gate_counter = "unused" /\ gate_mtx = "unused"
               /\ gate_pc = "unused" /\ left = "unused" /\ gate_seen = "unused"
NoTeam      == /\ lock = "unused" /\ driver = "unused" /\ K = "unused"
               /\ team_iteration = "unused" /\ team_pc = "unused"
               /\ stop_ = "unused" /\ fn_ = "unused" /\ called = "unused"
               /\ team_i = "unused" /\ upto = "unused" /\ batches = "unused"
               /\ writer = "unused" /\ readers = "unused"
               /\ team_seen = "unused" /\ team_counter = "unused"
NoSplitting == /\ split_strategy = "unused" /\ split_total = "unused"
               /\ parts = "unused" /\ grain = "unused" /\ pending = "unused"
               /\ open = "unused" /\ inner = "unused" /\ inner_sum = "unused"
               /\ split_ready = "unused" /\ sum = "unused"
               /\ returned = "unused"
NoSlotted   == /\ loop = "unused" /\ inner_sizes = "unused" /\ g = "unused"
               /\ ranges = "unused" /\ bodies = "unused" /\ leaves = "unused"
               /\ sums = "unused" /\ slots_total = "unused"
NoSteal     == /\ isolated = "unused" /\ outer = "unused" /\ chunks = "unused"
               /\ steal_stack = "unused" /\ steal_mtx = "unused"
               /\ over = "unused"

Init ==
  /\ program \in {"reduce", "search", "cover", "threads", "tbb", "gate",
                  "team", "split", "slots", "steal"}
  /\ Reduction!Init
  /\ program # "reduce" => strategy = "block"
  /\ IF program = "search" THEN Search!Init ELSE NoSearch
  /\ IF program = "cover" THEN Cover!Init ELSE NoCover
  /\ IF program = "threads" THEN Threaded!Init ELSE NoThreaded
  /\ Tbb!Init
  /\ program # "tbb" => lib = "group" /\ granted = {}
  /\ IF program = "gate" THEN Gate!Init ELSE NoGate
  /\ IF program = "team" THEN Team!Init ELSE NoTeam
  /\ IF program = "split" THEN Splitting!Init ELSE NoSplitting
  /\ IF program = "slots" THEN Slotted!Init ELSE NoSlotted
  /\ IF program = "steal" THEN Steal!Init ELSE NoSteal

RunReduction ==
  /\ program = "reduce" /\ Reduction!Next
  /\ UNCHANGED <<program, searchVars, coverVars, threadsVars, tbbVars,
                 gateVars, teamVars, splitVars, slotsVars, stealVars>>

RunSearch ==
  /\ program = "search" /\ Search!Next
  /\ UNCHANGED <<program, reduceVars, coverVars, threadsVars, tbbVars,
                 gateVars, teamVars, splitVars, slotsVars, stealVars>>

RunCover ==
  /\ program = "cover" /\ Cover!Next
  /\ UNCHANGED <<program, reduceVars, searchVars, threadsVars, tbbVars,
                 gateVars, teamVars, splitVars, slotsVars, stealVars>>

RunThreaded ==
  /\ program = "threads" /\ Threaded!Next
  /\ UNCHANGED <<program, reduceVars, searchVars, coverVars, tbbVars,
                 gateVars, teamVars, splitVars, slotsVars, stealVars>>

RunTbb ==
  /\ program = "tbb" /\ Tbb!Next
  /\ UNCHANGED <<program, reduceVars, searchVars, coverVars, threadsVars,
                 gateVars, teamVars, splitVars, slotsVars, stealVars>>

RunGate ==
  /\ program = "gate" /\ Gate!Next
  /\ UNCHANGED <<program, reduceVars, searchVars, coverVars, threadsVars,
                 tbbVars, teamVars, splitVars, slotsVars, stealVars>>

RunTeam ==
  /\ program = "team" /\ Team!Next
  /\ UNCHANGED <<program, reduceVars, searchVars, coverVars, threadsVars,
                 tbbVars, gateVars, splitVars, slotsVars, stealVars>>

RunSplitting ==
  /\ program = "split" /\ Splitting!Next
  /\ UNCHANGED <<program, reduceVars, searchVars, coverVars, threadsVars,
                 tbbVars, gateVars, teamVars, slotsVars, stealVars>>

RunSlotted ==
  /\ program = "slots" /\ Slotted!Next
  /\ UNCHANGED <<program, reduceVars, searchVars, coverVars, threadsVars,
                 tbbVars, gateVars, teamVars, splitVars, stealVars>>

RunSteal ==
  /\ program = "steal" /\ Steal!Next
  /\ UNCHANGED <<program, reduceVars, searchVars, coverVars, threadsVars,
                 tbbVars, gateVars, teamVars, splitVars, slotsVars>>

Next == \/ RunReduction \/ RunSearch \/ RunCover \/ RunThreaded \/ RunTbb
        \/ RunGate \/ RunTeam \/ RunSplitting \/ RunSlotted \/ RunSteal

Spec == Init /\ [][Next]_vars

\* The threads are scheduled, TBB and PPL run what they are given, and
\* callables return.  In all programs but one every step is progress, so it is
\* enough that some step follows as long as one can be taken; the dancing links
\* are a single thread, which goes on until it is done.  The threads of the
\* pools of lib/tbbThreadPool poll, and each of them is scheduled; their owner
\* need not submit, ask for a result or destroy.
FairSpec ==
  /\ Spec
  /\ WF_vars(program \notin {"cover", "tbb"} /\ Next)
  /\ []<>(program # "cover" \/ mode = "done") \/ []<><<RunCover>>_coverVars
  /\ \A x \in Tbb!Threads : WF_tbbVars(program = "tbb" /\ Tbb!Thread(x))
  /\ WF_tbbVars(program = "tbb" /\ Tbb!GetReturn)
  /\ WF_tbbVars(program = "tbb" /\ Tbb!Destructor)

-----------------------------------------------------------------------------

\* The pools are consistent although several kinds of threads share them.  In
\* dual (case3_submitTasks.cpp:257-263) main reads a vector without the mutex
\* of the workers that fill it: by then it is complete.  In the pools of
\* lib/tbbThreadPool every callable is in one place, and the pool's own
\* threads have left it before its members go (tbbThreadPool.cpp:32-58).
PoolsSafe ==
  /\ program = "reduce" => Reduction!Consistent
  /\ program = "tbb" => Tbb!Consistent /\ Tbb!OwnThreadsOutlived

\* block, pipeline, std_async, dual and parallel_reduce implement MapReduce:
\* every item is computed once, its result is added to total_sum once and
\* after it was computed, and no iteration ends before each was added,
\* although worker, main and serial threads take part in it
\* (case3_submitTasks.cpp:51-112, 216-316).
Reduces == Reduction!Reduces

\* Nobody who uses a pool of lib/tbbThreadPool waits for ever, neither for a
\* future nor for the destructor (tbbThreadPool.cpp:32-39, 87).
PoolProgress == Tbb!Progress

\* The pools over a task_group keep the promise of Executor: what they
\* accepted has run to its end before the destructor returns
\* (tbbThreadPool.cpp:83-87).
GroupKeepsPromise == Tbb!GroupKeepsPromise

\* What is counted in parts adds up.  The searches with marks and with masks
\* keep them in step with the board, and at any moment have counted exactly
\* the solutions that come before it (nqueens.h:39-111, 286-457); the links
\* dance back into their places (nqueens.h:226-270); and the boards that
\* threads count by halves and ranges of the first row are all of them
\* (nqueens.h:461-516).  However PPL, TBB and the benchmarks divide a range
\* among tasks, each of its elements is counted once, and in the slot where
\* it belongs (strategies.h:20-201, bench_common.h:58-84,
\* case3_nestedTask.cpp).
PartsAddUp ==
  /\ program = "search" => Search!SearchCorrect
  /\ program = "cover" => Cover!CoverCorrect
  /\ program = "threads" => Threaded!ThreadsCorrect
  /\ program = "split" => Splitting!RangeCountedOnce
  /\ program = "slots" => Slotted!SlotsCountedOnce

\* Behind a gate or between two barriers, under a mutex, a read-write lock or
\* an atomic, every task and every increment is counted once, within the time
\* that is measured, but for the remainder kTotalWork % num_threads that
\* case5_lockCost rounds away: its assertions fail then and only then
\* (case5_lockCost.cpp:173, 184).  And nobody writes the team's function or
\* its stop flag while a thread may read them (case4_tooManyThreads.cpp:62-92,
\* case5_lockCost.cpp:117-145, case2_mutex.cpp, bench_common.h:149-174).
CountsExact ==
  /\ program = "gate" => Gate!TimedExactly
  /\ program = "team" => Team!VerifyExact /\ Team!TeamRaceFree

\* A mutex held over a nested loop deadlocks only when its holder, who waits
\* for the loop, starts another task that locks it; isolate prevents that
\* (case3_nestedTask.cpp:313-324, 342-355).
NestedLock == program = "steal" => Steal!DeadlocksOnItself

Over ==
  CASE program = "reduce"  -> reduce_main = "finished"
    [] program = "search"  -> done
    [] program = "cover"   -> mode = "done"
    [] program = "threads" -> Threaded!Over
    [] program = "tbb"     -> TRUE
    [] program = "gate"    -> Gate!Over
    [] program = "team"    -> Team!Over
    [] program = "split"   -> returned
    [] program = "slots"   -> slots_total # -1
    [] program = "steal"   -> Steal!Over

\* Every benchmark ends: no future, gate, barrier, loop or thread is waited for
\* in vain, no search goes round in circles, and the only deadlock is the one
\* that its watchdog ends.  A failed assertion ends case5_lockCost, too: see
\* CountsExact.  The pools of lib/tbbThreadPool end when their
\* owner says so: see PoolProgress.
BenchmarksEnd == <>Over
=============================================================================
