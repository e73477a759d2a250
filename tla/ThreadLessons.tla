---------------------------- MODULE ThreadLessons ----------------------------
(***************************************************************************)
(* The lessons about threads, one at a time: their threads take the steps  *)
(* of their scripts in any order.  The library's mutexes, condition        *)
(* variables and atomics are modelled from what the lessons use.           *)
(*                                                                         *)
(* First the vocabulary: what a thread may do next, as tuples whose first  *)
(* element names the action at the end of the module that does it, and a   *)
(* lesson: the scripts of its threads, its variables and locks, and what   *)
(* may have become of them when all threads have ended.  Thread 0 is main; *)
(* it starts the others and joins them.  Then the lessons, and the steps.  *)
(***************************************************************************)
EXTENDS Integers, Sequences, FiniteSets, TLC

Start(S)         == <<"start", S>>
Join(S)          == <<"join", S>>
Lock(m)          == <<"lock", m>>
LockAll(S)       == <<"lock all", S>>       \* std::lock, std::scoped_lock
LockShared(m)    == <<"lock shared", m>>
TryLock(m)       == <<"try", m>>
TryShared(m)     == <<"try shared", m>>
Unlock(m)        == <<"unlock", m>>
UnlockShared(m)  == <<"unlock shared", m>>
Level(l)         == <<"level", l>>          \* see HierarchicalMutex
Read(v)          == <<"read", v>>           \* plain accesses
Add(v, n)        == <<"add", v, n>>
Write(v, x)      == <<"write", v, x>>
Show(v)          == <<"show", v>>           \* read and print
Say(x)           == <<"say", x>>            \* print
Unless(x, n)     == <<"unless", x, n>>      \* skip n, unless x was read
Fence(order)     == <<"fence", order>>
Wait(c, m, v)    == <<"wait", c, m, v>>     \* cv.wait(lock of m, v == 1)
WaitFor(c, m, v) == <<"wait for", c, m, v>>
NotifyAll(c)     == <<"notify", c>>
Once(flag, v, x) == <<"once", flag, v, x>>
Look(a)          == <<"look", a>>           \* an atomic load of any value
Cas(a, x)        == <<"cas", a, x>>         \* see Desired

\* An access to an atomic: it happens when the value is in the domain of f,
\* and f is what becomes of the value.
Atomic(kind, a, f, order) == <<"atomic", kind, a, f, order>>

Small == 0..9
Store(a, x, order)    == Atomic("store", a, [y \in Small |-> x], order)
Await(a, S, order)    == Atomic("load", a, [y \in S |-> y], order)
FetchAdd(a, n, order) == Atomic("rmw", a, [y \in Small |-> y + n], order)
Exchange(a, x, order) == Atomic("rmw", a, [y \in Small |-> x], order)
Claim(a, order)       == Atomic("rmw", a, [y \in {0} |-> 1], order)
Acquire(a)            == Atomic("rmw", a, [y \in Small \ {0} |-> y - 1], "acquire")

Locked(m, body) == <<Lock(m)>> \o body \o <<Unlock(m)>>

Twice(s) == s \o s

\* A script after a try: unless it has succeeded the body is left out.
IfTaken(body) == <<Unless(1, Len(body))>> \o body

\* main starts the workers, does something itself, joins them and goes on.
Scripts(workers, meanwhile, after) ==
  [t \in 0..Len(workers) |->
     IF t > 0 THEN workers[t]
     ELSE <<Start(1..Len(workers))>> \o meanwhile
            \o <<Join(1..Len(workers))>> \o after]

Joined(workers, after) == Scripts(workers, <<>>, after)

\* scripts by thread; mem: the variables and their first values; locks;
\* final: what some variables hold in the end; said: what may be printed.
Lesson(scripts, mem, locks, final, said) ==
  [scripts |-> scripts, mem |-> mem, locks |-> locks, final |-> final,
   said |-> said]

Nothing == [x \in {} |-> 0]
Silent  == {<<>>}

\* All sequences of up to n values of S that never decrease.
Rising(S, n) ==
  {s \in UNION {[1..k -> S] : k \in 0..n} :
     \A i, j \in DOMAIN s : i < j => s[i] <= s[j]}

\* The sections of two threads, of k lines each, one after the other.
OneByOne(k) == {[i \in 1..2 * k |-> IF i <= k THEN t ELSE 3 - t] : t \in 1..2}

-----------------------------------------------------------------------------
(***************************************************************************)
(* The lessons about mutexes and about waiting: 0_mutex, 1_lockManager,    *)
(* 2_wait and 7_deadlock of 2_threadsManage, the ordered threads of        *)
(* 1_threadCreate.cpp and the mutex of 06_AtomicVsMutex.cpp.  What a       *)
(* thread prints in a critical section is its own number, or "in" and      *)
(* "out" where a thread may be turned away.  Loops are shortened, threads  *)
(* that do the same are two or three.                                      *)
(***************************************************************************)

Pair(body(_)) == Joined(<<body(1), body(2)>>, <<>>)

Section(t) == <<Say(t), Say(t)>>

mutex_basic ==
  Lesson(Pair(LAMBDA t : Locked("mtx", Section(t))),
         Nothing, {"mtx"}, Nothing, OneByOne(2))

lock_guard_example == mutex_basic

InAndOut == <<Say("in"), Say("out")>>

\* A thread that is turned away prints nothing here.
Visits == {<<"in", "out">>, <<"in", "out", "in", "out">>}

\* Mutant: the thread goes on although it has not got the lock.
TryEnter_Regardless(m) == <<TryLock(m)>> \o InAndOut \o <<Unlock(m)>>

TryEnter(m) == <<TryLock(m)>> \o IfTaken(InAndOut \o <<Unlock(m)>>)

try_lock_example ==
  Lesson(Pair(LAMBDA t : TryEnter("mtx")), Nothing, {"mtx"}, Nothing, Visits)

\* try_lock_for: a thread may also get a lock that it has waited for.
timed_mutex_example ==
  Lesson(Pair(LAMBDA t : TryEnter("tmtx")), Nothing, {"tmtx"}, Nothing, Visits)

\* recursive_function, to a depth of two.
recursive_mutex_example ==
  Lesson(Pair(LAMBDA t : Locked("rmtx", <<Say(t)>>
                           \o Locked("rmtx", Section(t)) \o <<Say(t)>>)),
         Nothing, {"rmtx"}, Nothing, OneByOne(4))

\* The cache is empty (0) until it is updated; once a reader has seen the
\* data all later ones do.
shared_mutex_example ==
  LET reader == <<LockShared("rw_mutex"), Show("cache_data"),
                  UnlockShared("rw_mutex")>>
  IN Lesson(Joined(<<Locked("rw_mutex", <<Write("cache_data", 4)>>),
                     reader, reader>>, <<>>),
            [cache_data |-> 0], {"rw_mutex"}, [cache_data |-> 4],
            {s \in Rising({0, 4}, 2) : Len(s) = 2})

shared_timed_mutex_example ==
  LET writer == <<TryLock("stm")>>
                  \o IfTaken(<<Add("shared_data", 1), Show("shared_data"),
                               Unlock("stm")>>)
      reader == <<TryShared("stm")>>
                  \o IfTaken(<<Show("shared_data"), UnlockShared("stm")>>)
  IN Lesson(Joined(<<writer, writer, reader>>, <<>>),
            [shared_data |-> 0], {"stm"}, Nothing, Rising(0..2, 3))

\* unique_lock releases the mutex that it took a second time.
unique_lock_example ==
  Lesson(Pair(LAMBDA t : Locked("mtx", Section(t)) \o Locked("mtx", <<>>)),
         Nothing, {"mtx"}, Nothing, OneByOne(2))

Both(body) == <<LockAll({"mtx1", "mtx2"})>> \o body
                \o <<Unlock("mtx2"), Unlock("mtx1")>>

scoped_lock_example ==
  Lesson(Pair(LAMBDA t : Both(Section(t))), Nothing, {"mtx1", "mtx2"}, Nothing,
         OneByOne(2))

-----------------------------------------------------------------------------

\* thread_a_bad and thread_b_bad, started as the comment starts them.
deadlock_classic ==
  LET count == <<Add("shared_data", 1)>>
  IN Lesson(Joined(<<Locked("mtx1", Locked("mtx2", count)),
                     Locked("mtx2", Locked("mtx1", count))>>, <<>>),
            [shared_data |-> 0], {"mtx1", "mtx2"}, [shared_data |-> 2], Silent)

\* safe_worker prints what it has made of shared_data.
deadlock_fix_scoped_lock ==
  LET count == <<Add("shared_data", 1), Show("shared_data")>>
  IN Lesson(Pair(LAMBDA t : Both(count)),
            [shared_data |-> 0], {"mtx1", "mtx2"}, [shared_data |-> 2],
            {<<1, 2>>})

deadlock_fix_std_lock ==
  Lesson(Pair(LAMBDA t : Both(<<Add("shared_data", 1)>>)),
         [shared_data |-> 0], {"mtx1", "mtx2"}, [shared_data |-> 2], Silent)

\* HierarchicalMutex::lock notes the level of the mutex while it waits for
\* it, and puts the former level back as soon as it holds it.
HierarchicalLock(m, level) == <<Level(level), Lock(m), Level(-1)>>

GoodWorker ==
  HierarchicalLock("low_level", 10) \o HierarchicalLock("medium_level", 500)
    \o HierarchicalLock("high_level", 1000)
    \o <<Unlock("high_level"), Unlock("medium_level"), Unlock("low_level")>>

\* The wrong order of lines 174-175, high before low, which is to terminate.
BadWorker ==
  HierarchicalLock("high_level", 1000) \o HierarchicalLock("low_level", 10)
    \o <<Unlock("low_level"), Unlock("high_level")>>

deadlock_hierarchical ==
  Lesson([t \in {0} |-> GoodWorker], Nothing,
         {"low_level", "medium_level", "high_level"}, Nothing, Silent)

wrong_hierarchy ==
  Lesson(Joined(<<GoodWorker, BadWorker>>, <<>>), Nothing,
         {"low_level", "medium_level", "high_level"}, Nothing, Silent)

-----------------------------------------------------------------------------

\* Mutant: nobody is notified once i is 1.
Signals_Early ==
  Locked("cv_m", <<>>) \o <<NotifyAll("cv")>>
    \o Locked("cv_m", <<Write("i", 1)>>)

\* The first notification comes before i is 1.
Signals ==
  Locked("cv_m", <<>>) \o <<NotifyAll("cv")>>
    \o Locked("cv_m", <<Write("i", 1)>>) \o <<NotifyAll("cv")>>

\* What a thread prints that has finished waiting is i.
cv_wait ==
  LET waits == Locked("cv_m", <<Wait("cv", "cv_m", "i"), Show("i")>>)
  IN Lesson(Joined(<<waits, waits, waits, Signals>>, <<>>),
            [i |-> 0], {"cv_m"}, [i |-> 1], {<<1, 1, 1>>})

\* A thread that has timed out prints 0, and nobody does after one that has
\* seen the 1.
cv_waitFor ==
  LET waits   == Locked("cv_m", <<WaitFor("cv", "cv_m", "i"), Show("i")>>)
      signals == <<NotifyAll("cv")>> \o Locked("cv_m", <<Write("i", 1)>>)
                   \o <<NotifyAll("cv")>>
  IN Lesson(Joined(<<waits, waits, signals>>, <<>>),
            [i |-> 0], {"cv_m"}, [i |-> 1],
            {s \in Rising({0, 1}, 2) : Len(s) = 2})

\* go is detached: at its exit the mutex is released, then all are notified.
NotifyAllAtThreadExit ==
  LET print_id(t) == Locked("mtx", <<Wait("cv", "mtx", "ready"), Say(t)>>)
      go == Locked("mtx", <<Write("ready", 1)>>) \o <<NotifyAll("cv")>>
  IN Lesson([t \in 0..3 |->
               CASE t = 0 -> <<Start(1..3), Join(1..2)>>
                 [] t = 3 -> go
                 [] OTHER -> print_id(t)],
            [ready |-> 0], {"mtx"}, [ready |-> 1], {<<1, 2>>, <<2, 1>>})

\* class Foo: main's constructor locks both mutexes; they are unlocked by the
\* threads that come before.
Foo ==
  Lesson([t \in 0..3 |->
            CASE t = 0 -> <<TryLock("mtx1"), TryLock("mtx2"),
                            Start(1..3), Join(1..3)>>
              [] t = 1 -> <<Say(1), Unlock("mtx1")>>
              [] t = 2 -> Locked("mtx1", <<Say(2), Unlock("mtx2")>>)
              [] t = 3 -> Locked("mtx2", <<Say(3)>>)],
         Nothing, {"mtx1", "mtx2"}, Nothing, {<<1, 2, 3>>})

mutex_increment ==
  LET task == Twice(Locked("mtx", <<Add("counter", 1)>>))
  IN Lesson(Joined(<<task, task>>, <<Show("counter")>>),
            [counter |-> 0], {"mtx"}, Nothing, {<<4>>})

-----------------------------------------------------------------------------
(***************************************************************************)
(* The lessons about threads that hand something over: 3_promise and the   *)
(* barrier and semaphore of 6_cpp20_sync in 2_threadsManage, packaged      *)
(* tasks and stop tokens of 1_threadCreate, and the exercises of 3_openmp  *)
(* in which threads depend on each other.                                  *)
(*                                                                         *)
(* A future is ready when its atomic is 1.  A region of OpenMP is a team   *)
(* of threads that main starts and joins.  Of workers that do the same     *)
(* there are two or three.                                                 *)
(***************************************************************************)

\* The promise of x is kept; a future is waited for and its value printed.
Keep(x, value) == <<Write(x, value), Store("ready", 1, "release")>>
Wanted         == Await("ready", {1}, "acquire")
Get(x)         == <<Wanted, Show(x)>>

promise_future_thread ==
  Lesson(Scripts(<<Get("prom")>>, Keep("prom", 3), <<>>),
         [prom |-> 0, ready |-> 0], {}, Nothing, {<<3>>})

promise_future_async ==
  Lesson(Scripts(<<Keep("result", 8)>>, Get("result"), <<>>),
         [result |-> 0, ready |-> 0], {}, Nothing, {<<8>>})

\* The calculation on a thread of its own (std::async): the loop over
\* wait_for leaves when the future is ready.
future_waitFor ==
  Lesson(Scripts(<<Keep("fut", 1)>>, Get("fut"), <<>>),
         [fut |-> 0, ready |-> 0], {}, Nothing, {<<1>>})

\* Three readers of one shared_future.
shared_future ==
  Lesson(Scripts(<<Get("p"), Get("p"), Get("p")>>, Keep("p", 4), <<>>),
         [p |-> 0, ready |-> 0], {}, Nothing, {<<4, 4, 4>>})

\* The thread with the packaged task is detached: main waits for the result.
packagedTask_withThread ==
  Lesson([t \in 0..1 |-> IF t = 0 THEN <<Start({1})>> \o Get("result")
                         ELSE Keep("result", 7)],
         [result |-> 0, ready |-> 0], {}, Nothing, {<<7>>})

-----------------------------------------------------------------------------

\* The stop token: polled by the workers, requested by main.
stop_source_manual ==
  LET worker(t) == <<Await("stop", {1}, "acquire"), Say("cancelled")>>
  IN Lesson(Scripts(<<worker(1), worker(2), worker(3)>>,
                    <<Store("stop", 1, "release")>>, <<>>),
            [stop |-> 0], {}, Nothing,
            {[i \in 1..3 |-> "cancelled"]})

\* A stop_callback is called by request_stop, or by its own constructor when
\* that comes later, and its destructor waits for the call.  state: 0, 1
\* registered, 2 requested, 3 both, 4 called.
stop_callback_example ==
  LET call   == <<Say("cleaning"), Store("state", 4, "release")>>
      worker == <<Atomic("rmw", "state", [y \in {0, 2} |-> y + 1], "acq_rel"),
                  Unless(2, 2)>> \o call
                  \o <<Await("state", {3, 4}, "acquire"), Say("leaving"),
                       Await("state", {4}, "acquire")>>
      stop   == <<Atomic("rmw", "state", [y \in {0, 1} |-> y + 2], "acq_rel"),
                  Unless(1, 2)>> \o call
  IN Lesson(Scripts(<<worker>>, stop, <<>>), [state |-> 0], {}, [state |-> 4],
            {<<"cleaning", "leaving">>, <<"leaving", "cleaning">>})

-----------------------------------------------------------------------------

\* arrive_and_wait of n threads for the k-th time; the last one to arrive
\* runs what is to be done on completion and opens the next phase.
ArriveAndWait(n, k, completion) ==
  <<FetchAdd("arrived", 1, "acq_rel"), Unless(n * k - 1, Len(completion) + 1)>>
    \o completion
    \o <<Store("phase", k, "release"), Await("phase", k..9, "acquire")>>

\* Mutant: the phase is reported after the barrier.
cpp20_barrier_Late ==
  LET worker == ArriveAndWait(3, 1, <<Say(11)>>) \o <<Say(1)>>
                  \o ArriveAndWait(3, 2, <<Say(12)>>) \o <<Say(2)>>
  IN Lesson(Joined(<<worker, worker, worker>>, <<>>),
            [arrived |-> 0, phase |-> 0], {}, Nothing,
            {<<1, 1, 1, 11, 2, 2, 2, 12>>})

\* Three workers, two phases.  (worker takes a std::barrier without a function
\* on completion, line 79, which is not the type of line 100: the lesson is
\* modelled as it is meant.)
cpp20_barrier ==
  LET worker == <<Say(1)>> \o ArriveAndWait(3, 1, <<Say(11)>>)
                  \o <<Say(2)>> \o ArriveAndWait(3, 2, <<Say(12)>>)
  IN Lesson(Joined(<<worker, worker, worker>>, <<>>),
            [arrived |-> 0, phase |-> 0], {}, Nothing,
            {<<1, 1, 1, 11, 2, 2, 2, 12>>})

\* Never more than k of three inside.
AtMost(k) ==
  LET inside(s, i) == Cardinality({j \in 1..i : s[j] = "in"})
                        - Cardinality({j \in 1..i : s[j] = "out"})
  IN {s \in [1..6 -> {"in", "out"}] :
        inside(s, 6) = 0 /\ \A i \in 1..6 : inside(s, i) \in 0..k}

\* Three workers for two permits; the code has ten for three.
cpp20_semaphore ==
  LET worker == <<Acquire("limiter"), Say("in"), Say("out"),
                  FetchAdd("limiter", 1, "release")>>
  IN Lesson(Joined(<<worker, worker, worker>>, <<>>),
            [limiter |-> 2], {}, [limiter |-> 2], AtMost(2))

-----------------------------------------------------------------------------

OpenMP_critical ==
  LET worker(i) == Locked("critical", <<Add("sum", i)>>)
  IN Lesson(Joined(<<worker(1) \o worker(2), worker(3)>>, <<Show("sum")>>),
            [sum |-> 0], {"critical"}, Nothing, {<<6>>})

OpenMP_barrier ==
  LET worker == <<Say("hello")>> \o ArriveAndWait(3, 1, <<>>) \o <<Say("passed")>>
  IN Lesson(Joined(<<worker, worker, worker>>, <<>>),
            [arrived |-> 0, phase |-> 0], {}, Nothing,
            {<<"hello", "hello", "hello", "passed", "passed", "passed">>})

\* energy, its summands 1 to 3.
OpenMP_atomic ==
  LET add(eij) == FetchAdd("energy", eij, "relaxed")
  IN Lesson(Joined(<<<<add(1), add(2)>>, <<add(3)>>>>, <<Show("energy")>>),
            [energy |-> 0], {}, Nothing, {<<6>>})

\* Three iterations on three threads: the ordered parts come in turn.
OpenMP_ordered ==
  LET iteration(i) == <<Await("turn", {i}, "acquire"), Say(i),
                        Store("turn", i + 1, "release")>>
  IN Lesson(Joined(<<iteration(0), iteration(1), iteration(2)>>, <<>>),
            [turn |-> 0], {}, Nothing, {<<0, 1, 2>>})

\* The first thread to arrive takes the single construct, at whose end there
\* is a barrier as well.
OpenMP_single ==
  LET worker(t) == <<Exchange("taken", 1, "relaxed"), Unless(0, 1), Say("single")>>
                     \o ArriveAndWait(2, 1, <<>>) \o ArriveAndWait(2, 2, <<>>)
                     \o Locked("critical", <<Say(t)>>)
  IN Lesson(Joined(<<worker(1), worker(2)>>, <<>>),
            [taken |-> 0, arrived |-> 0, phase |-> 0], {"critical"}, Nothing,
            {<<"single", 1, 2>>, <<"single", 2, 1>>})

\* The tasks are the threads 2 and 3, the thread in the single construct is 1.
OpenMP_taskWait ==
  LET single == <<Start({2, 3}), Join({2, 3}), Show("x"), Show("y")>>
  IN Lesson([t \in 0..3 |-> CASE t = 0 -> <<Start({1}), Join({1})>>
                              [] t = 1 -> single
                              [] t = 2 -> <<Write("x", 1)>>
                              [] t = 3 -> <<Write("y", 2)>>],
            [x |-> 0, y |-> 0], {}, Nothing, {<<1, 2>>})

OpenMP_taskGroup ==
  LET single == <<Start(2..4), Join(2..4), Say("completed")>>
  IN Lesson([t \in 0..4 |-> CASE t = 0 -> <<Start({1}), Join({1})>>
                              [] t = 1 -> single
                              [] OTHER -> <<Say("task")>>],
            Nothing, {}, Nothing, {<<"task", "task", "task", "completed">>})

OpenMP_lock ==
  LET worker(t) == Locked("lock", <<Say(t), Say(t)>>)
  IN Lesson(Joined(<<worker(1), worker(2)>>, <<>>), Nothing, {"lock"}, Nothing,
            OneByOne(2))

\* Mutant: the tasks read the variable p of the thread that goes on.
ProcessWork_Shared(node) == <<Read("p"), Write(node, 1)>>

\* p is a copy of the task's own (firstprivate); its node's fibData is set.
ProcessWork(node) == <<Write(node, 1)>>

\* 02_parallel_linked_list_tasks.cpp with two nodes: the thread in the single
\* construct walks along the list and leaves a task behind for each of them.
LinkedListTasks ==
  LET single == <<Write("p", 1), Read("p"), Start({2}), Write("p", 2), Read("p"),
                  Start({3}), Write("p", 0), Read("p"), Join({2, 3})>>
  IN Lesson([t \in 0..3 |->
               CASE t = 0 -> <<Start({1}), Join({1}), Show("node1"), Show("node2")>>
                 [] t = 1 -> single
                 [] t = 2 -> ProcessWork("node1")
                 [] t = 3 -> ProcessWork("node2")],
            [p |-> 0, node1 |-> 0, node2 |-> 0], {}, Nothing, {<<1, 1>>})

\* Each thread adds its part of the integral; Parts is what they have found.
integration ==
  LET worker(part) == Locked("critical", <<Add("full_sum", part)>>)
  IN Lesson(Joined(<<worker(1), worker(2), worker(3)>>, <<Show("full_sum")>>),
            [full_sum |-> 0], {"critical"}, Nothing, {<<6>>})

\* The sections of 00_prodConsumer.cpp, where the flag is polled between
\* flushes.  The first section may be left to the thread that takes the
\* second one as well.
FillRand == <<Write("A", 5), Store("flag", 1, "release")>>
SumArray == <<Await("flag", {1}, "acquire"), Read("A"), Write("sum", 5)>>

prodConsumer ==
  Lesson(Joined(<<FillRand, SumArray>>, <<Show("sum")>>),
         [A |-> 0, flag |-> 0, sum |-> 0], {}, Nothing, {<<5>>})

prodConsumer_alone ==
  Lesson(Joined(<<FillRand \o SumArray, <<>>>>, <<Show("sum")>>),
         [A |-> 0, flag |-> 0, sum |-> 0], {}, Nothing, {<<5>>})

-----------------------------------------------------------------------------
(***************************************************************************)
(* The lessons about atomics: 4_atomic_operator and 5_memoryOrder of       *)
(* 2_threadsManage, thread_yield of 2_threadManage.cpp, CAS.cpp, the       *)
(* atomic of 06_AtomicVsMutex.cpp and the counters of 05_pingPongCache.cpp.*)
(* Ten threads of the code, or 10000, are two or three here.               *)
(***************************************************************************)

regular_oper ==
  LET add == FetchAdd("count", 1, "seq_cst")
  IN Lesson(Joined(<<<<add>>, <<add, add>>>>, <<Show("count")>>),
            [count |-> 0], {}, Nothing, {<<3>>})

\* The gate opens, and one thread is the first to exchange.
atomic_bool ==
  LET count1m(t) == <<Await("ready", {1}, "seq_cst"),
                      Exchange("winner", 1, "seq_cst"), Unless(0, 1), Say("won")>>
  IN Lesson(Scripts(<<count1m(1), count1m(2), count1m(3)>>,
                    <<Store("ready", 1, "seq_cst")>>, <<>>),
            [ready |-> 0, winner |-> 0], {}, Nothing, {<<"won">>})

\* append: a load of the head, and exchanges until one succeeds.  The value of
\* the head is the list from there on, its nodes the digits of a number; main
\* prints it.
atomic_cas_example ==
  LET append(val) == <<Look("list_head"), Cas("list_head", val)>>
  IN Lesson(Joined(<<append(1), append(2), append(3)>>, <<Show("list_head")>>),
            [list_head |-> 0], {}, Nothing,
            {<<123>>, <<132>>, <<213>>, <<231>>, <<312>>, <<321>>})

\* The stream behind a spin lock.
atomic_flag_example ==
  LET append_number == <<Claim("lock_stream", "seq_cst"), Add("stream", 1),
                         Store("lock_stream", 0, "seq_cst")>>
  IN Lesson(Joined(<<append_number, append_number, append_number>>,
                   <<Show("stream")>>),
            [lock_stream |-> 0, stream |-> 0], {}, Nothing, {<<3>>})

call_once_example ==
  LET wait_1000ms(id) == <<Once("winner_flag", "winner", id)>>
  IN Lesson(Joined(<<wait_1000ms(1), wait_1000ms(2), wait_1000ms(3)>>,
                   <<Show("winner")>>),
            [winner_flag |-> 0, winner |-> 0], {}, Nothing,
            {<<1>>, <<2>>, <<3>>})

\* Mutant: no fence after the relaxed exchange.
FenceMutexLock_NoFence == <<Claim("flag", "relaxed")>>

\* The mutex made of a relaxed flag and two fences.
FenceMutexLock == <<Claim("flag", "relaxed"), Fence("acquire")>>

FenceMutexUnlock == <<Fence("release"), Store("flag", 0, "relaxed")>>

atomic_thread_fence ==
  LET add(n) == FenceMutexLock \o <<Add("a", n)>> \o FenceMutexUnlock
  IN Lesson(Joined(<<add(1), add(2)>>, <<Show("a")>>),
            [flag |-> 0, a |-> 0], {}, Nothing, {<<3>>})

-----------------------------------------------------------------------------

\* identifier2: only the value itself goes from one thread to the other.
test_2 ==
  Lesson(Joined(<<<<Await("foo", 1..9, "relaxed")>>,
                  <<Store("foo", 5, "relaxed")>>>>, <<>>),
         [foo |-> 0], {}, [foo |-> 5], Silent)

CountedWith(order) ==
  LET add == <<FetchAdd("counter", 1, order)>>
  IN Lesson(Joined(<<add, add, add>>, <<>>),
            [counter |-> 0], {}, [counter |-> 3], Silent)

relaxed_order_bench == CountedWith("relaxed")

seq_cst_order_bench == CountedWith("seq_cst")

\* The consumer reads what the pointer points to, and v, which the pointer
\* does not lead to.
release_consume_order ==
  Lesson(Joined(<<<<Write("*ptr", 4), Write("v", 1), Store("ptr", 1, "release")>>,
                  <<Await("ptr", {1}, "consume"), Show("*ptr"), Show("v")>>>>,
                <<>>),
         ("*ptr" :> 0) @@ [v |-> 0, ptr |-> 0], {}, Nothing, {<<4, 1>>})

\* Mutant: the exchange in the middle acquires only.
release_acquire_order_NoRelease ==
  LET release == <<Write("v", 4), Store("flag", 1, "release")>>
      acqrel  == <<Atomic("store", "flag", [y \in {1} |-> 2], "acquire")>>
      acquire == <<Await("flag", {2}, "acquire"), Show("v")>>
  IN Lesson(Joined(<<release, acqrel, acquire>>, <<>>),
            [v |-> 0, flag |-> 0], {}, Nothing, {<<4>>})

\* Three threads in a chain; v "must be 42" at its end.
release_acquire_order ==
  LET release == <<Write("v", 4), Store("flag", 1, "release")>>
      acqrel  == <<Atomic("rmw", "flag", [y \in {1} |-> 2], "acq_rel")>>
      acquire == <<Await("flag", {2}, "acquire"), Show("v")>>
  IN Lesson(Joined(<<release, acqrel, acquire>>, <<>>),
            [v |-> 0, flag |-> 0], {}, Nothing, {<<4>>})

-----------------------------------------------------------------------------

thread_yield ==
  LET copy_foo_to_bar == <<Await("foo", 1..9, "seq_cst"),
                           Store("bar", 5, "seq_cst")>>
  IN Lesson(Joined(<<<<Await("bar", 1..9, "seq_cst"), Say("bar")>>,
                     <<Store("foo", 5, "seq_cst")>>,
                     copy_foo_to_bar>>, <<>>),
            [foo |-> 0, bar |-> 0], {}, [foo |-> 5, bar |-> 5], {<<"bar">>})

\* increment of CAS.cpp: after a failed exchange the value is loaded again.
AtomicCounter ==
  LET increment == <<Look("counter"), Cas("counter", 0)>>
  IN Lesson(Joined(<<Twice(increment), Twice(increment)>>, <<Show("counter")>>),
            [counter |-> 0], {}, Nothing, {<<4>>})

atomic_increment ==
  LET task == Twice(<<FetchAdd("counter", 1, "relaxed")>>)
  IN Lesson(Joined(<<task, task>>, <<Show("counter")>>),
            [counter |-> 0], {}, Nothing, {<<4>>})

\* increment of 05_pingPongCache.cpp, its loop at most once: a counter for each
\* thread, read by main after the join.
pingPong ==
  LET increment(v) == <<Look("stop_flag"), Unless(0, 1), Add(v, 1),
                        Await("stop_flag", {1}, "seq_cst")>>
  IN Lesson(Scripts(<<increment("i1"), increment("i2")>>,
                    <<Store("stop_flag", 1, "seq_cst")>>,
                    <<Show("i1"), Show("i2")>>),
            [i1 |-> 0, i2 |-> 0, stop_flag |-> 0], {}, Nothing,
            {<<a, b>> : a, b \in 0..1})

-----------------------------------------------------------------------------
(***************************************************************************)
(* The steps of the threads.                                               *)
(*                                                                         *)
(* The order of memory accesses is the happens-before order of C++:        *)
(* "order" says what each thread knows of the accesses to plain variables, *)
(* what a lock or an atomic passes on of it, and which accesses race.  An  *)
(* access is <<thread, variable, "r" or "w">>; only the latest one counts, *)
(* so that nobody knows of a new one but who makes it.  The value that a   *)
(* load returns is the latest one.                                         *)
(***************************************************************************)

VARIABLES lesson,
          at,           \* thread -> its place in its script, 0 before it starts
          mem,          \* the variables and atomics
          locks,        \* mutex -> its owner, how often, and its shared owners
          asleep,       \* thread -> "no", a condition variable, or on its way
          level,        \* thread -> current_level of HierarchicalMutex
          seen,         \* thread -> the value it has got last
          order,
          out,          \* what was printed
          misuse        \* the undefined operations

vars == <<lesson, at, mem, locks, asleep, level, seen, order, out, misuse>>

Threads == 0..4
NoOwner == 9

LessonNames ==
  {"mutex_basic", "try_lock", "timed", "recursive", "shared",
   "shared_timed", "unique", "scoped", "classic", "scoped_fix",
   "lock_fix", "hierarchy", "wrong_hierarchy", "cv_wait", "cv_waitFor",
   "at_exit", "Foo", "mutex_increment", "promise", "waitFor",
   "shared_future", "packaged", "stop", "callback", "barrier",
   "semaphore", "critical", "team_barrier", "omp_atomic", "ordered",
   "single", "taskwait", "integration", "sections", "one_section",
   "regular", "atomic_bool", "cas", "atomic_flag", "once", "fences",
   "relaxed", "relaxed_count", "consume", "acquire", "yield", "counter",
   "atomic_increment", "pingPong", "lock_guard", "async", "task_group",
   "omp_lock", "linked_list", "seq_cst"}

LessonOf(l) ==
  CASE l = "mutex_basic"      -> mutex_basic
    [] l = "try_lock"         -> try_lock_example
    [] l = "timed"            -> timed_mutex_example
    [] l = "recursive"        -> recursive_mutex_example
    [] l = "shared"           -> shared_mutex_example
    [] l = "shared_timed"     -> shared_timed_mutex_example
    [] l = "unique"           -> unique_lock_example
    [] l = "scoped"           -> scoped_lock_example
    [] l = "classic"          -> deadlock_classic
    [] l = "scoped_fix"       -> deadlock_fix_scoped_lock
    [] l = "lock_fix"         -> deadlock_fix_std_lock
    [] l = "hierarchy"        -> deadlock_hierarchical
    [] l = "wrong_hierarchy"  -> wrong_hierarchy
    [] l = "cv_wait"          -> cv_wait
    [] l = "cv_waitFor"       -> cv_waitFor
    [] l = "at_exit"          -> NotifyAllAtThreadExit
    [] l = "Foo"              -> Foo
    [] l = "mutex_increment"  -> mutex_increment
    [] l = "promise"          -> promise_future_thread
    [] l = "waitFor"          -> future_waitFor
    [] l = "shared_future"    -> shared_future
    [] l = "packaged"         -> packagedTask_withThread
    [] l = "stop"             -> stop_source_manual
    [] l = "callback"         -> stop_callback_example
    [] l = "barrier"          -> cpp20_barrier
    [] l = "semaphore"        -> cpp20_semaphore
    [] l = "critical"         -> OpenMP_critical
    [] l = "team_barrier"     -> OpenMP_barrier
    [] l = "omp_atomic"       -> OpenMP_atomic
    [] l = "ordered"          -> OpenMP_ordered
    [] l = "single"           -> OpenMP_single
    [] l = "taskwait"         -> OpenMP_taskWait
    [] l = "integration"      -> integration
    [] l = "sections"         -> prodConsumer
    [] l = "one_section"      -> prodConsumer_alone
    [] l = "regular"          -> regular_oper
    [] l = "atomic_bool"      -> atomic_bool
    [] l = "cas"              -> atomic_cas_example
    [] l = "atomic_flag"      -> atomic_flag_example
    [] l = "once"             -> call_once_example
    [] l = "fences"           -> atomic_thread_fence
    [] l = "relaxed"          -> test_2
    [] l = "relaxed_count"    -> relaxed_order_bench
    [] l = "consume"          -> release_consume_order
    [] l = "acquire"          -> release_acquire_order
    [] l = "yield"            -> thread_yield
    [] l = "counter"          -> AtomicCounter
    [] l = "atomic_increment" -> atomic_increment
    [] l = "pingPong"         -> pingPong
    [] l = "lock_guard"       -> lock_guard_example
    [] l = "async"            -> promise_future_async
    [] l = "task_group"       -> OpenMP_taskGroup
    [] l = "omp_lock"         -> OpenMP_lock
    [] l = "linked_list"      -> LinkedListTasks
    [] l = "seq_cst"          -> seq_cst_order_bench

L == LessonOf(lesson)
Script(t) == L.scripts[t]
Names == DOMAIN L.mem \cup L.locks

FreeLock == [owner |-> NoOwner, depth |-> 0, readers |-> {}]

Init ==
  /\ lesson \in LessonNames
  /\ at = [t \in Threads |-> IF t = 0 THEN 1 ELSE 0]
  /\ mem = L.mem
  /\ locks = [m \in L.locks |-> FreeLock]
  /\ asleep = [t \in Threads |-> "no"]
  /\ level = [t \in Threads |-> -1]
  /\ seen = [t \in Threads |-> 0]
  /\ order = [knows   |-> [t \in Threads |-> {}],
              heard   |-> [t \in Threads |-> {}],
              shown   |-> [t \in Threads |-> {}],
              carried |-> [x \in Names |-> {}],
              done |-> {}, races |-> {}]
  /\ out = <<>> /\ misuse = {}

Op(t) == Script(t)[at[t]]

\* t has a next step.  The actions get it as op, its first element says which
\* action it is.
Ready(t) == /\ t \in DOMAIN L.scripts
            /\ at[t] \in 1..Len(Script(t))
            /\ asleep[t] = "no"

Advance(t) == at' = [at EXCEPT ![t] = @ + 1]
Ended(t)   == at[t] = Len(Script(t)) + 1
AllDone    == \A t \in DOMAIN L.scripts : Ended(t)

-----------------------------------------------------------------------------
\* Happens before.

Acquires == {"acquire", "acq_rel", "seq_cst"}
Releases == {"release", "acq_rel", "seq_cst"}

AfterAccess(o, t, v, kind) ==
  LET e == <<t, v, kind>>
      conflicts == {d \in o.done : d[1] # t /\ d[2] = v /\ "w" \in {kind, d[3]}}
      Forget(f) == [x \in DOMAIN f |-> f[x] \ {e}]
  IN [knows   |-> [Forget(o.knows) EXCEPT ![t] = @ \cup {e}],
      heard   |-> Forget(o.heard),
      shown   |-> Forget(o.shown),
      carried |-> Forget(o.carried),
      done    |-> o.done \cup {e},
      races   |-> o.races \cup (IF conflicts \subseteq o.knows[t] THEN {} ELSE {v})]

\* t writes x: a store begins anew what x passes on, a read-modify-write and
\* an unlock add to it.
AfterRelease(o, t, x, o_rder, anew) ==
  [o EXCEPT !.carried[x] =
     (IF anew THEN {} ELSE @)
       \cup (IF o_rder \in Releases THEN o.knows[t] ELSE o.shown[t])]

\* t reads x: with consume it learns of what the pointer leads to, and with a
\* relaxed order nothing before a fence.
AfterAcquire(o, t, x, o_rder) ==
  IF o_rder \in Acquires
  THEN [o EXCEPT !.knows[t] = @ \cup o.carried[x]]
  ELSE IF o_rder = "consume"
  THEN [o EXCEPT !.knows[t] = @ \cup {e \in o.carried[x] : e[2] = "*ptr"}]
  ELSE [o EXCEPT !.heard[t] = @ \cup o.carried[x]]

AfterFence(o, t, o_rder) ==
  IF o_rder = "acquire" THEN [o EXCEPT !.knows[t] = @ \cup o.heard[t]]
  ELSE [o EXCEPT !.shown[t] = o.knows[t]]

-----------------------------------------------------------------------------
\* Threads, printing and plain variables.

StartThreads(t, op) ==
  /\ op[1] = "start"
  /\ LET S == op[2]
     IN /\ at' = [u \in Threads |-> IF u = t THEN at[u] + 1
                                    ELSE IF u \in S THEN 1 ELSE at[u]]
        /\ order' = [order EXCEPT !.knows =
                       [u \in Threads |-> IF u \in S THEN @[t] ELSE @[u]]]
  /\ UNCHANGED <<lesson, mem, locks, asleep, level, seen, out, misuse>>

JoinThreads(t, op) ==
  /\ op[1] = "join"
  /\ \A u \in op[2] : Ended(u)
  /\ Advance(t)
  /\ order' = [order EXCEPT !.knows[t] =
                 @ \cup UNION {order.knows[u] : u \in op[2]}]
  /\ UNCHANGED <<lesson, mem, locks, asleep, level, seen, out, misuse>>

SayLine(t, op) ==
  /\ op[1] = "say"
  /\ Advance(t)
  /\ out' = Append(out, op[2])
  /\ UNCHANGED <<lesson, mem, locks, asleep, level, seen, order, misuse>>

Branch(t, op) ==
  /\ op[1] = "unless"
  /\ at' = [at EXCEPT ![t] = @ + 1 + IF seen[t] = op[2] THEN 0 ELSE op[3]]
  /\ UNCHANGED <<lesson, mem, locks, asleep, level, seen, order, out, misuse>>

ReadPlain(t, op) ==
  /\ \/ op[1] = "read" /\ UNCHANGED out
     \/ op[1] = "show" /\ out' = Append(out, mem[op[2]])
  /\ Advance(t)
  /\ order' = AfterAccess(order, t, op[2], "r")
  /\ UNCHANGED <<lesson, mem, locks, asleep, level, seen, misuse>>

WritePlain(t, op) ==
  /\ \/ /\ op[1] = "write"
        /\ mem' = [mem EXCEPT ![op[2]] = op[3]]
        /\ order' = AfterAccess(order, t, op[2], "w")
     \/ /\ op[1] = "add"
        /\ mem' = [mem EXCEPT ![op[2]] = @ + op[3]]
        /\ order' = AfterAccess(AfterAccess(order, t, op[2], "r"),
                                t, op[2], "w")
  /\ Advance(t)
  /\ UNCHANGED <<lesson, locks, asleep, level, seen, out, misuse>>

-----------------------------------------------------------------------------
\* Mutexes.

Recursive(m) == m = "rmtx"

CanLock(t, m) == /\ locks[m].readers = {}
                 /\ \/ locks[m].owner = NoOwner
                    \/ locks[m].owner = t /\ Recursive(m)

Owned(t, m)    == [locks[m] EXCEPT !.owner = t, !.depth = @ + 1]
Released(m)    == IF locks[m].depth = 1 THEN FreeLock
                  ELSE [locks[m] EXCEPT !.depth = @ - 1]
CanShare(m)    == locks[m].owner = NoOwner
Taken(t, m)    == /\ locks' = [locks EXCEPT ![m] = Owned(t, m)]
                  /\ order' = AfterAcquire(order, t, m, "acquire")
Shared(t, m)   == /\ locks' = [locks EXCEPT ![m].readers = @ \cup {t}]
                  /\ order' = AfterAcquire(order, t, m, "acquire")

LockMutex(t, op) ==
  /\ \/ op[1] = "lock" /\ CanLock(t, op[2]) /\ Taken(t, op[2])
     \/ op[1] = "lock shared" /\ CanShare(op[2]) /\ Shared(t, op[2])
  /\ Advance(t)
  /\ UNCHANGED <<lesson, mem, asleep, level, seen, out, misuse>>

\* All at once: the library backs off as often as it has to.
LockTogether(t, op) ==
  /\ op[1] = "lock all"
  /\ \A m \in op[2] : CanLock(t, m)
  /\ Advance(t)
  /\ locks' = [m \in DOMAIN locks |-> IF m \in op[2] THEN Owned(t, m)
                                      ELSE locks[m]]
  /\ order' = [order EXCEPT !.knows[t] =
                 @ \cup UNION {order.carried[m] : m \in op[2]}]
  /\ UNCHANGED <<lesson, mem, asleep, level, seen, out, misuse>>

\* try_lock, try_lock_for and their shared forms.
TryMutex(t, op) ==
  /\ LET m == op[2]
     IN \/ op[1] = "try" /\ CanLock(t, m) /\ Taken(t, m)
           /\ seen' = [seen EXCEPT ![t] = 1]
        \/ op[1] = "try shared" /\ CanShare(m) /\ Shared(t, m)
           /\ seen' = [seen EXCEPT ![t] = 1]
        \/ /\ \/ op[1] = "try" /\ ~CanLock(t, m)
              \/ op[1] = "try shared" /\ ~CanShare(m)
           /\ seen' = [seen EXCEPT ![t] = 0]
           /\ UNCHANGED <<locks, order>>
  /\ Advance(t)
  /\ UNCHANGED <<lesson, mem, asleep, level, out, misuse>>

\* A mutex is released whoever unlocks it; to do so without having locked it
\* is undefined.
UnlockMutex(t, op) ==
  /\ LET m == op[2]
     IN \/ /\ op[1] = "unlock"
           /\ misuse' = IF locks[m].owner = t THEN misuse ELSE misuse \cup {"unlock"}
           /\ locks' = [locks EXCEPT ![m] = Released(m)]
           /\ order' = AfterRelease(order, t, m, "release", FALSE)
        \/ /\ op[1] = "unlock shared"
           /\ locks' = [locks EXCEPT ![m].readers = @ \ {t}]
           /\ order' = AfterRelease(order, t, m, "release", FALSE)
           /\ UNCHANGED misuse
  /\ Advance(t)
  /\ UNCHANGED <<lesson, mem, asleep, level, seen, out>>

\* HierarchicalMutex: the test and the assignments of current_level.
SetLevel(t, op) ==
  /\ op[1] = "level"
  /\ misuse' = IF level[t] >= op[2] /\ op[2] >= 0
               THEN misuse \cup {"terminate"} ELSE misuse
  /\ level' = [level EXCEPT ![t] = op[2]]
  /\ Advance(t)
  /\ UNCHANGED <<lesson, mem, locks, asleep, seen, order, out>>

-----------------------------------------------------------------------------
\* Condition variables.  Op is <<kind, condition variable, mutex, variable>>.

Waiting(op) == op[1] = "wait" \/ op[1] = "wait for"

\* The predicate is tested: go on, or release the mutex and sleep.
TestOrSleep(t, op) ==
  /\ Waiting(op)
  /\ LET m == op[3]
         looked == AfterAccess(order, t, op[4], "r")
     IN IF mem[op[4]] = 1
        THEN Advance(t) /\ order' = looked /\ UNCHANGED <<locks, asleep>>
        ELSE /\ asleep' = [asleep EXCEPT ![t] = op[2]]
             /\ locks' = [locks EXCEPT ![m] = Released(m)]
             /\ order' = AfterRelease(looked, t, m, "release", FALSE)
             /\ UNCHANGED at
  /\ UNCHANGED <<lesson, mem, level, seen, out, misuse>>

Sleeps(t) == asleep[t] \notin {"no", "woken", "expired"}

SpuriousWakeup(t) ==
  /\ Sleeps(t)
  /\ asleep' = [asleep EXCEPT ![t] = "woken"]
  /\ UNCHANGED <<lesson, at, mem, locks, level, seen, order, out, misuse>>

Expire(t, op) ==
  /\ Sleeps(t) /\ op[1] = "wait for"
  /\ asleep' = [asleep EXCEPT ![t] = "expired"]
  /\ UNCHANGED <<lesson, at, mem, locks, level, seen, order, out, misuse>>

\* Awake again; after the time limit the predicate is tested a last time.
Relock(t, op) ==
  /\ asleep[t] \in {"woken", "expired"}
  /\ CanLock(t, op[3])
  /\ locks' = [locks EXCEPT ![op[3]] = Owned(t, op[3])]
  /\ asleep' = [asleep EXCEPT ![t] = "no"]
  /\ LET locked == AfterAcquire(order, t, op[3], "acquire")
     IN IF asleep[t] = "expired"
        THEN Advance(t) /\ order' = AfterAccess(locked, t, op[4], "r")
        ELSE order' = locked /\ UNCHANGED at
  /\ UNCHANGED <<lesson, mem, level, seen, out, misuse>>

Notify(t, op) ==
  /\ op[1] = "notify"
  /\ Advance(t)
  /\ asleep' = [u \in Threads |-> IF asleep[u] = op[2] THEN "woken" ELSE asleep[u]]
  /\ UNCHANGED <<lesson, mem, locks, level, seen, order, out, misuse>>

-----------------------------------------------------------------------------
\* Atomics.

\* Op is <<"atomic", kind, name, f, order>>.
AccessAtomic(t, op) ==
  /\ op[1] = "atomic"
  /\ LET kind == op[2]  a == op[3]  f == op[4]  o_rder == op[5]
         read == IF kind = "store" THEN order
                 ELSE AfterAcquire(order, t, a, o_rder)
     IN /\ mem[a] \in DOMAIN f
        /\ mem' = [mem EXCEPT ![a] = f[@]]
        /\ order' = IF kind = "load" THEN read
                    ELSE AfterRelease(read, t, a, o_rder, kind = "store")
        /\ seen' = [seen EXCEPT ![t] = mem[a]]
  /\ Advance(t)
  /\ UNCHANGED <<lesson, locks, asleep, level, out, misuse>>

LookAtomic(t, op) ==
  /\ op[1] = "look"
  /\ seen' = [seen EXCEPT ![t] = mem[op[2]]]
  /\ order' = AfterAcquire(order, t, op[2], "seq_cst")
  /\ Advance(t)
  /\ UNCHANGED <<lesson, mem, locks, asleep, level, out, misuse>>

\* What is exchanged for what the thread has seen: one more, or the list with
\* a node more.
Desired(t, op) == IF op[3] = 0 THEN seen[t] + 1 ELSE 10 * seen[t] + op[3]

\* When it fails the next exchange expects what is there; the counter of
\* CAS.cpp is loaded again first.
CompareExchange(t, op) ==
  /\ op[1] = "cas"
  /\ LET a == op[2]
         read == AfterAcquire(order, t, a, "seq_cst")
     IN IF mem[a] = seen[t]
        THEN /\ mem' = [mem EXCEPT ![a] = Desired(t, op)]
             /\ order' = AfterRelease(read, t, a, "seq_cst", FALSE)
             /\ Advance(t)
             /\ UNCHANGED seen
        ELSE /\ order' = read
             /\ seen' = [seen EXCEPT ![t] = mem[a]]
             /\ at' = IF op[3] = 0 THEN [at EXCEPT ![t] = @ - 1] ELSE at
             /\ UNCHANGED mem
  /\ UNCHANGED <<lesson, locks, asleep, level, out, misuse>>

MemoryFence(t, op) ==
  /\ op[1] = "fence"
  /\ order' = AfterFence(order, t, op[2])
  /\ Advance(t)
  /\ UNCHANGED <<lesson, mem, locks, asleep, level, seen, out, misuse>>

\* std::call_once: the call of the first one is over before another goes on.
CallOnce(t, op) ==
  /\ op[1] = "once"
  /\ LET flag == op[2]  v == op[3]
     IN IF mem[flag] = 0
        THEN /\ mem' = [mem EXCEPT ![flag] = 1, ![v] = op[4]]
             /\ order' = AfterRelease(AfterAccess(order, t, v, "w"),
                                      t, flag, "release", FALSE)
        ELSE order' = AfterAcquire(order, t, flag, "acquire") /\ UNCHANGED mem
  /\ Advance(t)
  /\ UNCHANGED <<lesson, locks, asleep, level, seen, out, misuse>>

-----------------------------------------------------------------------------

Step(t, op) ==
  \/ StartThreads(t, op) \/ JoinThreads(t, op) \/ SayLine(t, op)
  \/ Branch(t, op) \/ ReadPlain(t, op) \/ WritePlain(t, op)
  \/ LockMutex(t, op) \/ LockTogether(t, op) \/ TryMutex(t, op)
  \/ UnlockMutex(t, op) \/ SetLevel(t, op)
  \/ TestOrSleep(t, op) \/ Notify(t, op)
  \/ AccessAtomic(t, op) \/ LookAtomic(t, op) \/ CompareExchange(t, op)
  \/ MemoryFence(t, op) \/ CallOnce(t, op)

Thread(t) == \/ Ready(t) /\ LET op == Op(t) IN Step(t, op)
             \/ asleep[t] # "no" /\ (Expire(t, Op(t)) \/ Relock(t, Op(t)))

GetLock(t) == Ready(t) /\ LockMutex(t, Op(t))

Next == \E t \in Threads : Thread(t) \/ SpuriousWakeup(t)

Spec == Init /\ [][Next]_vars

-----------------------------------------------------------------------------

\* No two accesses to a plain variable race, whatever the order of the steps:
\* locks, futures, fences and atomics order them.  What consume does not carry
\* is the exception: v of 5_memoryOrder.cpp:87 is not reached through the
\* pointer.  (Compilers treat consume as acquire, which hides it.)
RaceFree == order.races \subseteq IF lesson = "consume" THEN {"v"} ELSE {}

\* A mutex is unlocked by the thread that has locked it, but for the ones of
\* Foo (1_threadCreate.cpp:53, 58), which main has locked; and the test of
\* HierarchicalMutex never finds anything, not even the wrong order.
ProperUse == misuse \subseteq IF lesson = "Foo" THEN {"unlock"} ELSE {}

\* When all threads have ended the variables hold what they are to hold, no
\* update lost, everything is unlocked, and what was printed is in an order
\* that the lesson is about: sections one after the other, phases one after
\* the other, a reader that sees data is not followed by one that does not.
RightResults ==
  AllDone => /\ \A x \in DOMAIN L.final : mem[x] = L.final[x]
             /\ \A m \in L.locks : locks[m] = FreeLock
             /\ out \in L.said

\* The lessons in which opposite orders of two locks meet.
MayHang == {"classic", "wrong_hierarchy"}
=============================================================================
