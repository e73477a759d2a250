------------------------------ MODULE TbbPool ------------------------------
(***************************************************************************)
(* The pools of lib/tbbThreadPool.  ParallelLib keeps a concurrent_queue,  *)
(* polls it with threads of its own, and asks an arena of TBB for one      *)
(* drain of the queue per submission ("arena").  ParallelLib2 and          *)
(* ParallelLib3, the same text twice, spawn every callable into a          *)
(* task_group and wait for the group in the destructor ("group").          *)
(*                                                                         *)
(* TBB is modelled from its use: an operation of concurrent_queue is one   *)
(* step; some thread of TBB calls an enqueued lambda once; a callable of a *)
(* group is started by any idle thread of TBB, or by the thread in wait(). *)
(***************************************************************************)
EXTENDS Naturals, Sequences, FiniteSets, SequencesExt

CONSTANTS
  Workers,      \* the std::threads that ParallelLib creates
  Helpers,      \* the threads of TBB
  Owner,        \* the thread that owns the pool
  Tasks         \* the callables handed to the pool

VARIABLES
  lib,          \* "arena" or "group"
  granted,      \* the threads of TBB that may serve this pool
  tasks,        \* tasks of ParallelLib, the callables spawned in a group
  lambdas,      \* the enqueued lambdas that no thread of TBB has called yet
  stop,         \* stop
  pc,           \* where each thread is
  cur,          \* thread -> the callables that it runs, at most one
  awaited,      \* the callable whose future the owner waits for, as a set
  status        \* Tasks -> the state of the callable's future

vars == <<lib, granted, tasks, lambdas, stop, pc, cur, awaited, status>>

Threads == Workers \cup Helpers \cup {Owner}

OwnerPlaces == {"idle", "getting", "joining", "waiting", "released",
                "destroyed"}

Places == OwnerPlaces \cup {"checking", "popping", "running", "enqueueing",
                            "exited", "dangling"}

Destroyed == pc[Owner] = "destroyed"

Goto(x, place) == pc' = [pc EXCEPT ![x] = place]

\* Where a thread may call submitTask, and where it goes on afterwards.
Home(x) == IF cur[x] = {} THEN "idle" ELSE "running"

-----------------------------------------------------------------------------

\* global_control leaves TBB one thread less than threadCount, which may be
\* none; an arena always gets a thread for what is enqueued in it.
Init ==
  /\ lib \in {"arena", "group"}
  /\ granted \in SUBSET Helpers
  /\ lib = "arena" => granted # {}
  /\ tasks = <<>>
  /\ lambdas = 0
  /\ stop = FALSE
  /\ pc = [x \in Threads |-> IF x \in Workers /\ lib = "arena"
                             THEN "checking" ELSE "idle"]
  /\ cur = [x \in Threads |-> {}]
  /\ awaited = {}
  /\ status = [t \in Tasks |-> "new"]

\* submit, up to tasks.push, or group.run; callables submit as well, as long
\* as the pool exists.
Submit(x, t) ==
  /\ x = Owner \/ cur[x] # {}
  /\ pc[x] = Home(x)
  /\ ~Destroyed
  /\ status[t] = "new"
  /\ tasks' = Append(tasks, t)
  /\ status' = [status EXCEPT ![t] = "queued"]
  /\ Goto(x, IF lib = "arena" THEN "enqueueing" ELSE Home(x))
  /\ UNCHANGED <<lib, granted, lambdas, stop, cur, awaited>>

\* arena.enqueue([this] { processTasks(); }); a call of TBB's threads that
\* outlived the pool is undefined.
Enqueue(x) ==
  /\ pc[x] = "enqueueing"
  /\ IF Destroyed
     THEN Goto(x, "dangling") /\ UNCHANGED lambdas
     ELSE Goto(x, Home(x)) /\ lambdas' = lambdas + 1
  /\ UNCHANGED <<lib, granted, tasks, stop, cur, awaited, status>>

\* workerLoop: while (!stop).
CheckStop(w) ==
  /\ pc[w] = "checking"
  /\ Goto(w, IF stop THEN "exited" ELSE "popping")
  /\ UNCHANGED <<lib, granted, tasks, lambdas, stop, cur, awaited, status>>

\* A thread of TBB calls a lambda that was enqueued.
CallLambda(h) ==
  /\ h \in granted
  /\ pc[h] = "idle"
  /\ lambdas > 0
  /\ lambdas' = lambdas - 1
  /\ Goto(h, "popping")
  /\ UNCHANGED <<lib, granted, tasks, stop, cur, awaited, status>>

\* x starts t.
Start(x, t) ==
  /\ cur' = [cur EXCEPT ![x] = {t}]
  /\ status' = [status EXCEPT ![t] = "running"]
  /\ Goto(x, "running")

\* Mutant: the front is read and then popped, without atomicity.
TryPop_Unsafe(x) ==
  /\ pc[x] = "popping"
  /\ ~Destroyed
  /\ tasks # <<>>
  /\ Start(x, Head(tasks))
  /\ tasks' \in {tasks, Tail(tasks)}
  /\ UNCHANGED <<lib, granted, lambdas, stop, awaited>>

\* processTasks: try_pop has an element.
TryPop(x) ==
  /\ pc[x] = "popping"
  /\ ~Destroyed
  /\ tasks # <<>>
  /\ Start(x, Head(tasks))
  /\ tasks' = Tail(tasks)
  /\ UNCHANGED <<lib, granted, lambdas, stop, awaited>>

\* processTasks: try_pop has none.
TryPopFails(x) ==
  /\ pc[x] = "popping"
  /\ ~Destroyed
  /\ tasks = <<>>
  /\ Goto(x, IF x \in Workers THEN "checking" ELSE "idle")
  /\ UNCHANGED <<lib, granted, tasks, lambdas, stop, cur, awaited, status>>

\* The queue is gone: the lambda's "this" dangles.
TryPopDangles(x) ==
  /\ pc[x] = "popping"
  /\ Destroyed
  /\ Goto(x, "dangling")
  /\ UNCHANGED <<lib, granted, tasks, lambdas, stop, cur, awaited, status>>

\* A thread of TBB, or the owner in group.wait(), starts some callable of
\* the group.
StartSpawned(x, t) ==
  /\ lib = "group"
  /\ \/ x \in granted /\ pc[x] = "idle"
     \/ x = Owner /\ pc[x] = "waiting"
  /\ t \in ToSet(tasks)
  /\ Start(x, t)
  /\ tasks' = RemoveFirst(tasks, t)
  /\ UNCHANGED <<lib, granted, lambdas, stop, awaited>>

\* Mutant: the callable is called, but not by its packaged_task.
Finish_NoResult(x) ==
  /\ pc[x] = "running"
  /\ cur' = [cur EXCEPT ![x] = {}]
  /\ Goto(x, IF lib = "arena" THEN "popping"
             ELSE IF x = Owner THEN "waiting" ELSE "idle")
  /\ UNCHANGED <<lib, granted, tasks, lambdas, stop, awaited, status>>

\* The callable returns: packaged_task has stored its value or exception.
Finish(x) ==
  /\ pc[x] = "running"
  /\ status' = [t \in Tasks |-> IF t \in cur[x] THEN "ready" ELSE status[t]]
  /\ cur' = [cur EXCEPT ![x] = {}]
  /\ Goto(x, IF lib = "arena" THEN "popping"
             ELSE IF x = Owner THEN "waiting" ELSE "idle")
  /\ UNCHANGED <<lib, granted, tasks, lambdas, stop, awaited>>

-----------------------------------------------------------------------------

\* The owner calls get() of a future that submitTask returned.
Get(t) ==
  /\ pc[Owner] = "idle"
  /\ status[t] # "new"
  /\ awaited' = {t}
  /\ Goto(Owner, "getting")
  /\ UNCHANGED <<lib, granted, tasks, lambdas, stop, cur, status>>

GetReturn ==
  /\ pc[Owner] = "getting"
  /\ \A t \in awaited : status[t] \in {"ready", "broken"}
  /\ awaited' = {}
  /\ Goto(Owner, "idle")
  /\ UNCHANGED <<lib, granted, tasks, lambdas, stop, cur, status>>

\* The destructor is called: it sets stop and joins, or waits for the group.
Destroy ==
  /\ pc[Owner] = "idle"
  /\ stop' = (lib = "arena")
  /\ Goto(Owner, IF lib = "arena" THEN "joining" ELSE "waiting")
  /\ UNCHANGED <<lib, granted, tasks, lambdas, cur, awaited, status>>

\* Mutant: the threads are detached.
Join_Detach ==
  /\ pc[Owner] = "joining"
  /\ Goto(Owner, "released")
  /\ UNCHANGED <<lib, granted, tasks, lambdas, stop, cur, awaited, status>>

\* ~ThreadPoolImpl of ParallelLib: the workers are joined.
Join ==
  /\ pc[Owner] = "joining"
  /\ \A w \in Workers : pc[w] = "exited"
  /\ Goto(Owner, "released")
  /\ UNCHANGED <<lib, granted, tasks, lambdas, stop, cur, awaited, status>>

\* Mutant: wait() looks at the callables not started only.
WaitReturn_Early ==
  /\ pc[Owner] = "waiting"
  /\ tasks = <<>>
  /\ Goto(Owner, "released")
  /\ UNCHANGED <<lib, granted, tasks, lambdas, stop, cur, awaited, status>>

\* group.wait() returns when every callable of the group is done.
WaitReturn ==
  /\ pc[Owner] = "waiting"
  /\ tasks = <<>>
  /\ \A x \in Threads : cur[x] = {}
  /\ Goto(Owner, "released")
  /\ UNCHANGED <<lib, granted, tasks, lambdas, stop, cur, awaited, status>>

\* The members are destroyed, and with the queue the promises in it.  The
\* arena does not wait for its lambdas.
DestroyMembers ==
  /\ pc[Owner] = "released"
  /\ status' = [t \in Tasks |-> IF status[t] = "queued" THEN "broken"
                                ELSE status[t]]
  /\ tasks' = <<>>
  /\ Goto(Owner, "destroyed")
  /\ UNCHANGED <<lib, granted, lambdas, stop, cur, awaited>>

Destructor == Join \/ WaitReturn \/ DestroyMembers

Thread(x) ==
  \/ CheckStop(x) \/ CallLambda(x) \/ TryPop(x) \/ TryPopFails(x)
  \/ TryPopDangles(x) \/ Finish(x) \/ Enqueue(x)
  \/ \E t \in Tasks : StartSpawned(x, t)

Next ==
  \/ \E x \in Threads : Thread(x) \/ \E t \in Tasks : Submit(x, t)
  \/ (\E t \in Tasks : Get(t)) \/ GetReturn
  \/ Destroy \/ Destructor

Spec == Init /\ [][Next]_vars

\* The threads are scheduled, TBB serves what it was given, and callables
\* return.  The owner need not submit, ask for a result or destroy.
FairSpec == /\ Spec
            /\ \A x \in Threads : WF_vars(Thread(x))
            /\ WF_vars(GetReturn)
            /\ WF_vars(Destructor)

-----------------------------------------------------------------------------

\* Types, and: the arena holds at most one lambda per submission
\* (tbbThreadPool.cpp:27-30).
TypeOK ==
  /\ lib \in {"arena", "group"}
  /\ granted \in SUBSET Helpers
  /\ tasks \in Seq(Tasks)
  /\ lambdas \in 0..Cardinality(Tasks)
  /\ stop \in BOOLEAN
  /\ pc \in [Threads -> Places]
  /\ cur \in [Threads -> SUBSET Tasks]
  /\ awaited \in SUBSET Tasks
  /\ status \in [Tasks -> {"new", "queued", "running", "ready", "broken"}]

\* A callable is held once: in the queue exactly while its future says so,
\* and by one thread exactly while it runs, although own workers, threads of
\* TBB and the destructor take from the same queue (tbbThreadPool.cpp:53-58).
HeldOnce ==
  /\ IsInjective(tasks)
  /\ \A t \in Tasks : (t \in ToSet(tasks)) <=> (status[t] = "queued")
  /\ \A x \in Threads : Cardinality(cur[x]) <= 1
  /\ \A t \in Tasks :
       status[t] = "running" <=> Cardinality({x \in Threads : t \in cur[x]}) = 1

\* Types, and every callable in one place.
Consistent == TypeOK /\ HeldOnce

\* ParallelLib's own threads are out of the pool before its members go, so
\* that only a lambda left in the arena can reach a destroyed pool
\* (tbbThreadPool.cpp:32-39 and line 29).
OwnThreadsOutlived ==
  /\ pc[Owner] \in {"released", "destroyed"} /\ lib = "arena" =>
       \A w \in Workers : pc[w] = "exited"
  /\ lib = "group" => \A x \in Threads : pc[x] # "dangling"

Served == lib = "arena" \/ granted # {}

RunnerUndefined(t) == \E x \in Threads : t \in cur[x] /\ pc[x] = "dangling"

\* No future is left unanswered by a pool that has a thread to run callables:
\* it becomes ready, or broken because ParallelLib is destroyed with the
\* callable still queued, unless the thread that runs the callable has used
\* a destroyed ParallelLib.
FuturesSettle ==
  \A t \in Tasks : (status[t] = "queued" /\ (Served \/ pc[Owner] = "waiting"))
                     ~> (status[t] \in {"ready", "broken"}
                           \/ RunnerUndefined(t))

\* get() returns, unless the group was given a single thread: then only the
\* destructor runs callables, and the owner that waits never gets there.
GetReturns == (pc[Owner] = "getting" /\ Served) ~> (pc[Owner] = "idle")

\* The destructor returns in both designs, with any number of threads.
DestructorReturns ==
  (pc[Owner] \in {"joining", "waiting"}) ~> (pc[Owner] = "destroyed")

\* Nobody waits for ever: neither for a future nor for the destructor.
Progress == FuturesSettle /\ GetReturns /\ DestructorReturns

AbstractPhase == CASE pc[Owner] = "destroyed" -> "closed"
                   [] pc[Owner] = "released"  -> "closing"
                   [] OTHER                   -> "open"

Promise == INSTANCE Executor WITH life <- status, phase <- AbstractPhase

\* The pools over a task_group keep the promise of Executor: every accepted
\* callable runs once and to its end before the destructor returns.
\* ParallelLib does not: it may close with callables queued or running.
GroupKeepsPromise ==
  Promise!Init /\ [][lib = "group" => Promise!Next]_(Promise!vars)

=============================================================================
