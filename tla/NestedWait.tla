----------------------------- MODULE NestedWait -----------------------------
(***************************************************************************)
(* 1_benchmark/1_threadPool_test/src/case2_parallelismErosion.cpp: parent  *)
(* tasks on a pool submit child tasks and wait for their futures while     *)
(* they hold their worker.  The pool is what ThreadPool is proved to be: a *)
(* FIFO queue that loses no wakeup, so that an idle worker takes the front.*)
(***************************************************************************)
EXTENDS Naturals, Sequences, FiniteSets

CONSTANTS
  Workers,      \* the threads of a pool, hardware_concurrency() of them
  Parents,      \* the largest parent_task, the first argument of a benchmark
  Children      \* child_task: how many children each parent submits

ASSUME NestedAssumption ==
  /\ Workers # {} /\ IsFiniteSet(Workers)
  /\ Parents \in Nat /\ Children \in Nat

VARIABLES
  args,         \* the benchmark that runs and its parent_task; never changes
  submitted,    \* main's loop counter: the parents submitted so far
  main,         \* "running", "done" (the flag is set) or "completed"
  watchdog,     \* "none", "watching", "left" or "aborted"
  queue,        \* pool -> the tasks queued in it
  run,          \* pool -> worker -> the task that it runs
  born,         \* parent -> the children that it has submitted so far
  ready         \* the tasks whose future is ready

vars == <<args, submitted, main, watchdog, queue, run, born, ready>>

\* Parent p is <<p, 0>> and its children are <<p, 1>>, <<p, 2>>, ...
Tasks == (1..Parents) \X (0..Children)
Idle  == <<0, 0>>

\* Pool 0 is gPool, pool p > 0 the one that parent p may create.
Shared == 0
Pools  == 0..Parents

\* Mutant: the children of a parent with a pool of its own go to gPool.
PoolOf_Shared(p) == Shared

\* The pool to which parent p submits its children.
PoolOf(p) == IF args.program = "multi" THEN p ELSE Shared

IsParent(t) == t # Idle /\ t[2] = 0

ChildrenReady(p) == \A j \in 1..Children : <<p, j>> \in ready

-----------------------------------------------------------------------------

\* case2_one is registered for fewer parents than workers; case2_multi makes
\* a pool per parent, case2_deadlock_demo starts a watchdog thread.
Programs ==
  {a \in [program : {"one", "multi", "demo"}, parents : 1..Parents] :
     a.program = "one" => a.parents < Cardinality(Workers)}

Init ==
  /\ args \in Programs
  /\ submitted = 0
  /\ main = "running"
  /\ watchdog = IF args.program = "demo" THEN "watching" ELSE "none"
  /\ queue = [k \in Pools |-> <<>>]
  /\ run = [k \in Pools |-> [w \in Workers |-> Idle]]
  /\ born = [p \in 1..Parents |-> 0]
  /\ ready = {}

\* main submits the next parent.
SubmitParent ==
  /\ submitted < args.parents
  /\ submitted' = submitted + 1
  /\ queue' = [queue EXCEPT ![Shared] = Append(@, <<submitted + 1, 0>>)]
  /\ UNCHANGED <<main, watchdog, run, born, ready>>

\* main has the results of all parents: done.store(true).
ParentsDone ==
  /\ main = "running"
  /\ submitted = args.parents
  /\ \A p \in 1..args.parents : <<p, 0>> \in ready
  /\ main' = "done"
  /\ UNCHANGED <<submitted, watchdog, queue, run, born, ready>>

\* watchdog.join(), and the iteration of the benchmark ends.
Complete ==
  /\ main = "done"
  /\ watchdog \in {"none", "left"}
  /\ main' = "completed"
  /\ UNCHANGED <<submitted, watchdog, queue, run, born, ready>>

\* Mutant: the front is not popped.
Start_NoPop(k, w) ==
  /\ run[k][w] = Idle
  /\ queue[k] # <<>>
  /\ run' = [run EXCEPT ![k][w] = Head(queue[k])]
  /\ UNCHANGED <<submitted, main, watchdog, queue, born, ready>>

\* An idle worker of pool k pops the front of the queue.
Start(k, w) ==
  /\ run[k][w] = Idle
  /\ queue[k] # <<>>
  /\ run' = [run EXCEPT ![k][w] = Head(queue[k])]
  /\ queue' = [queue EXCEPT ![k] = Tail(@)]
  /\ UNCHANGED <<submitted, main, watchdog, born, ready>>

\* The parent on worker w submits its next child.
SubmitChild(w) ==
  LET p == run[Shared][w][1] IN
  /\ IsParent(run[Shared][w])
  /\ born[p] < Children
  /\ born' = [born EXCEPT ![p] = @ + 1]
  /\ queue' = [queue EXCEPT ![PoolOf(p)] = Append(@, <<p, born[p] + 1>>)]
  /\ UNCHANGED <<submitted, main, watchdog, run, ready>>

\* Mutant: the parent waits for one of its children only.
ParentReturns_Any(w) ==
  LET p == run[Shared][w][1] IN
  /\ IsParent(run[Shared][w])
  /\ born[p] = Children
  /\ \E j \in 1..Children : <<p, j>> \in ready
  /\ ready' = ready \cup {<<p, 0>>}
  /\ run' = [run EXCEPT ![Shared][w] = Idle]
  /\ UNCHANGED <<submitted, main, watchdog, queue, born>>

\* The parent has got every child's result; a pool of its own is destroyed,
\* which has nothing left to wait for.
ParentReturns(w) ==
  LET p == run[Shared][w][1] IN
  /\ IsParent(run[Shared][w])
  /\ born[p] = Children
  /\ ChildrenReady(p)
  /\ ready' = ready \cup {<<p, 0>>}
  /\ run' = [run EXCEPT ![Shared][w] = Idle]
  /\ UNCHANGED <<submitted, main, watchdog, queue, born>>

\* A child has counted to its end.
ChildReturns(k, w) ==
  /\ run[k][w] # Idle /\ ~IsParent(run[k][w])
  /\ ready' = ready \cup {run[k][w]}
  /\ run' = [run EXCEPT ![k][w] = Idle]
  /\ UNCHANGED <<submitted, main, watchdog, queue, born>>

\* The watchdog sees the flag and leaves.
WatchdogLeaves ==
  /\ watchdog = "watching"
  /\ main = "done"
  /\ watchdog' = "left"
  /\ UNCHANGED <<submitted, main, queue, run, born, ready>>

\* The deadline passes and the flag is not set: std::abort().
WatchdogAborts ==
  /\ watchdog = "watching"
  /\ main = "running"
  /\ watchdog' = "aborted"
  /\ UNCHANGED <<submitted, main, queue, run, born, ready>>

Main     == UNCHANGED args /\ (SubmitParent \/ ParentsDone \/ Complete)
Worker(k, w) ==
  /\ UNCHANGED args
  /\ \/ Start(k, w)
     \/ k = Shared /\ (SubmitChild(w) \/ ParentReturns(w))
     \/ ChildReturns(k, w)
Watchdog == UNCHANGED args /\ (WatchdogLeaves \/ WatchdogAborts)

Terminated == (main = "completed" \/ watchdog = "aborted") /\ UNCHANGED vars

\* abort() stops every thread.
Next ==
  \/ /\ watchdog # "aborted"
     /\ Main \/ Watchdog \/ \E k \in Pools, w \in Workers : Worker(k, w)
  \/ Terminated

Spec == Init /\ [][Next]_vars

\* Threads are scheduled and the clock of the watchdog advances.
FairSpec ==
  /\ Spec
  /\ WF_vars(watchdog # "aborted" /\ Main)
  /\ WF_vars(Watchdog)
  /\ \A k \in Pools, w \in Workers :
       WF_vars(watchdog # "aborted" /\ Worker(k, w))

-----------------------------------------------------------------------------

TypeOK ==
  /\ args \in Programs
  /\ submitted \in 0..args.parents
  /\ main \in {"running", "done", "completed"}
  /\ watchdog \in {"none", "watching", "left", "aborted"}
  /\ queue \in [Pools -> Seq(Tasks)]
  /\ run \in [Pools -> [Workers -> Tasks \cup {Idle}]]
  /\ born \in [1..Parents -> 0..Children]
  /\ ready \in SUBSET Tasks

\* A parent is on one worker at most, is queued once at most, not both at a
\* time, and in neither place before main submits it: two workers that pop
\* never get the same parent.
OnePlace ==
  \A p \in 1..Parents :
    /\ \A v, w \in Workers :
         run[Shared][v] = <<p, 0>> /\ run[Shared][w] = <<p, 0>> => v = w
    /\ \A i, j \in 1..Len(queue[Shared]) :
         queue[Shared][i] = <<p, 0>> /\ queue[Shared][j] = <<p, 0>> => i = j
    /\ \A i \in 1..Len(queue[Shared]), w \in Workers :
         queue[Shared][i] = <<p, 0>> => run[Shared][w] # <<p, 0>>
    /\ p > submitted =>
         /\ \A w \in Workers : run[Shared][w] # <<p, 0>>
         /\ \A i \in 1..Len(queue[Shared]) : queue[Shared][i] # <<p, 0>>

\* The safe zone of case2:33 (fewer parents than workers): at every moment
\* some worker of gPool is free for children, so waiting parents cannot take
\* the whole pool.
SafeZone == args.parents < Cardinality(Workers)

FreeWorker == SafeZone => \E w \in Workers : ~IsParent(run[Shared][w])

\* Every worker of gPool is held by a parent that has submitted its children
\* and waits for one that nobody has started.
Deadlocked ==
  \A w \in Workers :
    LET p == run[Shared][w][1] IN
      /\ IsParent(run[Shared][w])
      /\ born[p] = Children
      /\ \E i \in 1..Len(queue[Shared]), j \in 1..Children :
           queue[Shared][i] = <<p, j>>

\* Nothing but the watchdog gets the program out of a deadlock (case2:141).
DeadlockIsForever == [][Deadlocked => Deadlocked' /\ UNCHANGED run]_vars

\* case2_one in the safe zone and case2_multi with any number of parents
\* complete; the demo completes or the watchdog aborts it (case2:90).
Ends == <>(main = "completed" \/ watchdog = "aborted")

\* case2:88-90, "when there are as many parents as workers ... deadlock, a
\* mathematical necessity; to complete shows that the analysis is wrong".
NeverCompletes ==
  args.program = "demo" /\ args.parents >= Cardinality(Workers)
    => main # "completed"
=============================================================================
