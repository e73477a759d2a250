------------------------------ MODULE NestedSteal ------------------------------
(***************************************************************************)
(* The demonstrations of case3_nestedTask (2_tbb_test) in which each task  *)
(* of a parallel_for holds a mutex over a parallel_for of its own: as it   *)
(* stands, and inside this_task_arena::isolate.                            *)
(*                                                                         *)
(* TBB is modelled from its use: a thread that waits in a parallel_for     *)
(* runs any task that it finds, unless it waits inside isolate: then only  *)
(* the tasks of that inner loop.  A thread whose std::mutex is locked      *)
(* blocks, also when it has locked it itself.                              *)
(***************************************************************************)
EXTENDS Naturals, Sequences, FiniteSets

CONSTANTS
  Threads,      \* the threads of TBB, the caller's among them
  Outer,        \* outer: the tasks of the outer loop are 1..Outer
  Inner         \* the inner loops have Inner chunks of 256 elements

VARIABLES
  isolated,     \* whether the inner loop runs inside isolate
  outer,        \* the tasks of the outer loop that are not started
  chunks,       \* task -> the chunks of its inner loop that are not started
  stack,        \* thread -> its calls, the innermost one last
  mtx,          \* the tasks that hold mtx
  over          \* "no", "done" or "aborted"

vars == <<isolated, outer, chunks, stack, mtx, over>>

OuterTasks == 1..Outer

Top(t) == stack[t][Len(stack[t])]

Push(t, call) == stack' = [stack EXCEPT ![t] = Append(@, call)]

Become(t, at) == stack' = [stack EXCEPT ![t][Len(stack[t])].at = at]

Pop(t) == stack' = [stack EXCEPT ![t] = SubSeq(@, 1, Len(@) - 1)]

\* The threads that run a chunk of the inner loop of i.
Running(i) == {t \in Threads : \E d \in DOMAIN stack[t] :
                                 stack[t][d] = [task |-> i, at |-> "chunk"]}

Unfinished(i) == chunks[i] > 0 \/ Running(i) # {}

InOuterLoop(t) == stack[t] = <<>>

InInnerLoop(t, i) == stack[t] # <<>> /\ Top(t) = [task |-> i, at |-> "waiting"]

\* t waits in a loop, the outer or an inner one, where any task will do.
TakesAnyTask(t) ==
  \/ InOuterLoop(t)
  \/ ~isolated /\ \E j \in OuterTasks : InInnerLoop(t, j) /\ Unfinished(j)

MayStartTask(t, i) == i \in outer /\ TakesAnyTask(t)

MayStartChunk(t, i) == chunks[i] > 0 /\ (TakesAnyTask(t) \/ InInnerLoop(t, i))

Init ==
  /\ isolated \in BOOLEAN
  /\ outer = OuterTasks
  /\ chunks = [i \in OuterTasks |-> 0]
  /\ stack = [t \in Threads |-> <<>>]
  /\ mtx = {}
  /\ over = "no"

\* Mutant: isolate is left out.
StartTask_NotIsolated(t, i) ==
  /\ over = "no"
  /\ i \in outer
  /\ InOuterLoop(t) \/ \E j \in OuterTasks : InInnerLoop(t, j) /\ Unfinished(j)
  /\ outer' = outer \ {i}
  /\ Push(t, [task |-> i, at |-> "locking"])
  /\ UNCHANGED <<isolated, chunks, mtx, over>>

\* A task of the outer loop is started, perhaps by a thread that waits in the
\* inner loop of another one.
StartTask(t, i) ==
  /\ over = "no"
  /\ MayStartTask(t, i)
  /\ outer' = outer \ {i}
  /\ Push(t, [task |-> i, at |-> "locking"])
  /\ UNCHANGED <<isolated, chunks, mtx, over>>

\* lock_guard, and the inner loop is spawned.
Lock(t) ==
  /\ over = "no"
  /\ stack[t] # <<>>
  /\ Top(t).at = "locking"
  /\ mtx = {}
  /\ mtx' = {Top(t).task}
  /\ chunks' = [chunks EXCEPT ![Top(t).task] = Inner]
  /\ Become(t, "waiting")
  /\ UNCHANGED <<isolated, outer, over>>

\* A chunk of the inner loop of i is started: by the thread that waits for it,
\* or by another one.
StartChunk(t, i) ==
  /\ over = "no"
  /\ MayStartChunk(t, i)
  /\ chunks' = [chunks EXCEPT ![i] = @ - 1]
  /\ Push(t, [task |-> i, at |-> "chunk"])
  /\ UNCHANGED <<isolated, outer, mtx, over>>

\* A chunk is done.
FinishChunk(t) ==
  /\ over = "no"
  /\ stack[t] # <<>>
  /\ Top(t).at = "chunk"
  /\ Pop(t)
  /\ UNCHANGED <<isolated, outer, chunks, mtx, over>>

\* The inner loop has ended: unlock, and the task is done.
Unlock(t) ==
  /\ over = "no"
  /\ \E i \in OuterTasks : InInnerLoop(t, i) /\ ~Unfinished(i)
  /\ mtx' = {}
  /\ Pop(t)
  /\ UNCHANGED <<isolated, outer, chunks, over>>

\* The outer loop has ended.
Finish ==
  /\ over = "no"
  /\ outer = {}
  /\ \A t \in Threads : stack[t] = <<>>
  /\ over' = "done"
  /\ UNCHANGED <<isolated, outer, chunks, stack, mtx>>

Blocked(t) == stack[t] # <<>> /\ Top(t).at = "locking" /\ mtx # {}

\* t waits in a loop that has not ended, and finds no task.
FindsNothing(t) ==
  /\ InOuterLoop(t) \/ \E i \in OuterTasks : InInnerLoop(t, i) /\ Unfinished(i)
  /\ \A i \in OuterTasks : ~MayStartTask(t, i) /\ ~MayStartChunk(t, i)

\* The timeout is long: the watchdog sees the end of the demonstration, or
\* that every thread is blocked or waits in vain.
WatchdogAborts ==
  /\ over = "no"
  /\ ~isolated
  /\ \E t \in Threads : Blocked(t)
  /\ \A t \in Threads : Blocked(t) \/ FindsNothing(t)
  /\ over' = "aborted"
  /\ UNCHANGED <<isolated, outer, chunks, stack, mtx>>

Thread(t) == \/ \E i \in OuterTasks : StartTask(t, i) \/ StartChunk(t, i)
             \/ Lock(t) \/ FinishChunk(t) \/ Unlock(t)

Next == (\E t \in Threads : Thread(t)) \/ Finish \/ WatchdogAborts

Spec == Init /\ [][Next]_vars

-----------------------------------------------------------------------------

\* A thread locks the mutex that one of its own outer calls holds.
LocksAgain(t) ==
  /\ stack[t] # <<>>
  /\ Top(t).at = "locking"
  /\ \E d \in 1..Len(stack[t]) - 1 : stack[t][d].task \in mtx

\* The deadlock of case3_nestedTask.cpp:313-324 has one cause: the thread that
\* holds the mutex waits for its inner loop, starts another task of the outer
\* loop and locks the mutex again.  Nobody is inside a chunk then: who has
\* taken one finishes it before it starts anything else, so those that stole
\* from the holder hold up nobody, which is not what lines 281-282 say.
\* Inside isolate (lines 342-355) no thread locks twice.
DeadlocksOnItself ==
  /\ over = "aborted" => /\ \E t \in Threads : LocksAgain(t)
                         /\ \A i \in OuterTasks : Running(i) = {}
  /\ isolated => \A t \in Threads : ~LocksAgain(t)

Over == over # "no"
=============================================================================
