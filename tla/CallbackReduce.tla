--------------------------- MODULE CallbackReduce ---------------------------
(***************************************************************************)
(* case3_callback_style of case3_submitTasks.cpp: the workers of gPool map *)
(* and push their results to a queue; a serial thread sleeps on a          *)
(* condition variable and reduces the results as they come.                *)
(*                                                                         *)
(* A step is one critical section of result_mutex or one call outside it.  *)
(***************************************************************************)
EXTENDS Naturals, Sequences

CONSTANTS
  Workers,      \* the threads of gPool
  N             \* tasks_nums

ASSUME CallbackAssumption == N \in Nat /\ Workers # {}

VARIABLES
  submitted,    \* main's loop counter
  main,         \* "submitting", "getting", "joining" or "finished"
  doing,        \* worker -> the item it maps, 0 for none
  at,           \* worker -> "idle", "mapping" or "notifying"
  done,         \* the items whose future is ready
  ready_results,  \* the queue of mapped items
  completed_tasks,
  serial,       \* where the serial thread is
  current,      \* the item that the serial thread reduces, 0 for none
  computed,     \* history: item -> how often its result was published
  total_sum     \* item -> how often its result was added to total_sum

vars == <<submitted, main, doing, at, done, ready_results, completed_tasks,
          serial, current, computed, total_sum>>

Items == 1..N

\* gPool hands out items in the order of their submission.
Taken == done \cup {doing[w] : w \in Workers}

Init ==
  /\ submitted = 0
  /\ main = "submitting"
  /\ doing = [w \in Workers |-> 0]
  /\ at = [w \in Workers |-> "idle"]
  /\ done = {}
  /\ ready_results = <<>>
  /\ completed_tasks = 0
  /\ serial = "locking"
  /\ current = 0
  /\ computed = [i \in Items |-> 0]
  /\ total_sum = [i \in Items |-> 0]

-----------------------------------------------------------------------------

\* main's loop hands the next item to gPool.
Submit ==
  /\ main = "submitting"
  /\ IF submitted < N
     THEN submitted' = submitted + 1 /\ UNCHANGED main
     ELSE main' = "getting" /\ UNCHANGED submitted
  /\ UNCHANGED <<doing, at, done, ready_results, completed_tasks, serial,
                 current, computed, total_sum>>

\* Mutant: the iteration ends without a join.
Join_Detach ==
  /\ main = "joining"
  /\ main' = "finished"
  /\ UNCHANGED <<submitted, doing, at, done, ready_results, completed_tasks,
                 serial, current, computed, total_sum>>

\* Mutant: the futures are not waited for.
GetAll_None ==
  /\ main = "getting"
  /\ main' = "joining"
  /\ UNCHANGED <<submitted, doing, at, done, ready_results, completed_tasks,
                 serial, current, computed, total_sum>>

\* future.get() of every item.
GetAll ==
  /\ main = "getting"
  /\ done = Items
  /\ main' = "joining"
  /\ UNCHANGED <<submitted, doing, at, done, ready_results, completed_tasks,
                 serial, current, computed, total_sum>>

\* serial_processor.join(); then the locals of the iteration are destroyed.
Join ==
  /\ main = "joining"
  /\ serial = "exited"
  /\ main' = "finished"
  /\ UNCHANGED <<submitted, doing, at, done, ready_results, completed_tasks,
                 serial, current, computed, total_sum>>

\* A worker of gPool starts the next item, heavyComputation.
Take(w) ==
  /\ at[w] = "idle"
  /\ \E i \in 1..submitted :
       /\ i \notin Taken
       /\ \A j \in 1..i - 1 : j \in Taken
       /\ doing' = [doing EXCEPT ![w] = i]
  /\ at' = [at EXCEPT ![w] = "mapping"]
  /\ UNCHANGED <<submitted, main, done, ready_results, completed_tasks,
                 serial, current, computed, total_sum>>

\* Mutant: the counter is not increased together with the push.
Publish_NoCount(w) ==
  /\ at[w] = "mapping"
  /\ computed' = [computed EXCEPT ![doing[w]] = @ + 1]
  /\ ready_results' = Append(ready_results, doing[w])
  /\ at' = [at EXCEPT ![w] = "notifying"]
  /\ UNCHANGED <<submitted, main, doing, done, completed_tasks, serial,
                 current, total_sum>>

\* heavyComputation has ended: push and count in one critical section.
Publish(w) ==
  /\ at[w] = "mapping"
  /\ computed' = [computed EXCEPT ![doing[w]] = @ + 1]
  /\ ready_results' = Append(ready_results, doing[w])
  /\ completed_tasks' = completed_tasks + 1
  /\ at' = [at EXCEPT ![w] = "notifying"]
  /\ UNCHANGED <<submitted, main, doing, done, serial, current, total_sum>>

\* Mutant: notify only if the result is the only one in the queue.
Notify_First(w) ==
  /\ at[w] = "notifying"
  /\ serial' = IF serial = "parked" /\ Len(ready_results) = 1 THEN "locking"
               ELSE serial
  /\ done' = done \cup {doing[w]}
  /\ doing' = [doing EXCEPT ![w] = 0]
  /\ at' = [at EXCEPT ![w] = "idle"]
  /\ UNCHANGED <<submitted, main, ready_results, completed_tasks, current,
                 computed, total_sum>>

\* result_cv.notify_one(), and the callable returns: its future is ready.
Notify(w) ==
  /\ at[w] = "notifying"
  /\ serial' = IF serial = "parked" THEN "locking" ELSE serial
  /\ done' = done \cup {doing[w]}
  /\ doing' = [doing EXCEPT ![w] = 0]
  /\ at' = [at EXCEPT ![w] = "idle"]
  /\ UNCHANGED <<submitted, main, ready_results, completed_tasks, current,
                 computed, total_sum>>

\* Mutant: front() without pop(): the result stays in the queue.
Pop_Kept ==
  /\ serial \in {"locking", "relocking"}
  /\ ready_results # <<>>
  /\ current' = Head(ready_results)
  /\ serial' = "reducing"
  /\ UNCHANGED <<submitted, main, doing, at, done, ready_results,
                 completed_tasks, computed, total_sum>>

\* The serial thread holds the mutex, at the wait or after lock.lock(), and
\* there is a result.
Pop ==
  /\ serial \in {"locking", "relocking"}
  /\ ready_results # <<>>
  /\ current' = Head(ready_results)
  /\ ready_results' = Tail(ready_results)
  /\ serial' = "reducing"
  /\ UNCHANGED <<submitted, main, doing, at, done, completed_tasks,
                 computed, total_sum>>

\* serialComputationK outside of the mutex, total_sum.fetch_add.
Reduce ==
  /\ serial = "reducing"
  /\ total_sum' = [total_sum EXCEPT ![current] = @ + 1]
  /\ current' = 0
  /\ serial' = "relocking"
  /\ UNCHANGED <<submitted, main, doing, at, done, ready_results,
                 completed_tasks, computed>>

\* Mutant: the serial thread leaves without a look at the queue.
Break_NotDrained ==
  /\ serial \in {"locking", "relocking"}
  /\ completed_tasks = N
  /\ serial' = "exited"
  /\ UNCHANGED <<submitted, main, doing, at, done, ready_results,
                 completed_tasks, current, computed, total_sum>>

\* Every item was pushed and the queue is empty.
Break ==
  /\ serial \in {"locking", "relocking"}
  /\ completed_tasks = N
  /\ ready_results = <<>>
  /\ serial' = "exited"
  /\ UNCHANGED <<submitted, main, doing, at, done, ready_results,
                 completed_tasks, current, computed, total_sum>>

\* Nothing to reduce: from the inner loop the thread goes round, unlocking
\* and locking again, and at result_cv.wait it parks.
Idle ==
  /\ ready_results = <<>>
  /\ completed_tasks # N
  /\ \/ serial = "relocking" /\ serial' = "locking"
     \/ serial = "locking" /\ serial' = "parked"
  /\ UNCHANGED <<submitted, main, doing, at, done, ready_results,
                 completed_tasks, current, computed, total_sum>>

SpuriousWakeup ==
  /\ serial = "parked"
  /\ serial' = "locking"
  /\ UNCHANGED <<submitted, main, doing, at, done, ready_results,
                 completed_tasks, current, computed, total_sum>>

Main      == Submit \/ GetAll \/ Join
Worker(w) == Take(w) \/ Publish(w) \/ Notify(w)
Serial    == Pop \/ Reduce \/ Break \/ Idle

Terminated == main = "finished" /\ UNCHANGED vars

Next == \/ Main
        \/ \E w \in Workers : Worker(w)
        \/ Serial \/ SpuriousWakeup
        \/ Terminated

Spec == Init /\ [][Next]_vars

\* The threads are scheduled and the computations end.
FairSpec == /\ Spec
            /\ WF_vars(Main)
            /\ \A w \in Workers : WF_vars(Worker(w))
            /\ WF_vars(Serial)

-----------------------------------------------------------------------------

TypeOK ==
  /\ submitted \in 0..N
  /\ main \in {"submitting", "getting", "joining", "finished"}
  /\ doing \in [Workers -> 0..N]
  /\ at \in [Workers -> {"idle", "mapping", "notifying"}]
  /\ done \in SUBSET Items
  /\ ready_results \in Seq(Items)
  /\ completed_tasks \in Nat
  /\ serial \in {"locking", "relocking", "reducing", "parked", "exited"}
  /\ current \in 0..N /\ ((current # 0) <=> (serial = "reducing"))
  /\ computed \in [Items -> Nat]
  /\ total_sum \in [Items -> Nat]

\* The lost wakeup that the report describes (case3:146-148): while the
\* serial thread sleeps, either there is nothing for it to do or some worker
\* has still to notify it.
NoLostWakeup ==
  serial = "parked" /\ (ready_results # <<>> \/ completed_tasks = N)
    => \E w \in Workers : at[w] = "notifying"

\* A worker is at work on an item whose future is not ready, and no other
\* worker has it; main goes on to join only when every future is ready.
Handout ==
  /\ \A w \in Workers : (at[w] = "idle") <=> (doing[w] = 0)
  /\ \A w \in Workers : doing[w] \notin done
  /\ \A v, w \in Workers : doing[v] = doing[w] /\ doing[v] # 0 => v = w
  /\ main \in {"joining", "finished"} => done = Items
  /\ main = "finished" => serial = "exited"

\* The locals of the iteration (queue, mutex, condition variable) are
\* captured by reference: nobody uses them once main has left their scope.
NobodyOutlives ==
  main = "finished" => serial = "exited" /\ \A w \in Workers : at[w] = "idle"

\* Every item is computed once, its result is added to total_sum once, after
\* it was computed (case3:115-139), and the iteration ends when each was added:
\* the queue, the item that the serial thread holds and its drain lose no
\* result and repeat none.
Sum == INSTANCE MapReduce WITH finished <- (main = "finished")

ComputesSum == Sum!Spec

\* The iteration ends.
Finishes == <>(main = "finished")
=============================================================================
