----------------------------- MODULE ThreadPool -----------------------------
(***************************************************************************)
(* StdThreadPool::ThreadPool of lib/threadPool/include/threadPool.h: a     *)
(* queue of callables, a mutex, a condition variable and a stop flag.      *)
(* SimpleThreadPool of 5_threadsQuiz/08_threadPool.cpp is the same program *)
(* under other names.                                                      *)
(*                                                                         *)
(* A step is one critical section of queue_mutex, or one call made outside *)
(* of it.  No critical section blocks inside, and condition.wait releases  *)
(* the mutex and parks the thread in one step, so the mutex needs no       *)
(* variable of its own; what happens between unlock and notify does.       *)
(***************************************************************************)
EXTENDS Naturals, Sequences, FiniteSets

CONSTANTS
  Workers,      \* the threads that the constructor creates
  Tasks,        \* the callables handed to the pool
  Owner,        \* the thread that owns the pool: it submits and destroys
  NoTask        \* an empty std::function

ASSUME PoolAssumption ==
  /\ Workers # {} /\ IsFiniteSet(Workers)
  /\ Owner \notin Workers
  /\ NoTask \notin Tasks

VARIABLES
  tasks,        \* tasks: the queue of accepted callables
  stop,         \* stop
  pc,           \* where each thread is
  cur,          \* Workers -> the callable in the worker's local "task"
  batch,        \* the callables that a submit call has still to enqueue
  status        \* Tasks -> the state of the callable's packaged_task

vars == <<tasks, stop, pc, cur, batch, status>>

\* Code that may call submitTask: the owner, and the callables that the
\* workers run (they capture the pool, as 1_threadPool_test does).
Callers == Workers \cup {Owner}

\* The places of a worker where its local "task" holds a callable.
InTask == {"running", "submitting", "notifying"}

WorkerPlaces == InTask \cup {"locking", "parked", "exited"}
OwnerPlaces  == {"idle", "submitting", "notifying", "stopping", "joining",
                 "destroyed"}

Statuses == {"new", "handed", "queued", "running", "ready", "refused"}

\* Where the caller goes on when the submit call returns or throws.
Home(c) == IF c = Owner THEN "idle" ELSE "running"

Goto(c, place) == pc' = [pc EXCEPT ![c] = place]

Parked == {w \in Workers : pc[w] = "parked"}

Wake(S) == [c \in Callers |-> IF c \in S THEN "locking" ELSE pc[c]]

-----------------------------------------------------------------------------

\* Constructor: the workers are created and head for the mutex.
Init ==
  /\ tasks = <<>>
  /\ stop = FALSE
  /\ pc = [c \in Callers |-> IF c = Owner THEN "idle" ELSE "locking"]
  /\ cur = [w \in Workers |-> NoTask]
  /\ batch = [c \in Callers |-> {}]
  /\ status = [t \in Tasks |-> "new"]

\* submitTask (one callable) and submitTasks (a range of them; the order of
\* the range is left open) are called.
Submit(c, S) ==
  /\ pc[c] = Home(c)
  /\ S # {}
  /\ \A t \in S : status[t] = "new"
  /\ status' = [t \in Tasks |-> IF t \in S THEN "handed" ELSE status[t]]
  /\ batch' = [batch EXCEPT ![c] = S]
  /\ Goto(c, "submitting")
  /\ UNCHANGED <<tasks, stop, cur>>

\* The critical section of a submit call, the pool being alive.
Enqueue(c, t) ==
  /\ pc[c] = "submitting"
  /\ t \in batch[c]
  /\ ~stop
  /\ tasks' = Append(tasks, t)
  /\ status' = [status EXCEPT ![t] = "queued"]
  /\ batch' = [batch EXCEPT ![c] = @ \ {t}]
  /\ Goto(c, "notifying")
  /\ UNCHANGED <<stop, cur>>

\* The same critical section on a stopped pool: runtime_error leaves the
\* call, and the rest of the range is not looked at.
Refuse(c, t) ==
  /\ pc[c] = "submitting"
  /\ t \in batch[c]
  /\ stop
  /\ status' = [u \in Tasks |-> IF u = t THEN "refused"
                                ELSE IF u \in batch[c] THEN "new"
                                ELSE status[u]]
  /\ batch' = [batch EXCEPT ![c] = {}]
  /\ Goto(c, Home(c))
  /\ UNCHANGED <<tasks, stop, cur>>

\* Mutant: notify only the first callable of a queue that was empty.
NotifyOne_First(c) ==
  /\ pc[c] = "notifying"
  /\ \E S \in SUBSET Parked :
       /\ Cardinality(S) = (IF Parked = {} \/ Len(tasks) # 1 THEN 0 ELSE 1)
       /\ pc' = [Wake(S) EXCEPT ![c] = IF batch[c] = {} THEN Home(c)
                                       ELSE "submitting"]
  /\ UNCHANGED <<tasks, stop, cur, batch, status>>

\* condition.notify_one(), after the mutex is released: one parked worker,
\* any one, or nobody.
NotifyOne(c) ==
  /\ pc[c] = "notifying"
  /\ \E S \in SUBSET Parked :
       /\ Cardinality(S) = (IF Parked = {} THEN 0 ELSE 1)
       /\ pc' = [Wake(S) EXCEPT ![c] = IF batch[c] = {} THEN Home(c)
                                       ELSE "submitting"]
  /\ UNCHANGED <<tasks, stop, cur, batch, status>>

-----------------------------------------------------------------------------

\* Mutant: the front is copied and not popped.
Take_NoPop(w) ==
  /\ pc[w] = "locking"
  /\ tasks # <<>>
  /\ cur' = [cur EXCEPT ![w] = Head(tasks)]
  /\ status' = [status EXCEPT ![Head(tasks)] = "running"]
  /\ Goto(w, "running")
  /\ UNCHANGED <<tasks, stop, batch>>

\* The worker holds the mutex and its predicate is true: it pops the front.
Take(w) ==
  /\ pc[w] = "locking"
  /\ tasks # <<>>
  /\ cur' = [cur EXCEPT ![w] = Head(tasks)]
  /\ tasks' = Tail(tasks)
  /\ status' = [status EXCEPT ![Head(tasks)] = "running"]
  /\ Goto(w, "running")
  /\ UNCHANGED <<stop, batch>>

\* condition.wait with a false predicate.
Park(w) ==
  /\ pc[w] = "locking"
  /\ tasks = <<>>
  /\ ~stop
  /\ Goto(w, "parked")
  /\ UNCHANGED <<tasks, stop, cur, batch, status>>

\* Mutant: if (stop) return;
Exit_NoDrain(w) ==
  /\ pc[w] = "locking"
  /\ stop
  /\ Goto(w, "exited")
  /\ UNCHANGED <<tasks, stop, cur, batch, status>>

\* if (stop && tasks.empty()) return;
Exit(w) ==
  /\ pc[w] = "locking"
  /\ tasks = <<>>
  /\ stop
  /\ Goto(w, "exited")
  /\ UNCHANGED <<tasks, stop, cur, batch, status>>

\* std::condition_variable may wake up a waiter without a notification.
SpuriousWakeup(w) ==
  /\ pc[w] = "parked"
  /\ Goto(w, "locking")
  /\ UNCHANGED <<tasks, stop, cur, batch, status>>

\* Mutant: "task" is declared outside of the loop and keeps the callable.
Finish_KeepsTask(w) ==
  /\ pc[w] = "running"
  /\ status' = [status EXCEPT ![cur[w]] = "ready"]
  /\ Goto(w, "locking")
  /\ UNCHANGED <<tasks, stop, cur, batch>>

\* task() returns; the packaged_task has stored a value or an exception.
Finish(w) ==
  /\ pc[w] = "running"
  /\ status' = [status EXCEPT ![cur[w]] = "ready"]
  /\ cur' = [cur EXCEPT ![w] = NoTask]
  /\ Goto(w, "locking")
  /\ UNCHANGED <<tasks, stop, batch>>

-----------------------------------------------------------------------------

\* Destructor, its critical section.  The owner is not inside a submit call.
SetStop ==
  /\ pc[Owner] = "idle"
  /\ stop' = TRUE
  /\ Goto(Owner, "stopping")
  /\ UNCHANGED <<tasks, cur, batch, status>>

\* Mutant: the destructor calls notify_one.
NotifyAll_One ==
  /\ pc[Owner] = "stopping"
  /\ \E S \in SUBSET Parked :
       /\ Cardinality(S) = (IF Parked = {} THEN 0 ELSE 1)
       /\ pc' = [Wake(S) EXCEPT ![Owner] = "joining"]
  /\ UNCHANGED <<tasks, stop, cur, batch, status>>

\* Destructor: condition.notify_all().
NotifyAll ==
  /\ pc[Owner] = "stopping"
  /\ pc' = [Wake(Parked) EXCEPT ![Owner] = "joining"]
  /\ UNCHANGED <<tasks, stop, cur, batch, status>>

\* Mutant: one worker is joined, the others are left.
Join_One ==
  /\ pc[Owner] = "joining"
  /\ \E w \in Workers : pc[w] = "exited"
  /\ Goto(Owner, "destroyed")
  /\ UNCHANGED <<tasks, stop, cur, batch, status>>

\* Destructor: every worker is joined, then the members are destroyed.
Join ==
  /\ pc[Owner] = "joining"
  /\ \A w \in Workers : pc[w] = "exited"
  /\ Goto(Owner, "destroyed")
  /\ UNCHANGED <<tasks, stop, cur, batch, status>>

Call(c) ==
  \/ \E t \in batch[c] : Enqueue(c, t) \/ Refuse(c, t)
  \/ NotifyOne(c)

WorkerStep(w) == Take(w) \/ Park(w) \/ Exit(w) \/ Finish(w)

Destructor == NotifyAll \/ Join

\* The pool is gone and so are its threads.
Terminated == pc[Owner] = "destroyed" /\ UNCHANGED vars

Next ==
  \/ \E c \in Callers : (\E S \in SUBSET Tasks : Submit(c, S)) \/ Call(c)
  \/ \E w \in Workers : WorkerStep(w) \/ SpuriousWakeup(w)
  \/ SetStop
  \/ Destructor
  \/ Terminated

Spec == Init /\ [][Next]_vars

\* The threads are scheduled, callables return and a lock is granted at last
\* to a thread that asks for it.  Nobody is obliged to submit or to destroy.
Fairness ==
  /\ \A c \in Callers : WF_vars(Call(c))
  /\ \A w \in Workers : WF_vars(WorkerStep(w))
  /\ WF_vars(Destructor)

FairSpec == Spec /\ Fairness

-----------------------------------------------------------------------------

\* Types, and: a worker's local "task" is empty exactly while the worker is
\* between two tasks (threadPool.h:24-42).
TypeOK ==
  /\ tasks \in Seq(Tasks)
  /\ stop \in BOOLEAN
  /\ pc \in [Callers -> WorkerPlaces \cup OwnerPlaces]
  /\ pc[Owner] \in OwnerPlaces
  /\ \A w \in Workers : pc[w] \in WorkerPlaces
  /\ cur \in [Workers -> Tasks \cup {NoTask}]
  /\ \A w \in Workers : (cur[w] = NoTask) <=> (pc[w] \notin InTask)
  /\ batch \in [Callers -> SUBSET Tasks]
  /\ status \in [Tasks -> Statuses]

Locking == {w \in Workers : pc[w] = "locking"}

Notifying == {c \in Callers : pc[c] = "notifying"}

\* Every callable is in one place and in one only: in the batch of one submit
\* call, once in the queue, or in the hands of one worker; none is lost and
\* none is held twice, also when workers submit while others pop.
Bookkeeping ==
  /\ \A c \in Callers : \A t \in batch[c] : status[t] = "handed"
  /\ \A c, d \in Callers : c # d => batch[c] \cap batch[d] = {}
  /\ \A i \in 1..Len(tasks) : status[tasks[i]] = "queued"
  /\ \A i, j \in 1..Len(tasks) : tasks[i] = tasks[j] => i = j
  /\ \A t \in Tasks :
       status[t] = "queued" => \E i \in 1..Len(tasks) : tasks[i] = t
  /\ \A w \in Workers : cur[w] # NoTask => status[cur[w]] = "running"
  /\ \A v, w \in Workers : cur[v] = cur[w] /\ cur[v] # NoTask => v = w
  /\ \A t \in Tasks : status[t] = "running" => \E w \in Workers : cur[w] = t

\* A worker leaves only a stopped pool whose queue is empty, and what is
\* empty then stays so; when the destructor returns every worker has left.
Shutdown ==
  /\ stop <=> pc[Owner] \in {"stopping", "joining", "destroyed"}
  /\ \A w \in Workers : pc[w] = "exited" => stop /\ tasks = <<>>
  /\ pc[Owner] = "destroyed" => \A w \in Workers : pc[w] = "exited"

\* No wakeup is lost: as long as some worker sleeps in condition.wait, every
\* queued callable has a worker on its way to the mutex or a notify_one that
\* is still to be called.  notify_one comes after the unlock, and a worker
\* that has just finished may take the callable that another was woken for;
\* neither may leave a callable behind with a sleeping worker.
NoStrandedTask ==
  Parked = {} \/ Len(tasks) <= Cardinality(Locking) + Cardinality(Notifying)

\* Every accepted callable is run to its end and its future becomes ready,
\* also when the pool is stopped meanwhile (the destructor drains the queue).
AcceptedFinishes ==
  \A t \in Tasks : (status[t] = "queued") ~> (status[t] = "ready")

\* The destructor returns: no worker sleeps through notify_all.
DestructorReturns == (pc[Owner] = "stopping") ~> (pc[Owner] = "destroyed")

\* Both: accepted work is done, and the pool can be torn down, whatever the
\* workers, the callables and the owner do at the same time.
Progress == AcceptedFinishes /\ DestructorReturns

\* The pool keeps the promise of module Executor: nothing is run twice,
\* nothing accepted is left when the destructor returns, and submit is
\* refused only once destruction has begun.
AbstractLife ==
  [t \in Tasks |-> IF status[t] = "handed" THEN "new" ELSE status[t]]

AbstractPhase ==
  IF pc[Owner] = "destroyed" THEN "closed"
  ELSE IF stop THEN "closing" ELSE "open"

Promise == INSTANCE Executor WITH life <- AbstractLife, phase <- AbstractPhase

KeepsPromise == Promise!Spec

=============================================================================
