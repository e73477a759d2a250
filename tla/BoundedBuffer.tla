--------------------------- MODULE BoundedBuffer ---------------------------
(***************************************************************************)
(* namespace producer_consumer of 5_threadsQuiz/01_producerConsumer.cpp: a *)
(* bounded queue, a mutex and two condition variables.  The mutex is held  *)
(* from the lock to the end of the loop body, the sleep included, so that  *)
(* a pass through the body is one step unless it waits.  The condition of  *)
(* the consumer's loop is read without the mutex, in two steps.            *)
(***************************************************************************)
EXTENDS Naturals, Sequences, FiniteSets

CONSTANTS
  Producers,
  Consumers,
  Items,        \* how many items each producer makes
  Stock         \* the capacity of the queue

VARIABLES
  q,            \* the queue of items, each <<producer, i>>
  production_stopped,
  pc,           \* where each thread is
  made,         \* Producers -> i, the counter of the producer's loop
  got,          \* Producers -> what the consumers printed of its items
  main          \* "producing", "stopping", "draining" or "finished"

vars == <<q, production_stopped, pc, made, got, main>>

Threads == Producers \cup Consumers

\* notify_all: the waiting threads of S head for the mutex.
Notified(S) ==
  [x \in Threads |-> IF x \in S /\ pc[x] = "parked" THEN "locking" ELSE pc[x]]

Goto(x, place) == pc' = [pc EXCEPT ![x] = place]

Init ==
  /\ q = <<>>
  /\ production_stopped = FALSE
  /\ pc = [x \in Threads |-> IF x \in Producers THEN "locking" ELSE "checking"]
  /\ made = [p \in Producers |-> 0]
  /\ got = [p \in Producers |-> <<>>]
  /\ main = "producing"

\* The body of the producer's loop, with room in the queue.
Produce(p) ==
  /\ pc[p] = "locking"
  /\ Len(q) < Stock
  /\ q' = Append(q, <<p, made[p]>>)
  /\ made' = [made EXCEPT ![p] = @ + 1]
  /\ pc' = [Notified(Consumers) EXCEPT
              ![p] = IF made[p] + 1 < Items THEN "locking" ELSE "exited"]
  /\ UNCHANGED <<production_stopped, got, main>>

\* go_produce.wait: the queue is full.
AwaitRoom(p) ==
  /\ pc[p] = "locking"
  /\ Len(q) >= Stock
  /\ Goto(p, "parked")
  /\ UNCHANGED <<q, production_stopped, made, got, main>>

\* while (!production_stopped || ...
CheckStopped(c) ==
  /\ pc[c] = "checking"
  /\ Goto(c, IF production_stopped THEN "stopped" ELSE "locking")
  /\ UNCHANGED <<q, production_stopped, made, got, main>>

\* ... || !q.empty())
CheckEmpty(c) ==
  /\ pc[c] = "stopped"
  /\ Goto(c, IF q = <<>> THEN "exited" ELSE "locking")
  /\ UNCHANGED <<q, production_stopped, made, got, main>>

\* Mutant: the newest item is taken.
Consume_Newest(c) ==
  /\ pc[c] \in {"locking", "expired"}
  /\ q # <<>>
  /\ LET item == q[Len(q)]
     IN  got' = [got EXCEPT ![item[1]] = Append(@, item[2])]
  /\ q' = SubSeq(q, 1, Len(q) - 1)
  /\ pc' = [Notified(Producers) EXCEPT ![c] = "checking"]
  /\ UNCHANGED <<production_stopped, made, main>>

\* wait_for finds its predicate true, at once, when notified, or when the
\* time is over: the front is printed and popped.
Consume(c) ==
  /\ pc[c] \in {"locking", "expired"}
  /\ q # <<>>
  /\ LET item == Head(q)
     IN  got' = [got EXCEPT ![item[1]] = Append(@, item[2])]
  /\ q' = Tail(q)
  /\ pc' = [Notified(Producers) EXCEPT ![c] = "checking"]
  /\ UNCHANGED <<production_stopped, made, main>>

\* wait_for: the predicate is false; production_stopped is not looked at.
AwaitItem(c) ==
  /\ pc[c] = "locking"
  /\ q = <<>>
  /\ Goto(c, "parked")
  /\ UNCHANGED <<q, production_stopped, made, got, main>>

\* Mutant: wait instead of wait_for.
Expire_Never(c) == FALSE

\* One second has passed for a consumer in wait_for.
Expire(c) ==
  /\ pc[c] = "parked"
  /\ Goto(c, "expired")
  /\ UNCHANGED <<q, production_stopped, made, got, main>>

\* wait_for returns false.
GiveUp(c) ==
  /\ pc[c] = "expired"
  /\ q = <<>>
  /\ Goto(c, "checking")
  /\ UNCHANGED <<q, production_stopped, made, got, main>>

\* task: the producers are joined and production_stopped is set.
StopProduction ==
  /\ main = "producing"
  /\ \A p \in Producers : pc[p] = "exited"
  /\ production_stopped' = TRUE
  /\ main' = "stopping"
  /\ UNCHANGED <<q, pc, made, got>>

\* task: go_consume.notify_all() after the unlock.
NotifyConsumers ==
  /\ main = "stopping"
  /\ pc' = Notified(Consumers)
  /\ main' = "draining"
  /\ UNCHANGED <<q, production_stopped, made, got>>

\* task: the consumers are joined.
JoinConsumers ==
  /\ main = "draining"
  /\ \A c \in Consumers : pc[c] = "exited"
  /\ main' = "finished"
  /\ UNCHANGED <<q, production_stopped, pc, made, got>>

Producer(p) == Produce(p) \/ AwaitRoom(p)

Consumer(c) ==
  \/ CheckStopped(c) \/ CheckEmpty(c) \/ Consume(c) \/ AwaitItem(c)
  \/ Expire(c) \/ GiveUp(c)

Main == StopProduction \/ NotifyConsumers \/ JoinConsumers

Next == (\E p \in Producers : Producer(p)) \/ (\E c \in Consumers : Consumer(c))
        \/ Main

Spec == Init /\ [][Next]_vars

-----------------------------------------------------------------------------

TypeOK ==
  /\ q \in Seq(Producers \X (0..Items - 1))
  /\ production_stopped \in BOOLEAN
  /\ pc \in [Threads -> {"locking", "parked", "checking", "stopped", "expired",
                        "exited"}]
  /\ made \in [Producers -> 0..Items]
  /\ got \in [Producers -> Seq(0..Items - 1)]
  /\ main \in {"producing", "stopping", "draining", "finished"}

\* The queue never holds more than stock items, although every producer is
\* woken for each item that is taken (01_producerConsumer.cpp:31-38).
WithinStock == Len(q) <= Stock

\* Each producer's items are printed and queued in the order in which it made
\* them, each once, whoever consumes them: those not yet printed are in the
\* queue, with the older ones in front (01_producerConsumer.cpp:29-60).
EachOnceInOrder ==
  /\ \A p \in Producers :
       /\ got[p] = [k \in 1..Len(got[p]) |-> k - 1]
       /\ \A j \in Len(got[p])..made[p] - 1 :
            \E k \in 1..Len(q) : q[k] = <<p, j>>
  /\ \A k \in 1..Len(q) :
       q[k][2] \in Len(got[q[k][1]])..made[q[k][1]] - 1
  /\ \A k, l \in 1..Len(q) :
       k < l /\ q[k][1] = q[l][1] => q[k][2] < q[l][2]

\* A producer that waits for room, or that is done, is never the reason for
\* items to stay: when all threads are joined the queue is empty and every
\* item was printed (01_producerConsumer.cpp:46, 82-84).
Drained ==
  main = "finished" => \A p \in Producers : Len(got[p]) = Items

\* No producer sleeps while there is room (notify_all after each pop).
ProducersAwake == Len(q) < Stock => \A p \in Producers : pc[p] # "parked"
=============================================================================
