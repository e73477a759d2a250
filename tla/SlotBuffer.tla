----------------------------- MODULE SlotBuffer -----------------------------
(***************************************************************************)
(* namespace producer_consumer2 of 5_threadsQuiz/01_producerConsumer.cpp:  *)
(* a slot for one value, as many consumers as producers, and each of them  *)
(* does one operation.  notify_one is called with the mutex held, so a     *)
(* step is a critical section up to the wait or to the end.                *)
(***************************************************************************)
EXTENDS Naturals, FiniteSets

CONSTANTS Producers,    \* a producer is named by its id
          Consumers,
          Empty         \* cargo = 0

VARIABLES cargo,        \* the value in the slot
          pc,           \* thread -> "locking", "parked" or "done"
          printed       \* Consumers -> the value printed, Empty for none

vars == <<cargo, pc, printed>>

Threads == Producers \cup Consumers

Init ==
  /\ cargo = Empty
  /\ pc = [x \in Threads |-> "locking"]
  /\ printed = [c \in Consumers |-> Empty]

ParkedOf(S) == {x \in S : pc[x] = "parked"}

\* x is done, and one of the threads of S that wait is woken, if there is one.
DoneWaking(x, S) ==
  \/ /\ ParkedOf(S) = {}
     /\ pc' = [pc EXCEPT ![x] = "done"]
  \/ \E y \in ParkedOf(S) :
       pc' = [pc EXCEPT ![x] = "done", ![y] = "locking"]

Park(x) ==
  /\ pc' = [pc EXCEPT ![x] = "parked"]
  /\ UNCHANGED <<cargo, printed>>

\* producer, the slot being empty.
Produce(p) ==
  /\ pc[p] = "locking"
  /\ cargo = Empty
  /\ cargo' = p
  /\ DoneWaking(p, Consumers)
  /\ UNCHANGED printed

AwaitEmpty(p) == pc[p] = "locking" /\ cargo # Empty /\ Park(p)

\* Mutant: produce.notify_one() is forgotten.
Consume_Silent(c) ==
  /\ pc[c] = "locking"
  /\ cargo # Empty
  /\ printed' = [printed EXCEPT ![c] = cargo]
  /\ cargo' = Empty
  /\ pc' = [pc EXCEPT ![c] = "done"]

\* consumer, the slot being full.
Consume(c) ==
  /\ pc[c] = "locking"
  /\ cargo # Empty
  /\ printed' = [printed EXCEPT ![c] = cargo]
  /\ cargo' = Empty
  /\ DoneWaking(c, Producers)

AwaitFull(c) == pc[c] = "locking" /\ cargo = Empty /\ Park(c)

\* wait may return without a notification.
SpuriousWakeup(x) ==
  /\ pc[x] = "parked"
  /\ pc' = [pc EXCEPT ![x] = "locking"]
  /\ UNCHANGED <<cargo, printed>>

Producer(p) == Produce(p) \/ AwaitEmpty(p)

Consumer(c) == Consume(c) \/ AwaitFull(c)

Next ==
  \/ \E p \in Producers : Producer(p)
  \/ \E c \in Consumers : Consumer(c)
  \/ \E x \in Threads : SpuriousWakeup(x)

Spec == Init /\ [][Next]_vars

-----------------------------------------------------------------------------

TypeOK ==
  /\ cargo \in Producers \cup {Empty}
  /\ pc \in [Threads -> {"locking", "parked", "done"}]
  /\ printed \in [Consumers -> Producers \cup {Empty}]

\* What the producers that are done have made is in the slot or was printed,
\* once: no value is overwritten and none is printed twice.
NothingLost ==
  /\ \A p \in Producers :
       pc[p] = "done" <=> (cargo = p \/ \E c \in Consumers : printed[c] = p)
  /\ \A c, d \in Consumers : printed[c] = printed[d] /\ c # d => printed[c] = Empty
  /\ \A c \in Consumers : printed[c] = cargo => cargo = Empty
  /\ \A c \in Consumers : pc[c] = "done" <=> printed[c] # Empty

\* notify_one is enough: a full slot always has a consumer, and an empty one
\* a producer, that is not asleep, as long as there is one left.  A thread
\* that was not woken may overtake the one that was.
SomeoneAwake ==
  /\ cargo # Empty /\ (\E c \in Consumers : pc[c] # "done")
       => \E c \in Consumers : pc[c] = "locking"
  /\ cargo = Empty /\ (\E p \in Producers : pc[p] # "done")
       => \E p \in Producers : pc[p] = "locking"
=============================================================================
