---------------------------- MODULE Semaphores ----------------------------
(***************************************************************************)
(* The examples of 2_IPC/4_semaphore.cpp: processes that share memory and  *)
(* semaphores.  What each process does is a script of semaphore operations *)
(* and of accesses to the shared memory; a step is one of them.  Sleeping  *)
(* is an arbitrary delay, the system calls succeed.                        *)
(***************************************************************************)
EXTENDS Integers, Sequences, FiniteSets

CONSTANTS
  Children,     \* the 3 readers, the 3 children that count
  Items,        \* the 10 items of producerConsumerExample
  Slots,        \* BUFFER_SIZE
  Writes,       \* the 3 rounds of the writer
  Repeats       \* the 4 rounds of a reader, the 3 of a child that counts

VARIABLES
  example,      \* the example that runs
  script,       \* process -> the steps it has still to make
  sem,          \* semaphore -> its value
  items, in, out, count,    \* the buffer in shared memory
  made,         \* i of the producer
  got,          \* the items that the consumer has taken
  reader_count, \* reader_count
  counter,      \* shared_counter
  old_value,    \* child -> the value of the counter that it has read
  removed       \* the semaphores are removed

vars == <<example, script, sem, items, in, out, count, made, got, reader_count,
          counter, old_value, removed>>

Processes == {"parent", "child", "producer", "consumer", "writer"} \cup Children

\* The semaphores of producerConsumerExample and readerWriterExample.
Mutex == 0        Empty == 1        Full == 2
ReaderMutex == 0  WriterMutex == 1

P(s)    == <<"P", s>>
V(s)    == <<"V", s>>
Do(x)   == <<"do", x>>
Wait(n) == <<"wait", n>>                \* the n-th wait(nullptr)

Loop(n, body) ==
  [k \in 1..n * Len(body) |-> body[((k - 1) % Len(body)) + 1]]

\* The parent collects its children, then removes the semaphores.
Collect(n) == [k \in 1..n |-> Wait(k)] \o <<Do("remove")>>

\* systemVBasicExample, posixNamedSemaphoreExample
Basic(x) ==
  CASE x = "parent" -> <<P(Mutex), Do("use"), V(Mutex)>> \o Collect(1)
    [] x = "child"  -> <<P(Mutex), Do("use"), V(Mutex)>>
    [] OTHER        -> <<>>

\* Mutant: the consumer takes the mutex before it waits for an item.
ProducerConsumer_MutexFirst(x) ==
  CASE x = "parent"   -> Collect(2)
    [] x = "producer" -> Loop(Items, <<P(Empty), P(Mutex), Do("put"), V(Mutex), V(Full)>>)
    [] x = "consumer" -> Loop(Items, <<P(Mutex), P(Full), Do("get"), V(Mutex), V(Empty)>>)
    [] OTHER          -> <<>>

\* producerConsumerExample
ProducerConsumer(x) ==
  CASE x = "parent"   -> Collect(2)
    [] x = "producer" -> Loop(Items, <<P(Empty), P(Mutex), Do("put"), V(Mutex), V(Full)>>)
    [] x = "consumer" -> Loop(Items, <<P(Full), P(Mutex), Do("get"), V(Mutex), V(Empty)>>)
    [] OTHER          -> <<>>

\* Mutant: a reader leaves without the mutex.
ReaderWriter_Unlocked(x) ==
  CASE x = "parent" -> Collect(Cardinality(Children) + 1)
    [] x = "writer" -> Loop(Writes, <<P(WriterMutex), Do("write"), V(WriterMutex)>>)
    [] x \in Children ->
         Loop(Repeats, <<P(ReaderMutex), Do("arrive"), Do("lock_if_first"), V(ReaderMutex),
                         Do("read"), Do("depart"), Do("unlock_if_last")>>)
    [] OTHER        -> <<>>

\* readerWriterExample
ReaderWriter(x) ==
  CASE x = "parent" -> Collect(Cardinality(Children) + 1)
    [] x = "writer" -> Loop(Writes, <<P(WriterMutex), Do("write"), V(WriterMutex)>>)
    [] x \in Children ->
         Loop(Repeats, <<P(ReaderMutex), Do("arrive"), Do("lock_if_first"), V(ReaderMutex),
                         Do("read"),
                         P(ReaderMutex), Do("depart"), Do("unlock_if_last"), V(ReaderMutex)>>)
    [] OTHER        -> <<>>

\* posixAnonymousSemaphoreExample
Counter(x) ==
  CASE x = "parent"   -> Collect(Cardinality(Children))
    [] x \in Children -> Loop(Repeats, <<P(Mutex), Do("load"), Do("store"), V(Mutex)>>)
    [] OTHER          -> <<>>

Script(x) ==
  [p \in Processes |-> CASE x = "basic"             -> Basic(p)
                         [] x = "producer_consumer" -> ProducerConsumer(p)
                         [] x = "reader_writer"     -> ReaderWriter(p)
                         [] x = "counter"           -> Counter(p)]

\* The processes that the parent forks.
Forked(x) == CASE x = "basic"             -> {"child"}
               [] x = "producer_consumer" -> {"producer", "consumer"}
               [] x = "reader_writer"     -> {"writer"} \cup Children
               [] x = "counter"           -> Children

\* The values that the semaphores are set to.
Values(x) ==
  [s \in {0, 1, 2} |->
     CASE s = 0 -> 1
       [] s = 1 -> IF x = "producer_consumer" THEN Slots
                   ELSE IF x = "reader_writer" THEN 1 ELSE 0
       [] s = 2 -> 0]

Init ==
  /\ example \in {"basic", "producer_consumer", "reader_writer", "counter"}
  /\ script = Script(example)
  /\ sem = Values(example)
  /\ items = [k \in 0..Slots - 1 |-> 0]
  /\ in = 0 /\ out = 0 /\ count = 0 /\ made = 0
  /\ got = <<>>
  /\ reader_count = 0
  /\ counter = 0
  /\ old_value = [c \in Children |-> 0]
  /\ removed = FALSE

-----------------------------------------------------------------------------

\* x's next step is the given one; Advance goes behind it.
At(x, step) == script[x] # <<>> /\ Head(script[x]) = step
Advance(x)  == script' = [script EXCEPT ![x] = Tail(@)]
Ended(x)    == script[x] = <<>>

ringVars   == <<items, in, out, count, made, got>>
readerVars == <<reader_count>>
countVars  == <<counter, old_value>>

\* semop(-1), sem_wait
Down(x, s) ==
  /\ At(x, P(s))
  /\ sem[s] > 0
  /\ sem' = [sem EXCEPT ![s] = @ - 1]
  /\ Advance(x)
  /\ UNCHANGED <<example, ringVars, readerVars, countVars, removed>>

\* semop(+1), sem_post
Up(x, s) ==
  /\ At(x, V(s))
  /\ sem' = [sem EXCEPT ![s] = @ + 1]
  /\ Advance(x)
  /\ UNCHANGED <<example, ringVars, readerVars, countVars, removed>>

\* What a process does to its own or to no variable of the model.
Use(x) ==
  /\ At(x, Do("use")) \/ At(x, Do("read")) \/ At(x, Do("write"))
  /\ Advance(x)
  /\ UNCHANGED <<example, sem, ringVars, readerVars, countVars, removed>>

\* items[in] = i
Put(x) ==
  /\ At(x, Do("put"))
  /\ items' = [items EXCEPT ![in] = made + 1]
  /\ made' = made + 1
  /\ in' = (in + 1) % Slots
  /\ count' = count + 1
  /\ Advance(x)
  /\ UNCHANGED <<example, sem, out, got, readerVars, countVars, removed>>

\* item = items[out]
Get(x) ==
  /\ At(x, Do("get"))
  /\ got' = Append(got, items[out])
  /\ out' = (out + 1) % Slots
  /\ count' = count - 1
  /\ Advance(x)
  /\ UNCHANGED <<example, sem, items, in, made, readerVars, countVars, removed>>

\* reader_count++
Arrive(x) ==
  /\ At(x, Do("arrive"))
  /\ reader_count' = reader_count + 1
  /\ Advance(x)
  /\ UNCHANGED <<example, sem, ringVars, countVars, removed>>

\* The first reader waits for the writer.
LockIfFirst(x) ==
  /\ At(x, Do("lock_if_first"))
  /\ IF reader_count = 1
       THEN sem[WriterMutex] > 0 /\ sem' = [sem EXCEPT ![WriterMutex] = @ - 1]
       ELSE UNCHANGED sem
  /\ Advance(x)
  /\ UNCHANGED <<example, ringVars, readerVars, countVars, removed>>

\* reader_count--
Depart(x) ==
  /\ At(x, Do("depart"))
  /\ reader_count' = reader_count - 1
  /\ Advance(x)
  /\ UNCHANGED <<example, sem, ringVars, countVars, removed>>

\* The last reader lets the writer go on.
UnlockIfLast(x) ==
  /\ At(x, Do("unlock_if_last"))
  /\ sem' = IF reader_count = 0 THEN [sem EXCEPT ![WriterMutex] = @ + 1] ELSE sem
  /\ Advance(x)
  /\ UNCHANGED <<example, ringVars, readerVars, countVars, removed>>

\* old_value = *shared_counter
Load(x) ==
  /\ At(x, Do("load"))
  /\ old_value' = [old_value EXCEPT ![x] = counter]
  /\ Advance(x)
  /\ UNCHANGED <<example, sem, ringVars, readerVars, counter, removed>>

\* *shared_counter = old_value + 1
Store(x) ==
  /\ At(x, Do("store"))
  /\ counter' = old_value[x] + 1
  /\ Advance(x)
  /\ UNCHANGED <<example, sem, ringVars, readerVars, old_value, removed>>

\* wait(nullptr), for the n-th time: n children have ended.
Reap(n) ==
  /\ At("parent", Wait(n))
  /\ Cardinality({x \in Forked(example) : Ended(x)}) >= n
  /\ Advance("parent")
  /\ UNCHANGED <<example, sem, ringVars, readerVars, countVars, removed>>

\* sem.remove(), sem_unlink, sem_destroy
Remove ==
  /\ At("parent", Do("remove"))
  /\ removed' = TRUE
  /\ Advance("parent")
  /\ UNCHANGED <<example, sem, ringVars, readerVars, countVars>>

Process(x) ==
  \/ \E s \in {0, 1, 2} : Down(x, s) \/ Up(x, s)
  \/ Use(x)
  \/ Put(x) \/ Get(x)
  \/ Arrive(x) \/ LockIfFirst(x) \/ Depart(x) \/ UnlockIfLast(x)
  \/ x \in Children /\ (Load(x) \/ Store(x))
  \/ x = "parent" /\ (Remove \/ \E n \in 1..Cardinality(Children) + 1 : Reap(n))

Next == \E x \in Processes : Process(x)

Spec == Init /\ [][Next]_vars

-----------------------------------------------------------------------------

\* A process is inside when its next step is an access that the given
\* semaphore protects.
Inside(steps) == {x \in Processes : \E d \in steps : At(x, Do(d))}

Guarded == CASE example = "basic"             -> {"use"}
             [] example = "producer_consumer" -> {"put", "get"}
             [] example = "reader_writer"     -> {"arrive", "lock_if_first", "depart", "unlock_if_last"}
             [] example = "counter"           -> {"load", "store"}

TypeOK ==
  /\ DOMAIN script = Processes
  /\ sem \in [{0, 1, 2} -> 0..Slots + 1]
  /\ in \in 0..Slots - 1 /\ out \in 0..Slots - 1 /\ count \in Nat
  /\ reader_count \in 0..Cardinality(Children)
  /\ removed \in BOOLEAN

\* At most one process is in a critical section, and a mutex is 1 exactly
\* when nobody holds it: no post is lost or made twice.
Exclusive ==
  /\ Cardinality(Inside(Guarded)) <= 1
  /\ sem[Mutex] <= 1
  /\ Inside(Guarded) # {} => sem[Mutex] = 0

\* The buffer is never overrun, and the consumer gets the items in order
\* (4_semaphore.cpp:242-295).
RingRight ==
  /\ count \in 0..Slots
  /\ \A k \in 1..Len(got) : got[k] = k
  /\ (in - out) % Slots = count % Slots

\* The writer is alone, the readers may be together: nobody reads while the
\* writer writes, and reader_count counts the readers although it is the
\* first and the last of them that lock for all (4_semaphore.cpp:346-408).
WriterAlone ==
  example = "reader_writer" =>
    /\ Inside({"write"}) # {} => Inside({"read"}) = {}
    /\ sem[WriterMutex] <= 1

\* Nobody's increment is lost (4_semaphore.cpp:535-555).
CounterRight ==
  example = "counter" /\ Ended("parent") => counter = Cardinality(Children) * Repeats

\* The semaphores are removed when nobody needs them any more.
RemovedLast == removed => \A x \in Processes : Ended(x)
=============================================================================
