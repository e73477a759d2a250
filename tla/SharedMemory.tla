--------------------------- MODULE SharedMemory ---------------------------
(***************************************************************************)
(* The examples of 2_IPC/5_sharedMemory.cpp in which processes share a     *)
(* variable without a lock.  A step reads or writes one shared field, but  *)
(* for the items and the index that only one process uses.  The fields are *)
(* no atomics: the compiler and the processor keep the order of the code   *)
(* here, as the sleeps between the accesses make them do.                  *)
(*                                                                         *)
(*   ring     producerConsumerExample, the parent produces                 *)
(*   key      systemVWithKeyExample, run by several programs: the segment  *)
(*            has a key and is not removed                                 *)
(*   watch    anonymousMmapExample, the parent watches the child count     *)
(***************************************************************************)
EXTENDS Naturals, Sequences, FiniteSets

CONSTANTS
  Programs,     \* the programs that use the segment of the key
  Size,         \* BUFFER_SIZE
  Items,        \* the 20 items
  Steps         \* the 5 increments of the child

VARIABLES
  example,      \* the example that runs
  pc,           \* process -> where it is
  buffer, head, tail, count, producer_done,   \* CircularBuffer
  counter, ready,       \* the shared counter and its flag
  local,        \* process -> the value it has loaded
  made, got,    \* the items produced, the items consumed
  overlap       \* history: an update of count or counter was overwritten

vars == <<example, pc, buffer, head, tail, count, producer_done, counter,
          ready, local, made, got, overlap>>

ringVars    == <<buffer, head, tail, count, producer_done, made, got>>
counterVars == <<counter, ready>>

Processes == {"parent", "child"} \cup Programs

Init ==
  /\ example \in {"ring", "key", "watch"}
  /\ pc = [x \in Processes |->
             CASE x = "parent" /\ example = "ring"  -> "room?"
               [] x = "child"  /\ example = "ring"  -> "more?"
               [] x \in Programs /\ example = "key" -> "load"
               [] x = "child"  /\ example = "watch" -> "load"
               [] x = "parent" /\ example = "watch" -> "watching"
               [] OTHER -> "ended"]
  /\ buffer = [k \in 0..Size - 1 |-> 0]
  /\ head = 0 /\ tail = 0 /\ count = 0
  /\ producer_done = FALSE
  /\ counter = 0 /\ ready = FALSE
  /\ local = [x \in Processes |-> 0]
  /\ made = 0 /\ got = <<>>
  /\ overlap = FALSE

Goto(x, from, to) == pc[x] = from /\ pc' = [pc EXCEPT ![x] = to]

-----------------------------------------------------------------------------
\* producerConsumerExample: the parent.

\* while (count >= BUFFER_SIZE) usleep
Room ==
  /\ count < Size
  /\ Goto("parent", "room?", "write")
  /\ UNCHANGED <<example, ringVars, counterVars, local, overlap>>

WriteItem ==
  /\ Goto("parent", "write", "count++")
  /\ made' = made + 1
  /\ buffer' = [buffer EXCEPT ![head] = made + 1]
  /\ head' = (head + 1) % Size
  /\ UNCHANGED <<example, tail, count, producer_done, got, overlap, counterVars, local>>

\* count++ and count--, the read
LoadCount(x) ==
  /\ \/ x = "parent" /\ Goto(x, "count++", "store")
     \/ x = "child"  /\ Goto(x, "count--", "store")
  /\ local' = [local EXCEPT ![x] = count]
  /\ UNCHANGED <<example, ringVars, counterVars, overlap>>

\* count++ and count--, the write: what the other process has written in
\* between is lost
StoreCount(x) ==
  /\ example = "ring"
  /\ IF x = "parent"
       THEN /\ Goto(x, "store", IF made < Items THEN "room?" ELSE "finish")
            /\ count' = local[x] + 1
       ELSE /\ Goto(x, "store", "more?")
            /\ count' = local[x] - 1
  /\ overlap' = (overlap \/ count # local[x])
  /\ UNCHANGED <<example, buffer, head, tail, producer_done, made, got, counterVars, local>>

\* Mutant: the producer says that it is done before its last item is counted.
SetDone_Early ==
  /\ ~producer_done /\ made = Items /\ pc["parent"] \in {"count++", "finish"}
  /\ producer_done' = TRUE
  /\ pc' = [pc EXCEPT !["parent"] = IF @ = "finish" THEN "wait" ELSE @]
  /\ UNCHANGED <<example, buffer, head, tail, count, made, got, overlap, counterVars, local>>

SetDone ==
  /\ Goto("parent", "finish", "wait")
  /\ producer_done' = TRUE
  /\ UNCHANGED <<example, buffer, head, tail, count, made, got, overlap, counterVars, local>>

\* producerConsumerExample: the child.

\* while (!producer_done || count > 0), the first test
MoreToCome ==
  /\ Goto("child", "more?", IF producer_done THEN "left?" ELSE "any?")
  /\ UNCHANGED <<example, ringVars, counterVars, local, overlap>>

\* ... and the second
AnyLeft ==
  /\ Goto("child", "left?", IF count > 0 THEN "any?" ELSE "ended")
  /\ UNCHANGED <<example, ringVars, counterVars, local, overlap>>

\* if (count > 0)
AnyItem ==
  /\ Goto("child", "any?", IF count > 0 THEN "take" ELSE "more?")
  /\ UNCHANGED <<example, ringVars, counterVars, local, overlap>>

TakeItem ==
  /\ Goto("child", "take", "count--")
  /\ got' = Append(got, buffer[tail])
  /\ tail' = (tail + 1) % Size
  /\ UNCHANGED <<example, buffer, head, count, producer_done, made, overlap, counterVars, local>>

-----------------------------------------------------------------------------
\* The counters.

\* (*counter)++ and sharedData->counter++, the read
Load(x) ==
  /\ example \in {"key", "watch"}
  /\ Goto(x, "load", "store")
  /\ local' = [local EXCEPT ![x] = counter]
  /\ UNCHANGED <<example, ringVars, counterVars, overlap>>

\* ... and the write.  The child repeats it.
Store(x) ==
  /\ example \in {"key", "watch"}
  /\ Goto(x, "store", IF example = "key" THEN "ended"
                      ELSE IF local[x] + 1 < Steps THEN "load" ELSE "finish")
  /\ counter' = local[x] + 1
  /\ overlap' = (overlap \/ counter # local[x])
  /\ UNCHANGED <<example, ringVars, ready, local>>

\* Mutant: the child is ready before its last increment.
SetReady_Early ==
  /\ \/ Goto("child", "finish", "ended")
     \/ local["child"] + 1 = Steps /\ Goto("child", "store", "store")
  /\ example = "watch"
  /\ ready' = TRUE
  /\ UNCHANGED <<example, ringVars, counter, local, overlap>>

SetReady ==
  /\ example = "watch"
  /\ Goto("child", "finish", "ended")
  /\ ready' = TRUE
  /\ UNCHANGED <<example, ringVars, counter, local, overlap>>

\* The parent remembers the last value that it has seen, until it sees ready.
Watch ==
  /\ ~ready /\ counter # local["parent"]
  /\ Goto("parent", "watching", "watching")
  /\ local' = [local EXCEPT !["parent"] = counter]
  /\ UNCHANGED <<example, ringVars, counterVars, overlap>>

Watched ==
  /\ ready
  /\ Goto("parent", "watching", "wait")
  /\ UNCHANGED <<example, ringVars, counterVars, local, overlap>>

\* wait(nullptr), and the segment is removed
Reap ==
  /\ pc["child"] = "ended"
  /\ Goto("parent", "wait", "ended")
  /\ UNCHANGED <<example, ringVars, counterVars, local, overlap>>

Parent == Room \/ WriteItem \/ LoadCount("parent") \/ StoreCount("parent")
          \/ SetDone \/ Watch \/ Watched \/ Reap

Child == MoreToCome \/ AnyLeft \/ AnyItem \/ TakeItem \/ LoadCount("child")
         \/ StoreCount("child") \/ Load("child") \/ Store("child") \/ SetReady

Program(x) == Load(x) \/ Store(x)

Next == Parent \/ Child \/ \E x \in Programs : Program(x)

Spec == Init /\ [][Next]_vars

-----------------------------------------------------------------------------

TypeOK ==
  /\ DOMAIN pc = Processes
  /\ head \in 0..Size - 1 /\ tail \in 0..Size - 1
  /\ counter \in Nat /\ local \in [Processes -> Nat]
  /\ made \in 0..Items /\ overlap \in BOOLEAN

\* Whatever updates are lost, the count stays within the buffer: each process
\* tests it for itself before it changes it (5_sharedMemory.cpp:247, 276).
CountInBounds == count \in 0..Size

\* The consumer gets every item once, in order, and leaves none, and the
\* counter of the key counts every program, unless two updates of the same
\* variable have overlapped: that, and nothing else, is what the missing lock
\* breaks (5_sharedMemory.cpp:184-191, 245-292).
RightUnlessOverlap ==
  /\ ~overlap /\ example = "ring" =>
       /\ \A k \in 1..Len(got) : got[k] = k
       /\ pc["child"] = "ended" => Len(got) = Items
  /\ ~overlap /\ example = "key" =>
       counter = Cardinality({x \in Programs : pc[x] = "ended"})

Ended == \A x \in Processes : pc[x] = "ended"

\* The parent stops watching when the child has counted to the end: ready is
\* written last (5_sharedMemory.cpp:425-448).
WatchedToTheEnd ==
  example = "watch" /\ pc["parent"] \in {"wait", "ended"} => counter = Steps
=============================================================================
