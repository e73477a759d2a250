-------------------------- MODULE ThreadExercises --------------------------
(***************************************************************************)
(* The synchronisation exercises of 5_threadsQuiz and 6_lockFree and the   *)
(* lessons of 1_multiThread side by side.  One program is chosen at the    *)
(* start and runs alone: the exercises are independent programs, the       *)
(* properties are those of their own modules.                              *)
(***************************************************************************)
EXTENDS Integers, Sequences, FiniteSets

CONSTANTS A, B,         \* two kinds of threads
          Few,          \* some of B, the threads that pop from the stack
          Ops,          \* the pushes of a thread
          Addresses, Freed, Untagged,   \* of the stack
          NoCargo,      \* an empty slot, a null pointer
          Dummy,        \* the first node of the linked queue
          Items, Stock, Rounds

\* The two kinds of threads are finite and apart, and there are some that
\* consume; a producer's value is not the empty one; everybody does something.
ASSUME ExercisesAssumption ==
  /\ IsFiniteSet(A) /\ IsFiniteSet(B) /\ A \cap B = {} /\ B # {}
  /\ NoCargo \notin A
  /\ Items \in Nat \ {0} /\ Stock \in Nat /\ Rounds \in Nat \ {0}

\* A null pointer is no node of the linked queue, whose first node carries no
\* item.
ASSUME NodesAssumption ==
  /\ NoCargo \notin (A \X (1..Items)) \cup {Dummy}
  /\ Dummy \notin A \X (1..Items)

\* The stack's memory is finite; a null pointer, a deleted node and a missing
\* tag are no address, no node and no number.
ASSUME StackAssumption ==
  /\ Few \subseteq B /\ Ops \in Nat
  /\ IsFiniteSet(Addresses) /\ NoCargo \notin Addresses
  /\ Freed \notin [data : A \X (1..Ops), next : Addresses \cup {NoCargo}]
  /\ Untagged \notin Nat

VARIABLES program,
          q, production_stopped, buffer_pc, made, got, buffer_main,
          cargo, slot_pc, printed,
          readers, writer, rw_pc,
          style, flag, light, set, print_pc, count, out,
          use, start, latch_count, opened, latch_pc, latch_main,
          head_, tail_, next, freed, pushed, prev_tail, consumer, taken, order,
          top_, heap, old_head, node, pushes, at, new_ptr, popped, total_popped,
          lesson, place, mem, locks, asleep, level, seen, known, lines, misuse

bufferVars == <<q, production_stopped, buffer_pc, made, got, buffer_main>>
slotVars   == <<cargo, slot_pc, printed>>
rwVars     == <<readers, writer, rw_pc>>
printVars  == <<style, flag, light, set, print_pc, count, out>>
latchVars  == <<use, start, latch_count, opened, latch_pc, latch_main>>
mpscVars   == <<head_, tail_, next, freed, pushed, prev_tail, consumer, taken,
                order>>
stackVars  == <<top_, heap, old_head, node, pushes, at, new_ptr, popped,
                total_popped>>
lessonVars == <<lesson, place, mem, locks, asleep, level, seen, known, lines,
                misuse>>

vars == <<program, bufferVars, slotVars, rwVars, printVars, latchVars, mpscVars,
          stackVars, lessonVars>>

Buffer == INSTANCE BoundedBuffer
            WITH Producers <- A, Consumers <- B, pc <- buffer_pc,
                 main <- buffer_main
Slot   == INSTANCE SlotBuffer
            WITH Producers <- A, Consumers <- B, Empty <- NoCargo,
                 pc <- slot_pc
RW     == INSTANCE ReadWriteLock
            WITH Readers <- A, Writers <- B, pc <- rw_pc
Order  == INSTANCE PrintOrder WITH Printers <- 3, pc <- print_pc
Latch  == INSTANCE Latches
            WITH Workers <- A, count <- latch_count, pc <- latch_pc,
                 main <- latch_main
Mpsc   == INSTANCE MpscQueue
            WITH Producers <- A, ItemsPerProducer <- Items, Null <- NoCargo,
                 count <- pushed
Stack  == INSTANCE LockFreeStack
            WITH Pushers <- A, Poppers <- Few, Null <- NoCargo,
                 head_ <- top_, pushed <- pushes, got <- popped

Lesson == INSTANCE ThreadLessons
            WITH at <- place, order <- known, out <- lines

Programs ==
  {"buffer", "slot", "rw", "order", "latch", "mpsc", "stack", "lesson"}

\* A program that does not run needs one initial state only.
Init ==
  /\ program \in Programs
  /\ Buffer!Init /\ Slot!Init /\ RW!Init /\ Order!Init /\ Latch!Init
  /\ Mpsc!Init /\ Stack!Init /\ Lesson!Init
  /\ program # "order" => style = "cv"
  /\ program # "latch" => use = "CountDownLatch"
  /\ program # "mpsc"  => consumer = "joining"
  /\ program # "stack" => top_.tag # Untagged
  /\ program # "lesson" => lesson = "mutex_basic"

RunBuffer == /\ program = "buffer"
             /\ Buffer!Next
             /\ UNCHANGED <<program, slotVars, rwVars, printVars, latchVars,
                            mpscVars, stackVars, lessonVars>>

RunSlot == /\ program = "slot"
           /\ Slot!Next
           /\ UNCHANGED <<program, bufferVars, rwVars, printVars, latchVars,
                          mpscVars, stackVars, lessonVars>>

RunRW == /\ program = "rw"
         /\ RW!Next
         /\ UNCHANGED <<program, bufferVars, slotVars, printVars, latchVars,
                        mpscVars, stackVars, lessonVars>>

RunOrder == /\ program = "order"
            /\ Order!Next
            /\ UNCHANGED <<program, bufferVars, slotVars, rwVars, latchVars,
                           mpscVars, stackVars, lessonVars>>

RunLatch == /\ program = "latch"
            /\ Latch!Next
            /\ UNCHANGED <<program, bufferVars, slotVars, rwVars, printVars,
                           mpscVars, stackVars, lessonVars>>

RunMpsc == /\ program = "mpsc"
           /\ Mpsc!Next
           /\ UNCHANGED <<program, bufferVars, slotVars, rwVars, printVars,
                          latchVars, stackVars, lessonVars>>

RunStack == /\ program = "stack"
            /\ Stack!Next
            /\ UNCHANGED <<program, bufferVars, slotVars, rwVars, printVars,
                           latchVars, mpscVars, lessonVars>>

RunLesson == /\ program = "lesson"
             /\ Lesson!Next
             /\ UNCHANGED <<program, bufferVars, slotVars, rwVars, printVars,
                            latchVars, mpscVars, stackVars>>

Next == \/ RunBuffer \/ RunSlot \/ RunRW \/ RunOrder \/ RunLatch \/ RunMpsc
        \/ RunStack \/ RunLesson

Spec == Init /\ [][Next]_vars

\* Every thread of the running program is scheduled: it takes the mutex at
\* last, its waits time out where they have a limit, its spinning loads see
\* the stores.  Spurious wakeups are never relied on.  An exchange on the
\* stack does not fail for ever while what it expects is there, and a lock
\* that is free again and again is got at last.
FairSpec ==
  /\ Spec
  /\ \A x \in A : /\ WF_bufferVars(program = "buffer" /\ Buffer!Producer(x))
                  /\ WF_slotVars(program = "slot" /\ Slot!Producer(x))
                  /\ WF_rwVars(program = "rw" /\ RW!Reader(x))
                  /\ WF_latchVars(program = "latch" /\ Latch!Worker(x))
                  /\ WF_mpscVars(program = "mpsc" /\ Mpsc!Producer(x))
                  /\ WF_stackVars(program = "stack" /\ Stack!Pusher(x))
                  /\ SF_stackVars(program = "stack" /\ Stack!Push(x))
  /\ \A x \in Few : /\ WF_stackVars(program = "stack" /\ Stack!Popper(x))
                    /\ SF_stackVars(program = "stack" /\ Stack!Pop(x))
  /\ \A x \in B : /\ WF_bufferVars(program = "buffer" /\ Buffer!Consumer(x))
                  /\ WF_slotVars(program = "slot" /\ Slot!Consumer(x))
                  /\ WF_rwVars(program = "rw" /\ RW!Writer(x))
  /\ \A x \in 0..2 : WF_printVars(program = "order" /\ Order!Printer(x))
  /\ WF_bufferVars(program = "buffer" /\ Buffer!Main)
  /\ WF_latchVars(program = "latch" /\ Latch!Main)
  /\ WF_mpscVars(program = "mpsc" /\ Mpsc!Consumer)
  /\ \A t \in 0..4 : WF_lessonVars(program = "lesson" /\ Lesson!Thread(t))
  /\ SF_lessonVars(program = "lesson" /\ \E t \in 0..4 : Lesson!GetLock(t))

-----------------------------------------------------------------------------

\* The lock of 07_readersWriters.cpp:9-40 excludes, and nobody sleeps beside
\* a free lock.
LockSafe == RW!TypeOK /\ RW!Exclusion /\ RW!SleepersHaveReason

\* What the other exercises hand over arrives, once and in its order.
\* The bounded queue of 01_producerConsumer.cpp (lines 29-85) stays within its
\* bound, keeps each producer's items in order, is empty in the end, and no
\* producer sleeps beside free room; the slot (lines 94-130) hands over every
\* value, and notify_one always leaves the thread awake that can go on.
\* The letters of 02_printOrder.cpp come in the order of the exercise.
\* The latches release the main thread after the last worker
\* (04_countDownLatch.cpp:25-37, 6_cpp20_sync.cpp:37, 56).
\* In the linked queue of lockfree_queue.cpp:147-179 the links follow the
\* exchanges, no deleted node is touched, and the consumer gets the items in
\* the order of the exchanges; in the end nothing is left.
ExercisesSafe ==
  /\ Buffer!TypeOK
  /\ Buffer!WithinStock /\ Buffer!EachOnceInOrder
  /\ Buffer!Drained /\ Buffer!ProducersAwake
  /\ Slot!TypeOK /\ Slot!NothingLost /\ Slot!SomeoneAwake
  /\ Order!TypeOK /\ Order!InOrder
  /\ Latch!TypeOK /\ Latch!EndDoor
  /\ Mpsc!TypeOK /\ Mpsc!NoUseAfterFree /\ Mpsc!Chain
  /\ Mpsc!Fifo /\ Mpsc!NothingLeft

\* The lock-free stack of aba_problem.cpp:204-237 keeps an unbroken chain of
\* living nodes, whatever addresses new hands out again; without a tag it
\* does so for one popping thread, which then reads no deleted node.
LockFreeSafe == Stack!Structure /\ Stack!OneReaderIsSafe

\* In none of the lessons (see ThreadLessons) do two threads race for a plain
\* variable, but for what consume does not carry (5_memoryOrder.cpp:87), nor
\* is a mutex misused, but by Foo (1_threadCreate.cpp:53, 58); and when their
\* threads have ended no update is lost, no lock is left behind, and what was
\* printed is in the order that the lesson is about.
LessonsSafe ==
  program = "lesson" =>
    Lesson!RaceFree /\ Lesson!ProperUse /\ Lesson!RightResults

\* The stack implements LifoStack: every value is popped once, the last one first.
StackIsLifo == Stack!IsStack

AllDone(pc) == \A x \in DOMAIN pc : pc[x] = "done"

\* The program of start_door need not end (see Latches).
Over ==
  CASE program = "buffer" -> buffer_main = "finished"
    [] program = "slot"   -> AllDone(slot_pc)
    [] program = "rw"     -> AllDone(rw_pc)
    [] program = "order"  -> AllDone(print_pc)
    [] program = "latch"  -> use = "CountDownLatch" => latch_main = "proceeding"
    [] program = "mpsc"   -> head_ = NoCargo
    [] program = "stack"  -> \A c \in Few : at[c] = "gone"
    [] program = "lesson" -> Lesson!AllDone \/ lesson \in Lesson!MayHang

\* Every program ends and no wakeup is missed for good.  The producers and
\* consumers of the bounded queue do, although a consumer that reads
\* production_stopped just before it is set is not reached by notify_all, and
\* one that is reached goes on waiting: its predicate ignores the flag.  Only
\* the time limit of wait_for gets them out (01_producerConsumer.cpp:46-48).
\* Two lessons may hang: two locks in opposite orders (7_deadlock.cpp:28-42),
\* and the wrong order of lines 174-175, which its HierarchicalMutex lets pass.
ProgramsFinish == <>Over
=============================================================================
