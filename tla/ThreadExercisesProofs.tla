------------------------ MODULE ThreadExercisesProofs ------------------------
(***************************************************************************)
(* The exercises for every number of threads, and the lock-free stacks for *)
(* every number of threads, values and addresses.                          *)
(***************************************************************************)
EXTENDS ThreadExercises, FiniteSetTheorems, SequenceTheorems,
        WellFoundedInduction, TLAPS

-----------------------------------------------------------------------------
\* The lock for readers and writers.

\* RW is an instance, which has its own copy of the operator; the library's
\* theorems are about the other one.
LEMMA LockCardinality == \A S : RW!Cardinality(S) = Cardinality(S)
BY DEF RW!Cardinality, Cardinality

\* The lock is made free, with nobody inside (07_readersWriters.cpp:9-40).
LEMMA LockInit == Init => LockSafe
<1> SUFFICES ASSUME RW!Init PROVE LockSafe
    BY DEF Init
<1>1. RW!Inside(A) = {} /\ RW!Inside(B) = {}
      BY DEF RW!Init, RW!Inside, RW!Threads
<1>2. RW!Cardinality({}) = 0
      BY FS_EmptySet, LockCardinality
<1> QED BY <1>1, <1>2 DEF RW!Init, RW!Threads, LockSafe, RW!TypeOK, RW!Exclusion,
                          RW!SleepersHaveReason

\* A reader enters (lockRead): the count follows who is inside.
LEMMA ReaderEnters ==
  ASSUME LockSafe, NEW r \in A, rw_pc[r] # "inside",
         \A x \in A : rw_pc'[x] = "inside" <=> x = r \/ rw_pc[x] = "inside"
  PROVE  RW!Cardinality(RW!Inside(A)') = readers + 1
<1>1. IsFiniteSet(RW!Inside(A))
      BY FS_Subset, ExercisesAssumption DEF RW!Inside
<1>2. r \notin RW!Inside(A) /\ RW!Inside(A)' = RW!Inside(A) \cup {r}
      BY DEF RW!Inside
<1>3. readers = Cardinality(RW!Inside(A))
      BY LockCardinality DEF LockSafe, RW!Exclusion
<1>4. Cardinality(RW!Inside(A)') = readers + 1
      BY <1>1, <1>2, <1>3, FS_AddElement
<1> QED BY <1>4, LockCardinality

\* A reader leaves (unlockRead): it had been counted, and no writer was inside.
LEMMA ReaderLeaves ==
  ASSUME LockSafe, NEW r \in A, rw_pc[r] = "inside",
         \A x \in A : rw_pc'[x] = "inside" <=> x # r /\ rw_pc[x] = "inside"
  PROVE  /\ RW!Cardinality(RW!Inside(A)') = readers - 1
         /\ readers >= 1 /\ ~writer
<1>1. IsFiniteSet(RW!Inside(A))
      BY FS_Subset, ExercisesAssumption DEF RW!Inside
<1>2. r \in RW!Inside(A) /\ RW!Inside(A)' = RW!Inside(A) \ {r}
      BY DEF RW!Inside
<1>3. readers = Cardinality(RW!Inside(A)) /\ readers \in Nat
      BY LockCardinality DEF LockSafe, RW!Exclusion, RW!TypeOK
<1>4. Cardinality(RW!Inside(A)') = readers - 1
      BY <1>1, <1>2, <1>3, FS_RemoveElement
<1>5. readers # 0
      BY <1>1, <1>2, <1>3, FS_EmptySet
<1>6. ~writer
      BY <1>5 DEF LockSafe, RW!Exclusion
<1> QED BY <1>3, <1>4, <1>5, <1>6, LockCardinality

\* LockSafe is inductive: each critical section of the lock keeps the count,
\* the flag and the sleepers in step; the other programs leave them alone.
LEMMA LockStep == LockSafe /\ [Next]_vars => LockSafe'
<1> SUFFICES ASSUME LockSafe, [Next]_vars PROVE LockSafe'
    OBVIOUS
<1> USE ExercisesAssumption DEF RW!Threads
<1>t. RW!TypeOK
      BY DEF LockSafe
<1>1. CASE UNCHANGED rwVars
  <2>1. RW!Inside(A)' = RW!Inside(A) /\ RW!Inside(B)' = RW!Inside(B)
        BY <1>1 DEF rwVars, RW!Inside
  <2> QED BY <1>1, <2>1 DEF rwVars, LockSafe, RW!TypeOK, RW!Exclusion,
                            RW!SleepersHaveReason
<1>2. ASSUME NEW r \in A, RW!LockRead(r) PROVE LockSafe'
  <2>1. \A x \in A : rw_pc'[x] = "inside" <=> x = r \/ rw_pc[x] = "inside"
        BY <1>t, <1>2 DEF RW!LockRead, RW!Goto, RW!TypeOK
  <2>2. RW!Cardinality(RW!Inside(A)') = readers + 1
        BY <1>2, <2>1, ReaderEnters DEF RW!LockRead
  <2>3. RW!Inside(B)' = RW!Inside(B)
        BY <1>t, <1>2 DEF RW!LockRead, RW!Goto, RW!TypeOK, RW!Inside
  <2>4. RW!TypeOK'
        BY <1>t, <1>2 DEF RW!LockRead, RW!Goto, RW!TypeOK
  <2>5. RW!Exclusion'
        BY <1>2, <2>2, <2>3 DEF LockSafe, RW!LockRead, RW!Exclusion
  <2>6. RW!SleepersHaveReason'
        BY <1>t, <1>2 DEF LockSafe, RW!LockRead, RW!Goto, RW!TypeOK,
                          RW!SleepersHaveReason
  <2> QED BY <2>4, <2>5, <2>6 DEF LockSafe
<1>3. ASSUME NEW r \in A, RW!UnlockRead(r) PROVE LockSafe'
  <2>1. rw_pc' \in [A \cup B -> {"locking", "parked", "inside", "done"}]
        BY <1>t, <1>3 DEF RW!UnlockRead, RW!Goto, RW!DoneNotifying, RW!TypeOK
  <2>2. \A x \in A \cup B : rw_pc'[x] = "inside" <=> x # r /\ rw_pc[x] = "inside"
        BY <1>t, <1>3 DEF RW!UnlockRead, RW!Goto, RW!DoneNotifying, RW!TypeOK
  <2>3. /\ RW!Cardinality(RW!Inside(A)') = readers - 1
        /\ readers >= 1 /\ ~writer
        BY <1>3, <2>2, ReaderLeaves DEF RW!UnlockRead
  <2>4. RW!Inside(B)' = RW!Inside(B)
        BY <2>2 DEF RW!Inside
  <2>5. RW!TypeOK'
        BY <1>t, <1>3, <2>1, <2>3 DEF RW!UnlockRead, RW!TypeOK
  <2>6. RW!Exclusion'
        BY <1>3, <2>3, <2>4 DEF LockSafe, RW!UnlockRead, RW!Exclusion
  <2>7. RW!SleepersHaveReason'
    <3>1. CASE readers = 1
          BY <1>t, <1>3, <3>1 DEF RW!UnlockRead, RW!DoneNotifying, RW!TypeOK,
                                  RW!SleepersHaveReason
    <3>2. CASE readers # 1
          BY <1>t, <1>3, <2>3, <3>2
          DEF LockSafe, RW!UnlockRead, RW!Goto, RW!TypeOK, RW!SleepersHaveReason
    <3> QED BY <3>1, <3>2
  <2> QED BY <2>5, <2>6, <2>7 DEF LockSafe
<1>4. ASSUME NEW w \in B, RW!LockWrite(w) PROVE LockSafe'
  <2>1. RW!Inside(A)' = RW!Inside(A)
        BY <1>t, <1>4 DEF RW!LockWrite, RW!Goto, RW!TypeOK, RW!Inside
  <2>2. RW!Inside(B) = {}
        BY <1>4 DEF LockSafe, RW!LockWrite, RW!Exclusion
  <2>3. RW!Inside(B)' = {w}
        BY <1>t, <1>4, <2>2 DEF RW!LockWrite, RW!Goto, RW!TypeOK, RW!Inside
  <2>4. RW!TypeOK'
        BY <1>t, <1>4 DEF RW!LockWrite, RW!Goto, RW!TypeOK
  <2>5. RW!Exclusion'
        BY <1>4, <2>1, <2>3 DEF LockSafe, RW!LockWrite, RW!Exclusion
  <2>6. RW!SleepersHaveReason'
        BY <1>4 DEF RW!LockWrite, RW!SleepersHaveReason
  <2> QED BY <2>4, <2>5, <2>6 DEF LockSafe
<1>5. ASSUME NEW w \in B, RW!UnlockWrite(w) PROVE LockSafe'
  <2>1. RW!Inside(A)' = RW!Inside(A)
        BY <1>t, <1>5 DEF RW!UnlockWrite, RW!DoneNotifying, RW!TypeOK, RW!Inside
  <2>2. RW!Inside(B) = {w} /\ readers = 0
        BY <1>5 DEF LockSafe, RW!UnlockWrite, RW!Exclusion, RW!Inside
  <2>3. RW!Inside(B)' = {}
        BY <1>t, <1>5, <2>2 DEF RW!UnlockWrite, RW!DoneNotifying, RW!TypeOK, RW!Inside
  <2>4. RW!TypeOK'
        BY <1>t, <1>5 DEF RW!UnlockWrite, RW!DoneNotifying, RW!TypeOK
  <2>5. RW!Exclusion'
        BY <1>5, <2>1, <2>3 DEF LockSafe, RW!UnlockWrite, RW!Exclusion
  <2>6. RW!SleepersHaveReason'
        BY <1>t, <1>5 DEF RW!UnlockWrite, RW!DoneNotifying, RW!TypeOK,
                          RW!SleepersHaveReason
  <2> QED BY <2>4, <2>5, <2>6 DEF LockSafe
<1>6. ASSUME NEW x \in A \cup B, RW!Park(x) \/ RW!SpuriousWakeup(x) PROVE LockSafe'
  <2>1. RW!Inside(A)' = RW!Inside(A) /\ RW!Inside(B)' = RW!Inside(B)
        BY <1>t, <1>6 DEF RW!Park, RW!SpuriousWakeup, RW!Goto, RW!TypeOK, RW!Inside
  <2>2. RW!TypeOK'
        BY <1>t, <1>6 DEF RW!Park, RW!SpuriousWakeup, RW!Goto, RW!TypeOK
  <2>3. RW!Exclusion'
        BY <1>6, <2>1 DEF LockSafe, RW!Park, RW!SpuriousWakeup, RW!Exclusion
  <2>4. RW!SleepersHaveReason'
        BY <1>t, <1>6 DEF LockSafe, RW!Park, RW!SpuriousWakeup, RW!Goto, RW!TypeOK,
                          RW!SleepersHaveReason
  <2> QED BY <2>2, <2>3, <2>4 DEF LockSafe
<1>7. CASE RunRW
      BY <1>2, <1>3, <1>4, <1>5, <1>6, <1>7
      DEF RunRW, RW!Next, RW!Reader, RW!Writer
<1> QED BY <1>1, <1>7 DEF Next, vars, RunBuffer, RunSlot, RunOrder, RunLatch,
                          RunMpsc, RunStack, RunLesson

\* The lock of 07_readersWriters.cpp excludes, its count and its flag are
\* right, and nobody sleeps beside a free lock, for any number of readers and
\* writers.
THEOREM LockCorrect == Spec => []LockSafe
BY LockInit, LockStep, PTL DEF Spec

-----------------------------------------------------------------------------
\* The slot.

SlotInv == Slot!TypeOK /\ Slot!NothingLost /\ Slot!SomeoneAwake

\* Nobody sleeps when a critical section has been left by DoneWaking: either
\* somebody was woken, or nobody was asleep.
LEMMA SlotWakes ==
  ASSUME Slot!TypeOK, NEW x \in A \cup B, NEW S \in {A, B}, x \notin S,
         Slot!DoneWaking(x, S)
  PROVE  /\ slot_pc' \in [A \cup B -> {"locking", "parked", "done"}]
         /\ \A y \in A \cup B : slot_pc'[y] = "done" <=> y = x \/ slot_pc[y] = "done"
         /\ (\E y \in S : slot_pc'[y] # "done") => \E y \in S : slot_pc'[y] = "locking"
<1> USE DEF Slot!TypeOK, Slot!Threads
<1>1. CASE Slot!ParkedOf(S) = {} /\ slot_pc' = [slot_pc EXCEPT ![x] = "done"]
  <2>1. \A y \in S : slot_pc[y] # "parked"
        BY <1>1 DEF Slot!ParkedOf
  <2> QED BY <1>1, <2>1
<1>2. ASSUME NEW y \in Slot!ParkedOf(S),
             slot_pc' = [slot_pc EXCEPT ![x] = "done", ![y] = "locking"]
      PROVE  /\ slot_pc' \in [A \cup B -> {"locking", "parked", "done"}]
             /\ \A z \in A \cup B :
                  slot_pc'[z] = "done" <=> z = x \/ slot_pc[z] = "done"
             /\ (\E z \in S : slot_pc'[z] # "done")
                  => \E z \in S : slot_pc'[z] = "locking"
  <2>1. y \in S /\ slot_pc[y] = "parked" /\ y # x /\ y \in A \cup B
        BY <1>2 DEF Slot!ParkedOf
  <2>2. slot_pc'[y] = "locking"
        BY <1>2, <2>1
  <2> QED BY <1>2, <2>1, <2>2
<1> QED BY <1>1, <1>2 DEF Slot!DoneWaking

\* SlotInv is inductive (01_producerConsumer.cpp:94-130).
LEMMA SlotStep == SlotInv /\ [Next]_vars => SlotInv'
<1> SUFFICES ASSUME SlotInv, [Next]_vars PROVE SlotInv'
    OBVIOUS
<1> USE ExercisesAssumption DEF Slot!Threads
<1>t. Slot!TypeOK /\ Slot!NothingLost /\ Slot!SomeoneAwake
      BY DEF SlotInv
<1>1. CASE UNCHANGED slotVars
      BY <1>t, <1>1 DEF slotVars, SlotInv, Slot!TypeOK, Slot!NothingLost,
                        Slot!SomeoneAwake
<1>2. ASSUME NEW p \in A, Slot!Produce(p) PROVE SlotInv'
  <2>1. /\ slot_pc' \in [A \cup B -> {"locking", "parked", "done"}]
        /\ \A y \in A \cup B : slot_pc'[y] = "done" <=> y = p \/ slot_pc[y] = "done"
        /\ (\E y \in B : slot_pc'[y] # "done") => \E y \in B : slot_pc'[y] = "locking"
        BY <1>t, <1>2, SlotWakes DEF Slot!Produce
  <2>2. cargo = NoCargo /\ cargo' = p /\ printed' = printed /\ p # NoCargo
        /\ slot_pc[p] = "locking"
        BY <1>2 DEF Slot!Produce
  <2>3. Slot!TypeOK'
        BY <1>t, <2>1, <2>2 DEF Slot!TypeOK
  <2>4. Slot!NothingLost'
        BY <1>t, <2>1, <2>2 DEF Slot!TypeOK, Slot!NothingLost
  <2>5. Slot!SomeoneAwake'
        BY <2>1, <2>2 DEF Slot!SomeoneAwake
  <2> QED BY <2>3, <2>4, <2>5 DEF SlotInv
<1>3. ASSUME NEW c \in B, Slot!Consume(c) PROVE SlotInv'
  <2>1. /\ slot_pc' \in [A \cup B -> {"locking", "parked", "done"}]
        /\ \A y \in A \cup B : slot_pc'[y] = "done" <=> y = c \/ slot_pc[y] = "done"
        /\ (\E y \in A : slot_pc'[y] # "done") => \E y \in A : slot_pc'[y] = "locking"
        BY <1>t, <1>3, SlotWakes DEF Slot!Consume
  <2>2. /\ cargo # NoCargo /\ cargo \in A /\ cargo' = NoCargo
        /\ printed' = [printed EXCEPT ![c] = cargo] /\ slot_pc[c] = "locking"
        BY <1>t, <1>3 DEF Slot!Consume, Slot!TypeOK
  <2>3. Slot!TypeOK'
        BY <1>t, <2>1, <2>2 DEF Slot!TypeOK
  <2>4. printed[c] = NoCargo /\ \A d \in B : printed[d] # cargo
        BY <1>t, <2>2 DEF Slot!NothingLost
  <2>5. /\ printed'[c] = cargo
        /\ \A d \in B : d # c => printed'[d] = printed[d]
        BY <1>t, <2>2 DEF Slot!TypeOK
  <2>6. \A p \in A : slot_pc'[p] = "done"
          <=> (cargo' = p \/ \E d \in B : printed'[d] = p)
    <3> SUFFICES ASSUME NEW p \in A
                 PROVE  slot_pc'[p] = "done"
                          <=> (cargo' = p \/ \E d \in B : printed'[d] = p)
        OBVIOUS
    <3>1. slot_pc'[p] = "done" <=> (cargo = p \/ \E d \in B : printed[d] = p)
          BY <1>t, <2>1 DEF Slot!NothingLost
    <3>2. (\E d \in B : printed'[d] = p)
            <=> (cargo = p \/ \E d \in B : printed[d] = p)
          BY <2>4, <2>5
    <3> QED BY <2>2, <3>1, <3>2
  <2>7. Slot!NothingLost'
        BY <1>t, <2>1, <2>2, <2>4, <2>5, <2>6 DEF Slot!NothingLost
  <2>8. Slot!SomeoneAwake'
        BY <2>1, <2>2 DEF Slot!SomeoneAwake
  <2> QED BY <2>3, <2>7, <2>8 DEF SlotInv
<1>4. ASSUME NEW x \in A \cup B,
             Slot!SpuriousWakeup(x) \/ (x \in A /\ Slot!AwaitEmpty(x))
                                    \/ (x \in B /\ Slot!AwaitFull(x))
      PROVE  SlotInv'
  <2>1. Slot!TypeOK'
        BY <1>t, <1>4 DEF Slot!SpuriousWakeup, Slot!AwaitEmpty, Slot!AwaitFull,
                          Slot!Park, Slot!TypeOK
  <2>2. Slot!NothingLost'
        BY <1>t, <1>4 DEF Slot!SpuriousWakeup, Slot!AwaitEmpty, Slot!AwaitFull,
                          Slot!Park, Slot!TypeOK, Slot!NothingLost
  <2>3. Slot!SomeoneAwake'
        BY <1>t, <1>4 DEF Slot!SpuriousWakeup, Slot!AwaitEmpty, Slot!AwaitFull,
                          Slot!Park, Slot!TypeOK, Slot!SomeoneAwake
  <2> QED BY <2>1, <2>2, <2>3 DEF SlotInv
<1>5. CASE RunSlot
      BY <1>2, <1>3, <1>4, <1>5
      DEF RunSlot, Slot!Next, Slot!Producer, Slot!Consumer
<1> QED BY <1>1, <1>5 DEF Next, vars, RunBuffer, RunRW, RunOrder, RunLatch,
                          RunMpsc, RunStack, RunLesson

LEMMA SlotInit == Init => SlotInv
BY ExercisesAssumption
DEF Init, Slot!Init, SlotInv, Slot!TypeOK, Slot!NothingLost, Slot!SomeoneAwake,
    Slot!Threads

-----------------------------------------------------------------------------
\* The latches.

Busy == {w \in A : latch_pc[w] # "done"}

Come == {w \in A : latch_pc[w] # "ready"}

\* The counters say how many workers are not done, and who has been at the
\* door.
LatchInv ==
  /\ use \in {"CountDownLatch", "start_door"}
  /\ opened \in BOOLEAN
  /\ latch_pc \in [A -> {"ready", "at_door", "working", "done"}]
  /\ latch_main \in {"opening", "waiting", "parked", "proceeding"}
  /\ latch_count = Cardinality(Busy)
  /\ IF use = "start_door"
     THEN /\ start = 1 - Cardinality(Come) - (IF opened THEN 1 ELSE 0)
          /\ latch_main = "opening" => ~opened
     ELSE start = 1 /\ Come = A /\ latch_main # "opening"
  /\ Latch!EndDoor

LEMMA LatchCardinality == \A S : Latch!Cardinality(S) = Cardinality(S)
BY DEF Latch!Cardinality, Cardinality

\* LatchInv is inductive (04_countDownLatch.cpp:9-37, 6_cpp20_sync.cpp:27-60).
LEMMA LatchStep == LatchInv /\ [Next]_vars => LatchInv'
<1> SUFFICES ASSUME LatchInv, [Next]_vars PROVE LatchInv'
    OBVIOUS
<1> USE ExercisesAssumption
<1>f. /\ IsFiniteSet(Busy) /\ Cardinality(Busy) \in Nat
      /\ IsFiniteSet(Come) /\ Cardinality(Come) \in Nat
      BY FS_Subset, FS_CardinalityType DEF Busy, Come
<1>1. CASE UNCHANGED latchVars
  <2>1. Busy' = Busy /\ Come' = Come
        BY <1>1 DEF latchVars, Busy, Come
  <2> QED BY <1>1, <2>1 DEF latchVars, LatchInv, Latch!EndDoor
<1>2. ASSUME NEW w \in A, Latch!Arrive(w) PROVE LatchInv'
  <2>1. /\ Busy' = Busy
        /\ w \notin Come /\ Come' = Come \cup {w}
        BY <1>2 DEF Latch!Arrive, Latch!Goto, Busy, Come, LatchInv
  <2>2. Cardinality(Come') = Cardinality(Come) + 1
        BY <1>f, <2>1, FS_AddElement
  <2>3. use = "start_door"
        BY <2>1 DEF LatchInv
  <2>4. start' = 1 - Cardinality(Come') - (IF opened' THEN 1 ELSE 0)
        BY <1>2, <1>f, <2>2, <2>3 DEF Latch!Arrive, LatchInv
  <2> QED BY <1>2, <2>1, <2>3, <2>4
          DEF Latch!Arrive, Latch!Goto, LatchInv, Latch!EndDoor
<1>3. ASSUME NEW w \in A, Latch!PassDoor(w) PROVE LatchInv'
  <2>1. Busy' = Busy /\ Come' = Come
        BY <1>3 DEF Latch!PassDoor, Latch!Goto, Busy, Come, LatchInv
  <2> QED BY <1>3, <2>1 DEF Latch!PassDoor, Latch!Goto, LatchInv, Latch!EndDoor
<1>4. ASSUME NEW w \in A, Latch!CountDown(w) PROVE LatchInv'
  <2>1. w \in Busy /\ Busy' = Busy \ {w} /\ Come' = Come
        BY <1>4 DEF Latch!CountDown, Latch!Goto, Busy, Come, LatchInv
  <2>2. Cardinality(Busy') = Cardinality(Busy) - 1
        BY <1>f, <2>1, FS_RemoveElement
  <2>3. latch_main # "proceeding"
        BY <1>4 DEF Latch!CountDown, LatchInv, Latch!EndDoor
  <2> QED BY <1>4, <2>1, <2>2, <2>3
          DEF Latch!CountDown, Latch!Goto, LatchInv, Latch!EndDoor
<1>5. CASE Latch!OpenDoor
  <2>1. Busy' = Busy /\ Come' = Come
        BY <1>5 DEF Latch!OpenDoor, Busy, Come
  <2>2. use = "start_door" /\ opened = FALSE /\ opened' = TRUE
        BY <1>5 DEF Latch!OpenDoor, LatchInv
  <2>3. start' = 1 - Cardinality(Come') - 1
        BY <1>5, <1>f, <2>1, <2>2 DEF Latch!OpenDoor, LatchInv
  <2> QED BY <1>5, <2>1, <2>2, <2>3 DEF Latch!OpenDoor, LatchInv, Latch!EndDoor
<1>8. CASE Latch!Park \/ Latch!SpuriousWakeup
  <2>1. Busy' = Busy /\ Come' = Come
        BY <1>8 DEF Latch!Park, Latch!SpuriousWakeup, Busy, Come
  <2>2. latch_main' \in {"waiting", "parked"}
        BY <1>8 DEF Latch!Park, Latch!SpuriousWakeup
  <2>3. UNCHANGED <<use, start, latch_count, opened, latch_pc>>
        BY <1>8 DEF Latch!Park, Latch!SpuriousWakeup
  <2> QED BY <2>1, <2>2, <2>3 DEF LatchInv, Latch!EndDoor
<1>6. CASE Latch!Proceed
  <2>1. Busy' = Busy /\ Come' = Come /\ latch_pc' = latch_pc
        BY <1>6 DEF Latch!Proceed, Busy, Come
  <2>2. Busy = {}
        BY <1>f, <1>6, FS_EmptySet DEF Latch!Proceed, LatchInv
  <2>3. Latch!EndDoor'
        BY <2>1, <2>2 DEF Latch!EndDoor, Busy
  <2> QED BY <1>6, <2>1, <2>3 DEF Latch!Proceed, LatchInv
<1>7. CASE RunLatch
      BY <1>2, <1>3, <1>4, <1>5, <1>6, <1>7, <1>8
      DEF RunLatch, Latch!Next, Latch!Worker, Latch!Main
<1> QED BY <1>1, <1>7 DEF Next, vars, RunBuffer, RunSlot, RunRW, RunOrder,
                          RunMpsc, RunStack, RunLesson

LEMMA LatchInit == Init => LatchInv
<1> SUFFICES ASSUME Latch!Init PROVE LatchInv
    BY DEF Init
<1>1. Busy = A
      BY DEF Latch!Init, Busy
<1>2. Come = IF use = "start_door" THEN {} ELSE A
      BY DEF Latch!Init, Come
<1>3. Cardinality({}) = 0
      BY FS_EmptySet
<1>4. /\ use = "start_door" => latch_main = "opening"
      /\ use # "start_door" => latch_main = "waiting"
      /\ latch_pc \in [A -> {"ready", "at_door", "working", "done"}]
      /\ use \in {"CountDownLatch", "start_door"}
      BY DEF Latch!Init
<1>5. latch_count = Cardinality(Busy) /\ start = 1 /\ opened = FALSE
      BY <1>1, LatchCardinality DEF Latch!Init
<1>6. CASE use = "start_door"
  <2>1. Cardinality(Come) = 0
        BY <1>2, <1>3, <1>6
  <2>2. start = 1 - Cardinality(Come) - (IF opened THEN 1 ELSE 0)
        BY <1>5, <2>1
  <2> QED BY <1>4, <1>5, <1>6, <2>2 DEF LatchInv, Latch!EndDoor
<1>7. CASE use = "CountDownLatch"
      BY <1>2, <1>4, <1>5, <1>7 DEF LatchInv, Latch!EndDoor
<1> QED BY <1>4, <1>6, <1>7

\* The door's counter stays above minus the number of workers.
LEMMA LatchTyped == LatchInv => Latch!TypeOK
<1> SUFFICES ASSUME LatchInv PROVE Latch!TypeOK
    OBVIOUS
<1>1. /\ Cardinality(Busy) \in 0..Cardinality(A)
      /\ Cardinality(Come) \in 0..Cardinality(A)
      BY FS_Subset, FS_CardinalityType, ExercisesAssumption DEF Busy, Come
<1>2. Cardinality(A) \in Nat
      BY FS_CardinalityType, ExercisesAssumption
<1> QED BY <1>1, <1>2, LatchCardinality DEF LatchInv, Latch!TypeOK

-----------------------------------------------------------------------------
\* The letters in turn.

Third == 0..2

Waits == {"waiting", "parked", "printing"}

OrderTyped ==
  /\ Order!TypeOK
  /\ \A x \in Third : print_pc[x] \in Waits => count[x] < Rounds

\* With the condition variable the flag is the number of letters.
CvInv ==
  style = "cv" =>
    /\ flag = Len(out) % 3
    /\ \A x \in Third : print_pc[x] \in {"waiting", "parked", "done"}

\* With the atomic flags one light is on, or the only printer that handles
\* them has put its own out; the next letter is the one after it.
AtomicInv ==
  style = "atomic" =>
    /\ \A x \in Third :
         /\ print_pc[x] \in {"waiting", "clearing", "lighting", "done"}
         /\ print_pc[x] \in {"clearing", "lighting"} =>
              /\ Len(out) % 3 = (x + 1) % 3
              /\ \A y \in Third : light[y] <=> y = x /\ print_pc[x] = "clearing"
              /\ \A y \in Third : y # x => print_pc[y] \notin {"clearing", "lighting"}
    /\ (\A x \in Third : print_pc[x] \notin {"clearing", "lighting"})
         => \A y \in Third : light[y] <=> y = Len(out) % 3

\* With the promises a printer starts when the one before it has ended.
FutureInv ==
  style = "future" =>
    /\ Len(out) = count[0] + count[1] + count[2]
    /\ \A x \in Third :
         /\ print_pc[x] \in {"waiting", "printing", "setting", "done"}
         /\ x \in set => print_pc[x] = "done"
         /\ print_pc[x] = "waiting" => count[x] = 0
         /\ print_pc[x] \in {"setting", "done"} => count[x] = Rounds
         /\ x # 0 /\ print_pc[x] # "waiting" => x - 1 \in set

OrderInv == OrderTyped /\ CvInv /\ AtomicInv /\ FutureInv /\ Order!InOrder

\* A letter that is the right one keeps the letters in order.
LEMMA NextLetter ==
  ASSUME OrderTyped, Order!InOrder, style' = style, NEW x \in Third,
         out' = Append(out, x),
         x = IF style = "future" THEN Len(out) \div Rounds ELSE Len(out) % 3
  PROVE  Order!InOrder' /\ out' \in Seq(Third) /\ Len(out') = Len(out) + 1
<1>1. out \in Seq(Third) /\ Len(out) \in Nat
      BY DEF OrderTyped, Order!TypeOK, Order!P, Third
<1>2. out' \in Seq(Third) /\ Len(out') = Len(out) + 1
      BY <1>1
<1>3. ASSUME NEW k \in 1..Len(out')
      PROVE  out'[k] = IF style' = "future" THEN (k - 1) \div Rounds ELSE (k - 1) % 3
  <2>1. CASE k = Len(out) + 1
        BY <1>1, <2>1
  <2>2. CASE k \in 1..Len(out)
    <3>1. out'[k] = out[k]
          BY <1>1, <2>2
    <3> QED BY <2>2, <3>1 DEF Order!InOrder
  <2> QED BY <1>1, <1>2, <2>1, <2>2
<1> QED BY <1>2, <1>3 DEF Order!InOrder

\* One printer after the other: which of them has its turn.
LEMMA Quotient ==
  ASSUME NEW R \in Nat \ {0}, NEW c \in 0..R - 1
  PROVE  c \div R = 0 /\ (R + c) \div R = 1 /\ (R + R + c) \div R = 2
OBVIOUS

\* OrderInv is inductive (02_printOrder.cpp:18-169).
LEMMA OrderStep == OrderInv /\ [Next]_vars => OrderInv'
<1> SUFFICES ASSUME OrderInv, [Next]_vars PROVE OrderInv'
    OBVIOUS
<1> USE ExercisesAssumption DEF Third, Order!P
<1>t. Order!TypeOK /\ OrderTyped /\ CvInv /\ AtomicInv /\ FutureInv /\ Order!InOrder
      BY DEF OrderInv, OrderTyped
<1>1. CASE UNCHANGED printVars
      BY <1>t, <1>1 DEF printVars, OrderInv, OrderTyped, Order!TypeOK, CvInv,
                        AtomicInv, FutureInv, Order!InOrder
<1>2. ASSUME NEW x \in Third, Order!PrintInTurn(x) PROVE OrderInv'
  <2>1. Order!InOrder' /\ out' \in Seq(Third) /\ Len(out') = Len(out) + 1
        BY <1>t, <1>2, NextLetter DEF Order!PrintInTurn, Order!Emit, CvInv
  <2>2. flag' = Len(out') % 3 /\ flag' \in Third
    <3>1. Len(out) \in Nat /\ flag = Len(out) % 3 /\ flag' = (flag + 1) % 3
          BY <1>t, <1>2 DEF Order!PrintInTurn, CvInv, Order!TypeOK, Order!After
    <3> QED BY <2>1, <3>1
  <2>3. \A y \in Third :
          /\ print_pc'[y] \in {"waiting", "parked", "done"}
          /\ y # x /\ print_pc'[y] \in Waits => print_pc[y] \in Waits
          /\ y = x /\ print_pc'[y] \in Waits => count[x] + 1 # Rounds
        BY <1>t, <1>2 DEF Order!PrintInTurn, Order!Last, CvInv, Waits
  <2>4. count[x] < Rounds /\ count' = [count EXCEPT ![x] = @ + 1]
        BY <1>t, <1>2 DEF Order!PrintInTurn, Order!Emit, OrderTyped, Waits
  <2>5. OrderTyped'
    <3>1. print_pc' \in [Third -> {"waiting", "parked", "clearing", "lighting",
                                   "printing", "setting", "done"}]
          BY <1>2, <2>3 DEF Order!PrintInTurn
    <3>2. count' \in [Third -> 0..Rounds]
          BY <1>t, <2>4 DEF Order!TypeOK
    <3>3. \A y \in Third : print_pc'[y] \in Waits => count'[y] < Rounds
          BY <1>t, <2>3, <2>4 DEF Order!TypeOK, OrderTyped
    <3> QED BY <1>t, <1>2, <2>1, <2>2, <3>1, <3>2, <3>3
            DEF Order!PrintInTurn, OrderTyped, Order!TypeOK
  <2>6. CvInv' /\ AtomicInv' /\ FutureInv'
        BY <1>2, <2>2, <2>3 DEF Order!PrintInTurn, CvInv, AtomicInv, FutureInv
  <2> QED BY <2>1, <2>5, <2>6 DEF OrderInv
<1>3. ASSUME NEW x \in Third, Order!Park(x) \/ Order!SpuriousWakeup(x) PROVE OrderInv'
  <2>1. UNCHANGED <<style, flag, light, set, count, out>>
        BY <1>3 DEF Order!Park, Order!SpuriousWakeup
  <2>2. print_pc[x] \in {"waiting", "parked"}
        BY <1>3 DEF Order!Park, Order!SpuriousWakeup
  <2>3. /\ print_pc'[x] \in {"waiting", "parked"}
        /\ \A y \in Third : y # x => print_pc'[y] = print_pc[y]
        /\ DOMAIN print_pc' = Third
        BY <1>t, <1>3 DEF Order!Park, Order!SpuriousWakeup, Order!TypeOK
  <2>4. style = "cv"
        BY <1>t, <1>3 DEF Order!Park, Order!SpuriousWakeup, AtomicInv, FutureInv,
                          Order!TypeOK
  <2>5. OrderTyped'
    <3>1. print_pc' \in [Third -> {"waiting", "parked", "clearing", "lighting",
                                   "printing", "setting", "done"}]
          BY <1>t, <1>3 DEF Order!Park, Order!SpuriousWakeup, Order!TypeOK
    <3> QED BY <1>t, <2>1, <2>2, <2>3, <3>1 DEF OrderTyped, Order!TypeOK, Waits
  <2>6. CvInv' /\ AtomicInv' /\ FutureInv' /\ Order!InOrder'
        BY <1>t, <2>1, <2>3, <2>4
        DEF CvInv, AtomicInv, FutureInv, Order!InOrder
  <2> QED BY <2>5, <2>6 DEF OrderInv
<1>4. ASSUME NEW x \in Third, Order!PrintLit(x) PROVE OrderInv'
  <2>a. /\ style = "atomic" /\ print_pc[x] = "waiting" /\ light[x]
        /\ UNCHANGED <<style, flag, light, set>>
        BY <1>4 DEF Order!PrintLit
  <2>b. \A y \in Third : print_pc[y] \notin {"clearing", "lighting"}
        BY <1>t, <2>a DEF AtomicInv
  <2>c. x = Len(out) % 3 /\ \A y \in Third : light[y] <=> y = x
        BY <1>t, <2>a, <2>b DEF AtomicInv
  <2>1. Order!InOrder' /\ out' \in Seq(Third) /\ Len(out') = Len(out) + 1
        BY <1>t, <1>4, <2>a, <2>c, NextLetter DEF Order!PrintLit, Order!Emit
  <2>2. Len(out') % 3 = (x + 1) % 3
    <3>1. Len(out) \in Nat
          BY <1>t DEF Order!TypeOK
    <3> QED BY <2>1, <2>c, <3>1
  <2>3. print_pc' = [print_pc EXCEPT ![x] = "clearing"]
        BY <1>4 DEF Order!PrintLit
  <2>4. count[x] < Rounds /\ count' = [count EXCEPT ![x] = @ + 1]
        BY <1>t, <1>4 DEF Order!PrintLit, Order!Emit, OrderTyped, Waits
  <2>5. OrderTyped'
        BY <1>t, <2>a, <2>1, <2>3, <2>4 DEF OrderTyped, Order!TypeOK, Waits
  <2>6. CvInv' /\ FutureInv'
        BY <2>a DEF CvInv, FutureInv
  <2>7. AtomicInv'
    <3>1. \A y \in Third : print_pc'[y] = IF y = x THEN "clearing" ELSE print_pc[y]
          BY <1>t, <2>3 DEF Order!TypeOK
    <3>2. light' = light
          BY <2>a
    <3>3. \A y \in Third : y # x => print_pc'[y] \notin {"clearing", "lighting"}
          BY <2>b, <3>1
    <3>4. \A y \in Third : print_pc'[y] \in {"waiting", "clearing", "lighting", "done"}
          BY <1>t, <2>a, <3>1 DEF AtomicInv
    <3>5. print_pc'[x] = "clearing"
          BY <3>1
    <3> QED BY <2>c, <2>2, <3>2, <3>3, <3>4, <3>5 DEF AtomicInv
  <2> QED BY <2>1, <2>5, <2>6, <2>7 DEF OrderInv
<1>5. ASSUME NEW x \in Third, Order!Clear(x) PROVE OrderInv'
  <2>a. style = "atomic"
        BY <1>t, <1>5 DEF Order!Clear, CvInv, FutureInv, Order!TypeOK
  <2>1. OrderTyped'
        BY <1>t, <1>5 DEF Order!Clear, OrderTyped, Order!TypeOK, Waits
  <2>2. CvInv' /\ FutureInv' /\ Order!InOrder'
        BY <1>t, <1>5, <2>a DEF Order!Clear, CvInv, FutureInv, Order!InOrder
  <2>3. AtomicInv'
        BY <1>t, <1>5, <2>a DEF Order!Clear, AtomicInv, Order!TypeOK
  <2> QED BY <2>1, <2>2, <2>3 DEF OrderInv
<1>6. ASSUME NEW x \in Third, Order!Light(x) PROVE OrderInv'
  <2>a. /\ style = "atomic"
        /\ print_pc[x] = "lighting"
        /\ UNCHANGED <<style, flag, set, count, out>>
        BY <1>t, <1>6 DEF Order!Light, CvInv, FutureInv, Order!TypeOK
  <2>b. /\ Len(out) % 3 = (x + 1) % 3 /\ (x + 1) % 3 \in Third
        /\ \A y \in Third : ~light[y]
        /\ \A y \in Third : y # x => print_pc[y] \notin {"clearing", "lighting"}
    <3>1. (x + 1) % 3 \in Third
          OBVIOUS
    <3> QED BY <1>t, <2>a, <3>1 DEF AtomicInv
  <2>c. /\ light' = [light EXCEPT ![(x + 1) % 3] = TRUE]
        /\ print_pc' = [print_pc EXCEPT ![x] = IF count[x] = Rounds THEN "done"
                                               ELSE "waiting"]
        BY <1>6 DEF Order!Light, Order!After
  <2>1. OrderTyped'
        BY <1>t, <2>a, <2>b, <2>c DEF OrderTyped, Order!TypeOK, Waits
  <2>2. CvInv' /\ FutureInv' /\ Order!InOrder'
        BY <1>t, <2>a DEF CvInv, FutureInv, Order!InOrder
  <2>3. AtomicInv'
        BY <1>t, <2>a, <2>b, <2>c DEF AtomicInv, Order!TypeOK
  <2> QED BY <2>1, <2>2, <2>3 DEF OrderInv
<1>7. ASSUME NEW x \in Third, Order!Enter(x) PROVE OrderInv'
  <2>1. OrderTyped'
        BY <1>t, <1>7 DEF Order!Enter, OrderTyped, Order!TypeOK, Waits
  <2>2. CvInv' /\ AtomicInv' /\ Order!InOrder'
        BY <1>t, <1>7 DEF Order!Enter, CvInv, AtomicInv, Order!InOrder
  <2>3. FutureInv'
        BY <1>t, <1>7 DEF Order!Enter, FutureInv, Order!TypeOK
  <2> QED BY <2>1, <2>2, <2>3 DEF OrderInv
<1>8. ASSUME NEW x \in Third, Order!PrintRow(x) PROVE OrderInv'
  <2>a. /\ style = "future" /\ print_pc[x] = "printing"
        /\ UNCHANGED <<style, flag, light, set>>
        BY <1>t, <1>8 DEF Order!PrintRow, CvInv, AtomicInv, Order!TypeOK
  <2>b. /\ count[x] < Rounds /\ count' = [count EXCEPT ![x] = @ + 1]
        /\ print_pc' = [print_pc EXCEPT ![x] = IF count[x] + 1 = Rounds
                                               THEN "setting" ELSE "printing"]
        BY <1>t, <1>8, <2>a DEF Order!PrintRow, Order!Emit, Order!Last, OrderTyped,
                                Waits
  <2>c. \A y \in Third : /\ y < x => count[y] = Rounds
                         /\ y > x => count[y] = 0
    <3>1. x \notin set
          BY <1>t, <2>a DEF FutureInv
    <3>2. \A y \in Third : y # 0 /\ y - 1 \notin set
                             => print_pc[y] = "waiting" /\ y \notin set /\ count[y] = 0
          BY <1>t, <2>a DEF FutureInv
    <3>3. \A y \in Third : y \in set => print_pc[y] = "done" /\ count[y] = Rounds
          BY <1>t, <2>a DEF FutureInv
    <3>4. \A y \in Third : y # 0 /\ print_pc[y] # "waiting" => y - 1 \in set
          BY <1>t, <2>a DEF FutureInv
    <3> QED BY <2>a, <3>1, <3>2, <3>3, <3>4
  <2>d. x = Len(out) \div Rounds
    <3>1. /\ Len(out) = count[0] + count[1] + count[2]
          /\ count[0] \in 0..Rounds /\ count[1] \in 0..Rounds /\ count[2] \in 0..Rounds
          BY <1>t, <2>a DEF FutureInv, Order!TypeOK
    <3>2. count[x] \in 0..Rounds - 1
          BY <2>b, <3>1
    <3>3. CASE x = 0
      <4>1. Len(out) = count[0]
            BY <2>c, <3>1, <3>3
      <4> QED BY <3>2, <3>3, <4>1, Quotient
    <3>4. CASE x = 1
      <4>1. Len(out) = Rounds + count[1]
            BY <2>c, <3>1, <3>4
      <4> QED BY <3>2, <3>4, <4>1, Quotient
    <3>5. CASE x = 2
      <4>1. Len(out) = Rounds + Rounds + count[2]
            BY <2>c, <3>1, <3>5
      <4> QED BY <3>2, <3>5, <4>1, Quotient
    <3> QED BY <3>3, <3>4, <3>5
  <2>1. Order!InOrder' /\ out' \in Seq(Third) /\ Len(out') = Len(out) + 1
        BY <1>t, <1>8, <2>a, <2>d, NextLetter DEF Order!PrintRow, Order!Emit
  <2>e. /\ count \in [Third -> 0..Rounds]
        /\ \A y \in Third : count'[y] = IF y = x THEN count[x] + 1 ELSE count[y]
        BY <1>t, <2>b DEF Order!TypeOK
  <2>2. OrderTyped'
    <3>1. count' \in [Third -> 0..Rounds]
          BY <2>b, <2>e
    <3>2. print_pc' \in [Third -> {"waiting", "parked", "clearing", "lighting",
                                   "printing", "setting", "done"}]
          BY <1>t, <2>b DEF Order!TypeOK
    <3>3. \A y \in Third : print_pc'[y] \in Waits => count'[y] < Rounds
          BY <1>t, <2>b, <2>e DEF OrderTyped, Order!TypeOK, Waits
    <3> QED BY <1>t, <2>a, <2>1, <3>1, <3>2, <3>3 DEF OrderTyped, Order!TypeOK
  <2>3. CvInv' /\ AtomicInv'
        BY <2>a DEF CvInv, AtomicInv
  <2>4. Len(out') = count'[0] + count'[1] + count'[2]
    <3>1. Len(out) = count[0] + count[1] + count[2]
          BY <1>t, <2>a DEF FutureInv
    <3>2. x = 0 \/ x = 1 \/ x = 2
          OBVIOUS
    <3> QED BY <2>1, <2>e, <3>1, <3>2
  <2>5. FutureInv'
        BY <1>t, <2>a, <2>b, <2>4 DEF FutureInv, Order!TypeOK
  <2> QED BY <2>1, <2>2, <2>3, <2>5 DEF OrderInv
<1>9. ASSUME NEW x \in Third, Order!SetValue(x) PROVE OrderInv'
  <2>a. style = "future"
        BY <1>t, <1>9 DEF Order!SetValue, CvInv, AtomicInv, Order!TypeOK
  <2>1. OrderTyped'
        BY <1>t, <1>9 DEF Order!SetValue, OrderTyped, Order!TypeOK, Waits
  <2>2. CvInv' /\ AtomicInv' /\ Order!InOrder'
        BY <1>t, <1>9, <2>a DEF Order!SetValue, CvInv, AtomicInv, Order!InOrder
  <2>3. FutureInv'
        BY <1>t, <1>9, <2>a DEF Order!SetValue, FutureInv, Order!TypeOK
  <2> QED BY <2>1, <2>2, <2>3 DEF OrderInv
<1>10. CASE RunOrder
       BY <1>2, <1>3, <1>4, <1>5, <1>6, <1>7, <1>8, <1>9, <1>10
       DEF RunOrder, Order!Next, Order!Printer
<1> QED BY <1>1, <1>10 DEF Next, vars, RunBuffer, RunSlot, RunRW, RunLatch,
                           RunMpsc, RunStack, RunLesson

LEMMA OrderInit == Init => OrderInv
<1> SUFFICES ASSUME Order!Init PROVE OrderInv
    BY DEF Init
<1> USE ExercisesAssumption DEF Order!Init, Order!P, Third
<1>1. OrderTyped
      BY DEF OrderTyped, Order!TypeOK, Waits
<1>2. CvInv
      BY DEF CvInv
<1>3. AtomicInv
      BY DEF AtomicInv
<1>4. FutureInv
      BY DEF FutureInv
<1>5. Order!InOrder
      BY DEF Order!InOrder
<1> QED BY <1>1, <1>2, <1>3, <1>4, <1>5 DEF OrderInv

-----------------------------------------------------------------------------
\* The bounded queue.

Item == A \X (0..Items - 1)

\* Who has ended, and what that says about the others.
BufferControl ==
  /\ \A p \in A : /\ buffer_pc[p] \in {"locking", "parked", "exited"}
                  /\ buffer_pc[p] = "exited" <=> made[p] = Items
                  /\ Len(got[p]) <= made[p]
  /\ production_stopped <=> buffer_main # "producing"
  /\ production_stopped => \A p \in A : buffer_pc[p] = "exited"
  /\ \A c \in B : /\ buffer_pc[c] = "stopped" => production_stopped
                  /\ buffer_pc[c] = "exited" => production_stopped /\ q = <<>>
  /\ buffer_main = "finished" => \A c \in B : buffer_pc[c] = "exited"

BufferInv ==
  /\ Buffer!TypeOK /\ BufferControl
  /\ Buffer!WithinStock /\ Buffer!EachOnceInOrder /\ Buffer!ProducersAwake

LEMMA ItemParts ==
  \A x \in Item : x[1] \in A /\ x[2] \in 0..Items - 1 /\ x = <<x[1], x[2]>>
BY DEF Item

\* Printed in order, and the next one: still in order.
LEMMA OneMore ==
  ASSUME NEW s \in Seq(0..Items - 1), s = [k \in 1..Len(s) |-> k - 1],
         NEW t, t = Append(s, Len(s))
  PROVE  t = [k \in 1..Len(t) |-> k - 1] /\ Len(t) = Len(s) + 1
<1>1. Len(s) \in Nat /\ Len(t) = Len(s) + 1 /\ DOMAIN t = 1..Len(s) + 1
      OBVIOUS
<1>2. \A k \in 1..Len(s) + 1 : t[k] = IF k = Len(s) + 1 THEN Len(s) ELSE s[k]
      BY <1>1
<1>3. \A k \in 1..Len(s) : s[k] = k - 1
      OBVIOUS
<1>4. \A k \in 1..Len(s) + 1 : t[k] = k - 1
      BY <1>1, <1>2, <1>3
<1>5. t = [k \in 1..Len(s) + 1 |-> t[k]]
  <2>1. s \in Seq(Nat)
        BY SeqMonotonic, 0..Items - 1 \subseteq Nat
  <2>2. t \in Seq(Nat)
        BY <1>1, <2>1
  <2>3. t \in [1..Len(t) -> Nat]
        BY <2>2, LenProperties
  <2> QED BY <1>1, <2>3
<1>6. [k \in 1..Len(s) + 1 |-> t[k]] = [k \in 1..Len(s) + 1 |-> k - 1]
      BY <1>4
<1> QED BY <1>1, <1>5, <1>6

\* A producer adds its next item; all consumers that wait are woken.
LEMMA ProduceStep ==
  ASSUME BufferInv, NEW p \in A, Buffer!Produce(p)
  PROVE  BufferInv'
<1> USE ExercisesAssumption DEF Buffer!Threads
<1>t. Buffer!TypeOK /\ BufferControl /\ Buffer!EachOnceInOrder
      BY DEF BufferInv
<1>1. /\ buffer_pc[p] = "locking" /\ Len(q) < Stock
      /\ q' = Append(q, <<p, made[p]>>)
      /\ made' = [made EXCEPT ![p] = @ + 1]
      /\ UNCHANGED <<production_stopped, got, buffer_main>>
      BY DEF Buffer!Produce
<1>2. q \in Seq(Item) /\ Len(q) \in Nat /\ made \in [A -> 0..Items]
      BY <1>t DEF Buffer!TypeOK, Item
<1>3. made[p] < Items
      BY <1>t, <1>1, <1>2 DEF BufferControl
<1>4. /\ q' \in Seq(Item) /\ Len(q') = Len(q) + 1
      /\ q'[Len(q) + 1] = <<p, made[p]>>
      /\ \A k \in 1..Len(q) : q'[k] = q[k]
  <2>1. <<p, made[p]>> \in Item
        BY <1>2, <1>3 DEF Item
  <2> QED BY <1>1, <1>2, <2>1
<1>5. made' \in [A -> 0..Items] /\ made'[p] = made[p] + 1
      /\ \A r \in A : r # p => made'[r] = made[r]
      BY <1>1, <1>2, <1>3
<1>6. /\ buffer_pc' \in [A \cup B -> {"locking", "parked", "checking", "stopped",
                                      "expired", "exited"}]
      /\ buffer_pc'[p] = IF made[p] + 1 < Items THEN "locking" ELSE "exited"
      /\ \A r \in A : r # p => buffer_pc'[r] = buffer_pc[r]
      /\ \A c \in B : buffer_pc'[c] = IF buffer_pc[c] = "parked" THEN "locking"
                                      ELSE buffer_pc[c]
      BY <1>t DEF Buffer!Produce, Buffer!Notified, Buffer!TypeOK
<1>7. Buffer!TypeOK'
      BY <1>t, <1>1, <1>4, <1>5, <1>6 DEF Buffer!TypeOK, Item
<1>8. ~production_stopped /\ buffer_main = "producing"
      BY <1>t, <1>1 DEF BufferControl
<1>9. BufferControl'
  <2>1. \A r \in A : Len(got[r]) \in Nat
        BY <1>t DEF Buffer!TypeOK
  <2>2. \A r \in A : /\ buffer_pc'[r] \in {"locking", "parked", "exited"}
                     /\ buffer_pc'[r] = "exited" <=> made'[r] = Items
                     /\ Len(got'[r]) <= made'[r]
        BY <1>t, <1>1, <1>2, <1>3, <1>5, <1>6, <2>1 DEF BufferControl
  <2>3. \A c \in B : buffer_pc'[c] # "stopped" /\ buffer_pc'[c] # "exited"
        BY <1>t, <1>6, <1>8 DEF BufferControl
  <2> QED BY <1>1, <1>8, <2>2, <2>3 DEF BufferControl
<1>10. Buffer!WithinStock'
       BY <1>1, <1>2, <1>4 DEF Buffer!WithinStock
<1>11. Buffer!ProducersAwake'
       BY <1>1, <1>2, <1>4, <1>6 DEF BufferInv, Buffer!ProducersAwake
<1>12. Buffer!EachOnceInOrder'
  <2>1. \A r \in A : got'[r] = [k \in 1..Len(got'[r]) |-> k - 1]
        BY <1>t, <1>1 DEF Buffer!EachOnceInOrder
  <2>2. ASSUME NEW r \in A, NEW j \in Len(got'[r])..made'[r] - 1
        PROVE  \E k \in 1..Len(q') : q'[k] = <<r, j>>
    <3>1. CASE r = p /\ j = made[p]
      <4>1. Len(q) + 1 \in 1..Len(q')
            BY <1>2, <1>4
      <4> QED BY <1>4, <3>1, <4>1
    <3>2. CASE ~(r = p /\ j = made[p])
      <4>1. Len(got[r]) \in Nat
            BY <1>t DEF Buffer!TypeOK
      <4>2. j \in Len(got[r])..made[r] - 1
            BY <1>1, <1>2, <1>5, <3>2, <4>1
      <4>3. PICK k \in 1..Len(q) : q[k] = <<r, j>>
            BY <1>t, <4>2 DEF Buffer!EachOnceInOrder
      <4>4. k \in 1..Len(q') /\ q'[k] = q[k]
            BY <1>2, <1>4
      <4> QED BY <4>3, <4>4
    <3> QED BY <3>1, <3>2
  <2>3. ASSUME NEW k \in 1..Len(q')
        PROVE  q'[k][2] \in Len(got'[q'[k][1]])..made'[q'[k][1]] - 1
    <3>1. CASE k = Len(q) + 1
          BY <1>t, <1>1, <1>2, <1>4, <1>5, <3>1 DEF BufferControl, Buffer!TypeOK
    <3>2. CASE k \in 1..Len(q)
      <4>1. q'[k] = q[k] /\ q[k] \in Item
            BY <1>2, <1>4, <3>2
      <4>2. q[k][1] \in A /\ q[k][2] \in Len(got[q[k][1]])..made[q[k][1]] - 1
            BY <1>t, <3>2, <4>1, ItemParts DEF Buffer!EachOnceInOrder
      <4>3. \A r \in A : made[r] <= made'[r] /\ made'[r] \in Nat
        <5>1. \A r \in A : made[r] \in Nat /\ made'[r] \in Nat
              BY <1>2, <1>5
        <5> QED BY <1>5, <5>1
      <4>4. Len(got[q[k][1]]) \in Nat /\ made[q[k][1]] \in Nat
            BY <1>t, <1>2, <4>2 DEF Buffer!TypeOK
      <4> QED BY <1>1, <4>1, <4>2, <4>3, <4>4
    <3> QED BY <1>2, <1>4, <3>1, <3>2
  <2>4. ASSUME NEW k \in 1..Len(q'), NEW l \in 1..Len(q'), k < l,
               q'[k][1] = q'[l][1]
        PROVE  q'[k][2] < q'[l][2]
    <3>1. k \in 1..Len(q) /\ q'[k] = q[k] /\ q[k] \in Item
          BY <1>2, <1>4, <2>4
    <3>2. CASE l = Len(q) + 1
      <4>1. q[k][1] = p /\ q'[l][2] = made[p]
            BY <1>4, <2>4, <3>1, <3>2
      <4>2. q[k][2] \in Len(got[p])..made[p] - 1
            BY <1>t, <3>1, <4>1 DEF Buffer!EachOnceInOrder
      <4> QED BY <1>2, <3>1, <4>1, <4>2
    <3>3. CASE l \in 1..Len(q)
          BY <1>t, <1>4, <2>4, <3>1, <3>3 DEF Buffer!EachOnceInOrder
    <3> QED BY <1>2, <1>4, <3>2, <3>3
  <2> QED BY <2>1, <2>2, <2>3, <2>4 DEF Buffer!EachOnceInOrder
<1> QED BY <1>7, <1>9, <1>10, <1>11, <1>12 DEF BufferInv

\* The front of the queue is the next item of its producer: no item of that
\* producer can be before it, and the next one is somewhere in the queue.
LEMMA FrontIsNext ==
  ASSUME BufferInv, q # <<>>
  PROVE  /\ Len(q) \in Nat \ {0} /\ Head(q) = q[1] /\ q[1] \in Item
         /\ q[1][1] \in A
         /\ q[1][2] = Len(got[q[1][1]])
         /\ Len(got[q[1][1]]) < made[q[1][1]]
<1>t. Buffer!TypeOK /\ Buffer!EachOnceInOrder
      BY DEF BufferInv
<1>1. q \in Seq(Item) /\ Len(q) \in Nat \ {0} /\ Head(q) = q[1] /\ q[1] \in Item
      BY <1>t DEF Buffer!TypeOK, Item
<1> DEFINE p == q[1][1]
           n == Len(got[p])
<1>2. p \in A /\ q[1][2] \in n..made[p] - 1 /\ q[1] = <<p, q[1][2]>>
      BY <1>t, <1>1 DEF Buffer!EachOnceInOrder, Item
<1>3. n \in Nat /\ made[p] \in Nat
      BY <1>t, <1>2, ExercisesAssumption DEF Buffer!TypeOK
<1>4. n \in n..made[p] - 1
      BY <1>2, <1>3
<1>5. PICK k \in 1..Len(q) : q[k] = <<p, n>>
      BY <1>t, <1>2, <1>4 DEF Buffer!EachOnceInOrder
<1>6. CASE k = 1
      BY <1>1, <1>2, <1>3, <1>4, <1>5, <1>6
<1>7. CASE k # 1
  <2>1. q[1][2] < q[k][2]
        BY <1>t, <1>1, <1>5, <1>7 DEF Buffer!EachOnceInOrder
  <2> QED BY <1>2, <1>3, <1>5, <2>1
<1> QED BY <1>6, <1>7

\* A consumer takes the front; all producers that wait are woken.
LEMMA ConsumeStep ==
  ASSUME BufferInv, NEW c \in B, Buffer!Consume(c)
  PROVE  BufferInv'
<1> USE ExercisesAssumption DEF Buffer!Threads
<1>t. Buffer!TypeOK /\ BufferControl /\ Buffer!EachOnceInOrder
      BY DEF BufferInv
<1> DEFINE p == q[1][1]
<1>1. /\ Len(q) \in Nat \ {0} /\ Head(q) = q[1]
      /\ p \in A /\ q[1][2] = Len(got[p]) /\ Len(got[p]) < made[p]
      /\ q[1] \in Item
      BY FrontIsNext DEF Buffer!Consume
<1>2. /\ buffer_pc[c] \in {"locking", "expired"} /\ q # <<>>
      /\ got' = [got EXCEPT ![p] = Append(@, Len(got[p]))]
      /\ q' = Tail(q)
      /\ UNCHANGED <<production_stopped, made, buffer_main>>
      BY <1>1 DEF Buffer!Consume
<1>3. q \in Seq(Item) /\ got \in [A -> Seq(0..Items - 1)] /\ made \in [A -> 0..Items]
      BY <1>t DEF Buffer!TypeOK, Item
<1>4. /\ q' \in Seq(Item) /\ Len(q') = Len(q) - 1
      /\ \A k \in 1..Len(q') : k + 1 \in 1..Len(q) /\ q'[k] = q[k + 1]
      BY <1>1, <1>2, <1>3
<1>5. /\ got'[p] = [k \in 1..Len(got'[p]) |-> k - 1]
      /\ Len(got'[p]) = Len(got[p]) + 1
      /\ \A r \in A : r # p => got'[r] = got[r]
      /\ got' \in [A -> Seq(0..Items - 1)]
  <2>1. got[p] \in Seq(0..Items - 1) /\ got[p] = [k \in 1..Len(got[p]) |-> k - 1]
        BY <1>t, <1>1, <1>3 DEF Buffer!EachOnceInOrder
  <2>2. got'[p] = Append(got[p], Len(got[p]))
        BY <1>1, <1>2, <1>3
  <2>3. Append(got[p], Len(got[p])) \in Seq(0..Items - 1)
    <3>1. Len(got[p]) \in Nat /\ made[p] \in 0..Items
          BY <1>1, <1>3
    <3>2. Len(got[p]) \in 0..Items - 1
          BY <1>1, <3>1
    <3> QED BY <2>1, <3>2
  <2>4. got'[p] = [k \in 1..Len(got'[p]) |-> k - 1] /\ Len(got'[p]) = Len(got[p]) + 1
        BY <2>1, <2>2, OneMore
  <2> QED BY <1>1, <1>2, <1>3, <2>3, <2>4
<1>6. /\ buffer_pc' \in [A \cup B -> {"locking", "parked", "checking", "stopped",
                                      "expired", "exited"}]
      /\ buffer_pc'[c] = "checking"
      /\ \A d \in B : d # c => buffer_pc'[d] = buffer_pc[d]
      /\ \A r \in A : buffer_pc'[r] = IF buffer_pc[r] = "parked" THEN "locking"
                                      ELSE buffer_pc[r]
      BY <1>t DEF Buffer!Consume, Buffer!Notified, Buffer!TypeOK
<1>7. Buffer!TypeOK'
      BY <1>t, <1>2, <1>4, <1>5, <1>6 DEF Buffer!TypeOK, Item
<1>8. \A d \in B : buffer_pc[d] # "exited"
      BY <1>t, <1>2 DEF BufferControl
<1>9. BufferControl'
  <2>1. \A r \in A : Len(got'[r]) <= made[r]
    <3>1. \A r \in A : Len(got[r]) \in Nat /\ made[r] \in Nat
          BY <1>3
    <3>2. \A r \in A : Len(got[r]) <= made[r]
          BY <1>t DEF BufferControl
    <3>3. Len(got'[p]) <= made[p]
          BY <1>1, <1>5, <3>1
    <3>4. \A r \in A : r # p => Len(got'[r]) <= made[r]
          BY <1>5, <3>2
    <3> QED BY <3>3, <3>4
  <2>2. buffer_main # "finished"
        BY <1>t, <1>8 DEF BufferControl
  <2>3. \A r \in A : buffer_pc'[r] = "exited" <=> buffer_pc[r] = "exited"
        BY <1>6
  <2>4. \A r \in A : buffer_pc'[r] \in {"locking", "parked", "exited"}
        BY <1>t, <1>6 DEF BufferControl
  <2>5. \A d \in B : /\ buffer_pc'[d] = "stopped" => production_stopped
                     /\ buffer_pc'[d] # "exited"
        BY <1>t, <1>6, <1>8 DEF BufferControl
  <2> QED BY <1>t, <1>2, <2>1, <2>2, <2>3, <2>4, <2>5 DEF BufferControl
<1>10. Buffer!WithinStock'
       BY <1>1, <1>4 DEF BufferInv, Buffer!WithinStock
<1>11. Buffer!ProducersAwake'
       BY <1>6 DEF Buffer!ProducersAwake
<1>12. Buffer!EachOnceInOrder'
  <2>1. \A r \in A : got'[r] = [k \in 1..Len(got'[r]) |-> k - 1]
        BY <1>t, <1>5 DEF Buffer!EachOnceInOrder
  <2>2. ASSUME NEW r \in A, NEW j \in Len(got'[r])..made'[r] - 1
        PROVE  \E k \in 1..Len(q') : q'[k] = <<r, j>>
    <3>1. Len(got[r]) \in Nat /\ Len(got'[r]) >= Len(got[r]) /\ made[r] \in Nat
      <4>1. Len(got[r]) \in Nat /\ made[r] \in Nat
            BY <1>3
      <4>2. Len(got'[r]) = IF r = p THEN Len(got[r]) + 1 ELSE Len(got[r])
            BY <1>5
      <4> QED BY <4>1, <4>2
    <3>2. j \in Len(got[r])..made[r] - 1
          BY <1>2, <1>5, <3>1
    <3>3. PICK k \in 1..Len(q) : q[k] = <<r, j>>
          BY <1>t, <3>2 DEF Buffer!EachOnceInOrder
    <3>4. k # 1
          BY <1>1, <1>5, <3>1, <3>3
    <3>5. k - 1 \in 1..Len(q') /\ q'[k - 1] = q[(k - 1) + 1]
          BY <1>1, <1>4, <3>4
    <3>6. q'[k - 1] = <<r, j>>
          BY <3>3, <3>5
    <3> QED BY <3>5, <3>6
  <2>3. ASSUME NEW k \in 1..Len(q')
        PROVE  q'[k][2] \in Len(got'[q'[k][1]])..made'[q'[k][1]] - 1
    <3>1. k + 1 \in 1..Len(q) /\ q'[k] = q[k + 1] /\ q[k + 1] \in Item
          BY <1>3, <1>4
    <3> DEFINE r == q[k + 1][1]
    <3>2. r \in A /\ q[k + 1][2] \in Len(got[r])..made[r] - 1
          BY <1>t, <3>1, ItemParts DEF Buffer!EachOnceInOrder
    <3>3. Len(got[r]) \in Nat /\ made[r] \in Nat
          BY <1>3, <3>2
    <3>4. CASE r # p
          BY <1>2, <1>5, <3>1, <3>2, <3>4
    <3>5. CASE r = p
      <4>1. q[1][2] < q[k + 1][2]
            BY <1>t, <1>1, <3>1, <3>5 DEF Buffer!EachOnceInOrder
      <4>2. Len(got'[r]) = Len(got[r]) + 1 /\ made'[r] = made[r]
            BY <1>2, <1>5, <3>5
      <4>3. q[k + 1][2] \in Len(got[r]) + 1..made[r] - 1
            BY <1>1, <3>2, <3>3, <3>5, <4>1
      <4> QED BY <3>1, <4>2, <4>3
    <3> QED BY <3>4, <3>5
  <2>4. ASSUME NEW k \in 1..Len(q'), NEW l \in 1..Len(q'), k < l,
               q'[k][1] = q'[l][1]
        PROVE  q'[k][2] < q'[l][2]
    <3>1. k + 1 \in 1..Len(q) /\ l + 1 \in 1..Len(q) /\ k + 1 < l + 1
          /\ q'[k] = q[k + 1] /\ q'[l] = q[l + 1]
          BY <1>4, <2>4
    <3> QED BY <1>t, <2>4, <3>1 DEF Buffer!EachOnceInOrder
  <2> QED BY <2>1, <2>2, <2>3, <2>4 DEF Buffer!EachOnceInOrder
<1> QED BY <1>7, <1>9, <1>10, <1>11, <1>12 DEF BufferInv

\* BufferInv is inductive (01_producerConsumer.cpp:29-85).
LEMMA BufferStep == BufferInv /\ [Next]_vars => BufferInv'
<1> SUFFICES ASSUME BufferInv, [Next]_vars PROVE BufferInv'
    OBVIOUS
<1> USE ExercisesAssumption DEF Buffer!Threads
<1>t. /\ Buffer!TypeOK /\ BufferControl /\ Buffer!WithinStock
      /\ Buffer!EachOnceInOrder /\ Buffer!ProducersAwake
      BY DEF BufferInv
<1>1. CASE UNCHANGED bufferVars
      BY <1>t, <1>1 DEF bufferVars, BufferInv, Buffer!TypeOK, BufferControl,
                        Buffer!WithinStock, Buffer!EachOnceInOrder,
                        Buffer!ProducersAwake
<1>2. ASSUME UNCHANGED <<q, made, got>>, Buffer!TypeOK', BufferControl',
             \A p \in A : buffer_pc'[p] = "parked" /\ buffer_pc[p] # "parked"
                            => Len(q) >= Stock
      PROVE  BufferInv'
  <2>1. Buffer!WithinStock' /\ Buffer!EachOnceInOrder'
        BY <1>t, <1>2 DEF Buffer!WithinStock, Buffer!EachOnceInOrder
  <2>2. Len(q) \in Nat
        BY <1>t DEF Buffer!TypeOK
  <2>3. Buffer!ProducersAwake'
        BY <1>t, <1>2, <2>2 DEF Buffer!ProducersAwake
  <2> QED BY <1>2, <2>1, <2>3 DEF BufferInv
<1>3. ASSUME NEW p \in A, Buffer!AwaitRoom(p) PROVE BufferInv'
  <2>1. Buffer!TypeOK'
        BY <1>t, <1>3 DEF Buffer!AwaitRoom, Buffer!Goto, Buffer!TypeOK
  <2>2. BufferControl'
        BY <1>t, <1>3 DEF Buffer!AwaitRoom, Buffer!Goto, Buffer!TypeOK, BufferControl
  <2> QED BY <1>t, <1>2, <1>3, <2>1, <2>2
          DEF Buffer!AwaitRoom, Buffer!Goto, Buffer!TypeOK
<1>4. ASSUME NEW c \in B,
             \/ Buffer!CheckStopped(c) \/ Buffer!CheckEmpty(c)
             \/ Buffer!AwaitItem(c) \/ Buffer!Expire(c) \/ Buffer!GiveUp(c)
      PROVE  BufferInv'
  <2>1. UNCHANGED <<q, production_stopped, made, got, buffer_main>>
        BY <1>4 DEF Buffer!CheckStopped, Buffer!CheckEmpty, Buffer!AwaitItem,
                    Buffer!Expire, Buffer!GiveUp
  <2>2. PICK dest \in {"checking", "stopped", "locking", "parked", "expired", "exited"} :
          /\ buffer_pc' = [buffer_pc EXCEPT ![c] = dest]
          /\ buffer_pc[c] # "exited"
          /\ dest = "stopped" => production_stopped
          /\ dest = "exited" => production_stopped /\ q = <<>>
        BY <1>t, <1>4 DEF Buffer!CheckStopped, Buffer!CheckEmpty, Buffer!AwaitItem,
                          Buffer!Expire, Buffer!GiveUp, Buffer!Goto, BufferControl
  <2>3. /\ Buffer!TypeOK'
        /\ \A p \in A : buffer_pc'[p] = buffer_pc[p]
        /\ \A d \in B : d # c => buffer_pc'[d] = buffer_pc[d]
        /\ buffer_pc'[c] = dest
        BY <1>t, <2>1, <2>2 DEF Buffer!TypeOK
  <2>4. buffer_main # "finished"
        BY <1>t, <2>2 DEF BufferControl
  <2>5. BufferControl'
        BY <1>t, <2>1, <2>2, <2>3, <2>4 DEF BufferControl
  <2> QED BY <1>2, <2>1, <2>3, <2>5
<1>5. CASE Buffer!StopProduction
  <2>1. Buffer!TypeOK' /\ BufferControl'
        BY <1>t, <1>5 DEF Buffer!StopProduction, Buffer!TypeOK, BufferControl
  <2> QED BY <1>2, <1>5, <2>1 DEF Buffer!StopProduction
<1>6. CASE Buffer!NotifyConsumers
  <2>1. UNCHANGED <<q, production_stopped, made, got>> /\ buffer_main' = "draining"
        /\ buffer_main = "stopping"
        BY <1>6 DEF Buffer!NotifyConsumers
  <2>2. /\ buffer_pc' \in [A \cup B -> {"locking", "parked", "checking", "stopped",
                                        "expired", "exited"}]
        /\ \A p \in A : buffer_pc'[p] = buffer_pc[p]
        /\ \A c \in B : buffer_pc'[c] = IF buffer_pc[c] = "parked" THEN "locking"
                                        ELSE buffer_pc[c]
        BY <1>t, <1>6 DEF Buffer!NotifyConsumers, Buffer!Notified, Buffer!TypeOK
  <2>3. Buffer!TypeOK'
        BY <1>t, <2>1, <2>2 DEF Buffer!TypeOK
  <2>4. BufferControl'
        BY <1>t, <2>1, <2>2 DEF BufferControl
  <2> QED BY <1>2, <2>1, <2>2, <2>3, <2>4
<1>7. CASE Buffer!JoinConsumers
  <2>1. Buffer!TypeOK' /\ BufferControl'
        BY <1>t, <1>7 DEF Buffer!JoinConsumers, Buffer!TypeOK, BufferControl
  <2> QED BY <1>2, <1>7, <2>1 DEF Buffer!JoinConsumers
<1>8. CASE RunBuffer
      BY <1>3, <1>4, <1>5, <1>6, <1>7, <1>8, ProduceStep, ConsumeStep
      DEF RunBuffer, Buffer!Next, Buffer!Producer, Buffer!Consumer, Buffer!Main
<1> QED BY <1>1, <1>8 DEF Next, vars, RunSlot, RunRW, RunOrder, RunLatch,
                          RunMpsc, RunStack, RunLesson

LEMMA BufferInit == Init => BufferInv
<1> SUFFICES ASSUME Buffer!Init PROVE BufferInv
    BY DEF Init
<1> USE ExercisesAssumption DEF Buffer!Init, Buffer!Threads
<1>1. Buffer!TypeOK
  <2>1. q \in Seq(A \X (0..Items - 1))
        OBVIOUS
  <2>2. made \in [A -> 0..Items] /\ got \in [A -> Seq(0..Items - 1)]
        OBVIOUS
  <2>3. buffer_pc \in [A \cup B -> {"locking", "parked", "checking", "stopped",
                                    "expired", "exited"}]
        OBVIOUS
  <2> QED BY <2>1, <2>2, <2>3 DEF Buffer!TypeOK
<1>2. BufferControl
      BY DEF BufferControl
<1>3. Buffer!WithinStock /\ Buffer!EachOnceInOrder /\ Buffer!ProducersAwake
      BY DEF Buffer!WithinStock, Buffer!EachOnceInOrder, Buffer!ProducersAwake
<1> QED BY <1>1, <1>2, <1>3 DEF BufferInv

\* When the queue is empty everything that was made has been printed.
LEMMA BufferDrained == BufferInv => Buffer!Drained
<1> SUFFICES ASSUME BufferInv, buffer_main = "finished", NEW p \in A
             PROVE  Len(got[p]) = Items
    BY DEF Buffer!Drained
<1>t. Buffer!TypeOK /\ BufferControl /\ Buffer!EachOnceInOrder
      BY DEF BufferInv
<1>1. q = <<>> /\ production_stopped
      BY <1>t, ExercisesAssumption DEF BufferControl
<1>2. made[p] = Items /\ Len(got[p]) <= made[p]
      BY <1>t, <1>1 DEF BufferControl
<1>3. Len(got[p]) \in Nat /\ Items \in Nat
      BY <1>t, ExercisesAssumption DEF Buffer!TypeOK
<1>4. ASSUME Len(got[p]) < made[p] PROVE FALSE
  <2>1. Len(got[p]) \in Len(got[p])..made[p] - 1
        BY <1>2, <1>3, <1>4
  <2>2. \E k \in 1..Len(q) : q[k] = <<p, Len(got[p])>>
        BY <1>t, <2>1 DEF Buffer!EachOnceInOrder
  <2> QED BY <1>1, <2>2
<1> QED BY <1>2, <1>3, <1>4

-----------------------------------------------------------------------------
\* The linked queue.

Pushed == A \X (1..Items)

\* The node that carries the k-th item, in the order of the exchanges.
NodeAt(k) == IF k = 0 THEN Dummy ELSE order[k]

\* Each item that a producer has exchanged is in the order, once.
OrderExact ==
  /\ \A k \in 1..Len(order) : order[k][2] <= pushed[order[k][1]]
  /\ \A k, l \in 1..Len(order) : order[k] = order[l] => k = l
  /\ \A p \in A : \A i \in 1..pushed[p] : \E k \in 1..Len(order) : order[k] = <<p, i>>
  /\ tail_ = NodeAt(Len(order))

\* The link to the next node is made, or its producer has still to make it.
Linked(k) == /\ next[NodeAt(k)] = order[k + 1]
             /\ \A p \in A : prev_tail[p] # NodeAt(k)

Unlinked(k, p) == /\ next[NodeAt(k)] = NoCargo
                  /\ prev_tail[p] = NodeAt(k)
                  /\ order[k + 1] = <<p, pushed[p]>>

Links ==
  /\ \A k \in 0..Len(order) - 1 : Linked(k) \/ \E p \in A : Unlinked(k, p)
  /\ \A p \in A : prev_tail[p] # NoCargo => \E k \in 0..Len(order) - 1 : Unlinked(k, p)
  /\ next[tail_] = NoCargo
  /\ \A x \in Pushed : x[2] > pushed[x[1]] => next[x] = NoCargo

\* The consumer has passed a part of the order, whose nodes are deleted.
Consumed ==
  /\ Len(taken) <= Len(order)
  /\ \A k \in 1..Len(taken) : taken[k] = order[k]
  /\ \A k \in 0..Len(taken) - 1 : Linked(k)
  /\ head_ # NoCargo => /\ head_ = NodeAt(Len(taken))
                        /\ freed = {NodeAt(k) : k \in 0..Len(taken) - 1}
  /\ head_ = NoCargo => consumer = "destroying" /\ freed = Pushed \cup {Dummy}
  /\ consumer = "moving" => next[head_] # NoCargo
  /\ consumer \in {"draining", "destroying"} => Mpsc!ProducersDone
  /\ consumer = "destroying" => Len(taken) = Len(order)

MpscInv == Mpsc!TypeOK /\ OrderExact /\ Links /\ Consumed

\* Different places hold different nodes.
LEMMA NodesApart ==
  ASSUME MpscInv
  PROVE  /\ Len(order) \in Nat /\ Len(taken) \in Nat
         /\ \A k \in 0..Len(order) : NodeAt(k) \in Pushed \cup {Dummy}
         /\ \A k \in 1..Len(order) : order[k] \in Pushed
         /\ \A k, l \in 0..Len(order) : NodeAt(k) = NodeAt(l) => k = l
         /\ NoCargo \notin Pushed \cup {Dummy} /\ Dummy \notin Pushed
<1> USE NodesAssumption DEF Pushed
<1>1. order \in Seq(Pushed) /\ taken \in Seq(Pushed)
      BY DEF MpscInv, Mpsc!TypeOK, Mpsc!AllItems
<1>2. Len(order) \in Nat /\ Len(taken) \in Nat
      BY <1>1
<1>3. \A k \in 1..Len(order) : order[k] \in Pushed
      BY <1>1, ElementOfSeq
<1>4. NoCargo \notin Pushed \cup {Dummy} /\ Dummy \notin Pushed
      OBVIOUS
<1>5. \A k \in 0..Len(order) : NodeAt(k) \in Pushed \cup {Dummy}
      BY <1>2, <1>3 DEF NodeAt
<1>6. ASSUME NEW k \in 0..Len(order), NEW l \in 0..Len(order), NodeAt(k) = NodeAt(l)
      PROVE  k = l
  <2>1. CASE k = 0 \/ l = 0
        BY <1>2, <1>3, <1>4, <1>6, <2>1 DEF NodeAt
  <2>2. CASE k # 0 /\ l # 0
        BY <1>2, <1>6, <2>2 DEF NodeAt, MpscInv, OrderExact
  <2> QED BY <2>1, <2>2
<1> QED BY <1>2, <1>3, <1>4, <1>5, <1>6

\* push exchanges its node into tail_.
LEMMA ExchangeStep ==
  ASSUME MpscInv, NEW p \in A, Mpsc!Exchange(p)
  PROVE  MpscInv'
<1> PICK n, h, item : n = Len(order) /\ h = Len(taken) /\ item = <<p, pushed[p] + 1>>
    OBVIOUS
<1>a. Mpsc!TypeOK /\ OrderExact /\ Links /\ Consumed
      BY DEF MpscInv
<1>b. /\ n \in Nat /\ h \in Nat
      /\ \A k \in 0..n : NodeAt(k) \in Pushed \cup {Dummy}
      /\ \A k \in 1..n : order[k] \in Pushed
      /\ \A k, l \in 0..n : NodeAt(k) = NodeAt(l) => k = l
      /\ NoCargo \notin Pushed \cup {Dummy} /\ Dummy \notin Pushed
      BY NodesApart
<1>c. /\ prev_tail[p] = NoCargo /\ pushed[p] < Items
      /\ prev_tail' = [prev_tail EXCEPT ![p] = tail_]
      /\ tail_' = item
      /\ pushed' = [pushed EXCEPT ![p] = @ + 1]
      /\ order' = Append(order, item)
      /\ UNCHANGED <<head_, next, freed, consumer, taken>>
      BY DEF Mpsc!Exchange
<1>d. /\ pushed \in [A -> 0..Items]
      /\ prev_tail \in [A -> Pushed \cup {Dummy, NoCargo}]
      /\ next \in [Pushed \cup {Dummy} -> Pushed \cup {Dummy, NoCargo}]
      /\ order \in Seq(Pushed)
      BY <1>a DEF Mpsc!TypeOK, Mpsc!Nodes, Mpsc!AllItems, Pushed
<1>1. pushed[p] \in Nat /\ item \in Pushed
      BY <1>c, <1>d, ExercisesAssumption DEF Pushed
<1>2. /\ Len(order') = n + 1 /\ order'[n + 1] = item
      /\ \A k \in 1..n : order'[k] = order[k]
      /\ order' \in Seq(Pushed)
      BY <1>b, <1>c, <1>d, <1>1
<1>3. NodeAt(n + 1)' = item /\ \A k \in 0..n : NodeAt(k)' = NodeAt(k)
      BY <1>b, <1>2 DEF NodeAt
<1>4. /\ pushed'[p] = pushed[p] + 1 /\ \A r \in A : r # p => pushed'[r] = pushed[r]
      /\ pushed' \in [A -> 0..Items]
      BY <1>c, <1>d, <1>1, ExercisesAssumption
<1>5. /\ prev_tail'[p] = NodeAt(n) /\ tail_ = NodeAt(n)
      /\ \A r \in A : r # p => prev_tail'[r] = prev_tail[r]
      /\ prev_tail' \in [A -> Pushed \cup {Dummy, NoCargo}]
      BY <1>a, <1>b, <1>c, <1>d DEF OrderExact
<1>6. \A k \in 1..n : order[k] # item
      BY <1>a, <1>1 DEF OrderExact
<1>7. Mpsc!TypeOK'
      BY <1>a, <1>c, <1>1, <1>2, <1>4, <1>5
      DEF Mpsc!TypeOK, Mpsc!Nodes, Mpsc!AllItems, Pushed
<1>8. OrderExact'
  <2>1. \A k \in 1..n + 1 : order'[k][2] <= pushed'[order'[k][1]]
    <3>1. ASSUME NEW k \in 1..n PROVE order'[k][2] <= pushed'[order'[k][1]]
      <4>1. /\ order'[k] = order[k] /\ order[k][2] <= pushed[order[k][1]]
            /\ order[k][1] \in A /\ order[k][2] \in Nat
            BY <1>a, <1>b, <1>2, ExercisesAssumption DEF OrderExact, Pushed
      <4>2. pushed[order[k][1]] \in Nat
            BY <1>d, <4>1, ExercisesAssumption
      <4> QED BY <1>1, <1>4, <4>1, <4>2
    <3> QED BY <1>b, <1>1, <1>2, <1>4, <3>1
  <2>2. \A k, l \in 1..n + 1 : order'[k] = order'[l] => k = l
        BY <1>a, <1>b, <1>2, <1>6 DEF OrderExact
  <2>3. ASSUME NEW r \in A, NEW i \in 1..pushed'[r]
        PROVE  \E k \in 1..n + 1 : order'[k] = <<r, i>>
    <3>1. CASE r = p /\ i = pushed[p] + 1
          BY <1>b, <1>2, <3>1
    <3>2. CASE ~(r = p /\ i = pushed[p] + 1)
      <4>1. i \in 1..pushed[r]
            BY <1>1, <1>4, <3>2
      <4>2. PICK k \in 1..n : order[k] = <<r, i>>
            BY <1>a, <4>1 DEF OrderExact
      <4>3. k \in 1..n + 1 /\ order'[k] = <<r, i>>
            BY <1>b, <1>2, <4>2
      <4> QED BY <4>3
    <3> QED BY <3>1, <3>2
  <2>4. tail_' = NodeAt(n + 1)'
        BY <1>c, <1>3
  <2> QED BY <1>2, <2>1, <2>2, <2>3, <2>4 DEF OrderExact
<1>9. ASSUME NEW k \in 0..n - 1, Linked(k) PROVE Linked(k)'
  <2>1. k \in 0..n /\ k # n /\ n \in 0..n /\ k + 1 \in 1..n
        BY <1>b
  <2>2. NodeAt(k) # NodeAt(n)
        BY <1>b, <2>1
  <2> QED BY <1>2, <1>3, <1>5, <1>9, <1>c, <2>1, <2>2 DEF Linked
<1>10. ASSUME NEW k \in 0..n - 1, NEW r \in A, Unlinked(k, r)
       PROVE  Unlinked(k, r)'
  <2>1. k \in 0..n /\ k + 1 \in 1..n
        BY <1>b
  <2>2. r # p
        BY <1>b, <1>c, <1>10, <2>1 DEF Unlinked
  <2> QED BY <1>2, <1>3, <1>4, <1>5, <1>10, <1>c, <2>1, <2>2 DEF Unlinked
<1>11. Unlinked(n, p)'
  <2>1. n \in 0..n
        BY <1>b
  <2> QED BY <1>a, <1>c, <1>2, <1>3, <1>4, <1>5, <2>1 DEF Unlinked, Links
<1>12. Links'
  <2>n. Len(order') - 1 = n
        BY <1>b, <1>2
  <2>1. \A k \in 0..Len(order') - 1 : Linked(k)' \/ \E r \in A : Unlinked(k, r)'
        BY <1>a, <1>b, <1>9, <1>10, <1>11, <2>n DEF Links
  <2>2. ASSUME NEW r \in A, prev_tail'[r] # NoCargo
        PROVE  \E k \in 0..Len(order') - 1 : Unlinked(k, r)'
    <3>1. CASE r = p
          BY <1>b, <1>11, <2>n, <3>1
    <3>2. CASE r # p
          BY <1>a, <1>b, <1>5, <1>10, <2>2, <2>n, <3>2 DEF Links
    <3> QED BY <3>1, <3>2
  <2>3. next'[tail_'] = NoCargo
        BY <1>a, <1>c, <1>1 DEF Links
  <2>4. ASSUME NEW x \in Pushed, x[2] > pushed'[x[1]] PROVE next'[x] = NoCargo
    <3>1. x[1] \in A /\ x[2] \in Nat /\ pushed[x[1]] \in Nat
          BY <1>d, ExercisesAssumption DEF Pushed
    <3>2. x[2] > pushed[x[1]]
          BY <1>1, <1>4, <2>4, <3>1
    <3> QED BY <1>a, <1>c, <3>2 DEF Links
  <2>5. \A x \in Pushed : x[2] > pushed'[x[1]] => next'[x] = NoCargo
        BY <2>4
  <2> QED BY <2>1, <2>2, <2>3, <2>5, Zenon DEF Links
<1>13. Consumed'
  <2>1. consumer \notin {"draining", "destroying"} /\ head_ # NoCargo
    <3>1. ~Mpsc!ProducersDone
          BY <1>1, <1>c, ExercisesAssumption DEF Mpsc!ProducersDone
    <3> QED BY <1>a, <3>1 DEF Consumed
  <2>2. h \in 0..n
        BY <1>a, <1>b DEF Consumed
  <2>3. \A k \in 0..h - 1 : Linked(k)'
        BY <1>a, <1>b, <1>9, <2>2 DEF Consumed
  <2>4. {NodeAt(k)' : k \in 0..h - 1} = {NodeAt(k) : k \in 0..h - 1}
        BY <1>b, <1>3, <2>2
  <2>5. NodeAt(h)' = NodeAt(h)
        BY <1>c, <1>3, <2>2 DEF NodeAt
  <2>6. \A k \in 1..h : taken'[k] = order'[k]
        BY <1>a, <1>b, <1>c, <1>2, <2>2 DEF Consumed
  <2>7. Len(taken') = h /\ h <= Len(order')
        BY <1>b, <1>c, <1>2, <2>2
  <2>8. head_' = NodeAt(h)' /\ freed' = {NodeAt(k)' : k \in 0..h - 1}
        BY <1>a, <1>c, <2>1, <2>4, <2>5 DEF Consumed
  <2>9. consumer' = "moving" => next'[head_'] # NoCargo
        BY <1>a, <1>c DEF Consumed
  <2>10. consumer' \notin {"draining", "destroying"} /\ head_' # NoCargo
         BY <1>c, <2>1
  <2> QED BY <2>3, <2>6, <2>7, <2>8, <2>9, <2>10 DEF Consumed
<1> QED BY <1>7, <1>8, <1>12, <1>13 DEF MpscInv

\* push links its predecessor.
LEMMA LinkStep ==
  ASSUME MpscInv, NEW p \in A, Mpsc!Link(p)
  PROVE  MpscInv'
<1> PICK n, h : n = Len(order) /\ h = Len(taken)
    OBVIOUS
<1>a. Mpsc!TypeOK /\ OrderExact /\ Links /\ Consumed
      BY DEF MpscInv
<1>b. /\ n \in Nat /\ h \in Nat
      /\ \A k \in 0..n : NodeAt(k) \in Pushed \cup {Dummy}
      /\ \A k \in 1..n : order[k] \in Pushed
      /\ \A k, l \in 0..n : NodeAt(k) = NodeAt(l) => k = l
      /\ NoCargo \notin Pushed \cup {Dummy} /\ Dummy \notin Pushed
      BY NodesApart
<1>c. /\ prev_tail[p] # NoCargo
      /\ next' = [next EXCEPT ![prev_tail[p]] = <<p, pushed[p]>>]
      /\ prev_tail' = [prev_tail EXCEPT ![p] = NoCargo]
      /\ UNCHANGED <<head_, tail_, freed, pushed, consumer, taken, order>>
      BY DEF Mpsc!Link
<1>d. /\ prev_tail \in [A -> Pushed \cup {Dummy, NoCargo}]
      /\ next \in [Pushed \cup {Dummy} -> Pushed \cup {Dummy, NoCargo}]
      BY <1>a DEF Mpsc!TypeOK, Mpsc!Nodes, Mpsc!AllItems, Pushed
<1>1. PICK m \in 0..n - 1 : Unlinked(m, p)
      BY <1>a, <1>c DEF Links
<1>2. /\ m \in 0..n /\ m # n /\ m + 1 \in 1..n
      /\ prev_tail[p] = NodeAt(m) /\ order[m + 1] = <<p, pushed[p]>>
      /\ next[NodeAt(m)] = NoCargo
      BY <1>b, <1>1 DEF Unlinked
<1>3. /\ next'[NodeAt(m)] = order[m + 1]
      /\ \A x \in Pushed \cup {Dummy} : x # NodeAt(m) => next'[x] = next[x]
      /\ next' \in [Pushed \cup {Dummy} -> Pushed \cup {Dummy, NoCargo}]
      BY <1>b, <1>c, <1>d, <1>2
<1>4. /\ prev_tail'[p] = NoCargo
      /\ \A r \in A : r # p => prev_tail'[r] = prev_tail[r]
      /\ prev_tail' \in [A -> Pushed \cup {Dummy, NoCargo}]
      BY <1>c, <1>d
<1>5. \A r \in A : r # p => prev_tail[r] # NodeAt(m)
  <2> SUFFICES ASSUME NEW r \in A, prev_tail[r] = NodeAt(m) PROVE r = p
      OBVIOUS
  <2>1. prev_tail[r] # NoCargo
        BY <1>b, <1>2
  <2>2. PICK k \in 0..n - 1 : Unlinked(k, r)
        BY <1>a, <2>1 DEF Links
  <2>3. k \in 0..n /\ NodeAt(k) = NodeAt(m) /\ order[k + 1] = <<r, pushed[r]>>
        BY <1>b, <2>2 DEF Unlinked
  <2>4. k = m
        BY <1>b, <1>2, <2>3
  <2> QED BY <1>2, <2>3, <2>4
<1>6. \A k \in 0..n : NodeAt(k)' = NodeAt(k)
      BY <1>c DEF NodeAt
<1>7. Linked(m)'
      BY <1>b, <1>c, <1>2, <1>3, <1>4, <1>5, <1>6 DEF Linked
<1>8. ASSUME NEW k \in 0..n - 1, Linked(k) PROVE Linked(k)'
  <2>1. k \in 0..n /\ NodeAt(k) # NodeAt(m) /\ NodeAt(k) \in Pushed \cup {Dummy}
        BY <1>b, <1>2, <1>8 DEF Linked
  <2> QED BY <1>b, <1>c, <1>3, <1>4, <1>6, <1>8, <2>1 DEF Linked
<1>9. ASSUME NEW k \in 0..n - 1, NEW r \in A, Unlinked(k, r), k # m
      PROVE  Unlinked(k, r)'
  <2>1. k \in 0..n /\ NodeAt(k) # NodeAt(m) /\ NodeAt(k) \in Pushed \cup {Dummy}
        BY <1>b, <1>2, <1>9
  <2>2. r # p
        BY <1>2, <1>9, <2>1 DEF Unlinked
  <2> QED BY <1>c, <1>3, <1>4, <1>6, <1>9, <2>1, <2>2 DEF Unlinked
<1>10. Mpsc!TypeOK'
       BY <1>a, <1>c, <1>3, <1>4 DEF Mpsc!TypeOK, Mpsc!Nodes, Mpsc!AllItems, Pushed
<1>11. OrderExact'
       BY <1>a, <1>c DEF OrderExact, NodeAt
<1>12. Links'
  <2>1. \A k \in 0..n - 1 : Linked(k)' \/ \E r \in A : Unlinked(k, r)'
        BY <1>a, <1>7, <1>8, <1>9 DEF Links
  <2>2. ASSUME NEW r \in A, prev_tail'[r] # NoCargo
        PROVE  \E k \in 0..n - 1 : Unlinked(k, r)'
    <3>1. r # p /\ prev_tail[r] # NoCargo
          BY <1>4, <2>2
    <3>2. PICK k \in 0..n - 1 : Unlinked(k, r)
          BY <1>a, <3>1 DEF Links
    <3>3. k # m
          BY <1>5, <3>1, <3>2 DEF Unlinked
    <3> QED BY <1>9, <3>2, <3>3
  <2>3. next'[tail_] = NoCargo
    <3>1. tail_ = NodeAt(n) /\ NodeAt(n) # NodeAt(m) /\ NodeAt(n) \in Pushed \cup {Dummy}
          BY <1>a, <1>b, <1>2 DEF OrderExact
    <3> QED BY <1>a, <1>3, <3>1 DEF Links
  <2>4. ASSUME NEW x \in Pushed, x[2] > pushed[x[1]] PROVE next'[x] = NoCargo
    <3>1. x # NodeAt(m)
      <4>1. CASE m = 0
            BY <1>b, <4>1 DEF NodeAt
      <4>2. CASE m # 0
        <5>1. m \in 1..n /\ NodeAt(m) = order[m]
              BY <1>b, <1>2, <4>2 DEF NodeAt
        <5>2. order[m][2] <= pushed[order[m][1]]
              BY <1>a, <5>1 DEF OrderExact
        <5>3. x[1] \in A /\ x[2] \in Nat /\ pushed[x[1]] \in Nat
              BY <1>a, ExercisesAssumption DEF Pushed, Mpsc!TypeOK
        <5> QED BY <2>4, <5>1, <5>2, <5>3
      <4> QED BY <4>1, <4>2
    <3> QED BY <1>a, <1>3, <2>4, <3>1 DEF Links
  <2> QED BY <1>c, <2>1, <2>2, <2>3, <2>4 DEF Links
<1>13. Consumed'
  <2>1. consumer \notin {"draining", "destroying"} /\ head_ # NoCargo
    <3>1. ~Mpsc!ProducersDone
          BY <1>c DEF Mpsc!ProducersDone
    <3> QED BY <1>a, <3>1 DEF Consumed
  <2>2. h \in 0..n
        BY <1>a, <1>b DEF Consumed
  <2>3. \A k \in 0..h - 1 : Linked(k)'
        BY <1>a, <1>b, <1>8, <2>2 DEF Consumed
  <2>4. {NodeAt(k)' : k \in 0..h - 1} = {NodeAt(k) : k \in 0..h - 1}
        BY <1>b, <1>6, <2>2
  <2>5. consumer = "moving" => next'[head_] # NoCargo
    <3>1. head_ = NodeAt(h) /\ head_ \in Pushed \cup {Dummy}
          BY <1>a, <1>b, <2>1, <2>2 DEF Consumed
    <3>2. order[m + 1] # NoCargo
          BY <1>b, <1>2
    <3> QED BY <1>a, <1>3, <3>1, <3>2 DEF Consumed
  <2> QED BY <1>a, <1>c, <1>6, <2>1, <2>2, <2>3, <2>4, <2>5 DEF Consumed
<1> QED BY <1>10, <1>11, <1>12, <1>13 DEF MpscInv

\* The consumer: its sentinel lives, and what it finds is the next item.
LEMMA Front ==
  ASSUME MpscInv, head_ # NoCargo
  PROVE  /\ head_ = NodeAt(Len(taken)) /\ Len(taken) \in 0..Len(order)
         /\ head_ \in Pushed \cup {Dummy} /\ head_ \notin freed
         /\ next[head_] # NoCargo =>
              /\ Len(taken) < Len(order) /\ next[head_] = order[Len(taken) + 1]
              /\ Linked(Len(taken)) /\ next[head_] = NodeAt(Len(taken) + 1)
         /\ next[head_] = NoCargo /\ Mpsc!ProducersDone => Len(taken) = Len(order)
<1> DEFINE n == Len(order)
           h == Len(taken)
<1>a. OrderExact /\ Links /\ Consumed
      BY DEF MpscInv
<1>b. /\ n \in Nat /\ h \in Nat
      /\ \A k \in 0..n : NodeAt(k) \in Pushed \cup {Dummy}
      /\ \A k \in 1..n : order[k] \in Pushed
      /\ \A k, l \in 0..n : NodeAt(k) = NodeAt(l) => k = l
      /\ NoCargo \notin Pushed \cup {Dummy} /\ Dummy \notin Pushed
      BY NodesApart
<1>1. head_ = NodeAt(h) /\ h \in 0..n /\ freed = {NodeAt(k) : k \in 0..h - 1}
      BY <1>a, <1>b DEF Consumed
<1>2. head_ \notin freed
  <2> SUFFICES ASSUME NEW k \in 0..h - 1, NodeAt(k) = NodeAt(h) PROVE FALSE
      BY <1>1
  <2>1. k \in 0..n /\ k # h
        BY <1>b, <1>1
  <2> QED BY <1>b, <1>1, <2>1
<1>3. CASE h = n
  <2>1. next[head_] = NoCargo
        BY <1>a, <1>1, <1>3 DEF OrderExact, Links
  <2> QED BY <1>b, <1>1, <1>2, <1>3, <2>1
<1>4. CASE h < n
  <2>1. h \in 0..n - 1 /\ h + 1 \in 1..n
        BY <1>b, <1>1, <1>4
  <2>2. Linked(h) \/ \E p \in A : Unlinked(h, p)
        BY <1>a, <2>1 DEF Links
  <2>3. CASE Linked(h)
    <3>1. next[head_] = order[h + 1] /\ order[h + 1] # NoCargo
          BY <1>b, <1>1, <2>1, <2>3 DEF Linked
    <3>2. order[h + 1] = NodeAt(h + 1)
          BY <1>b, <1>1 DEF NodeAt
    <3> QED BY <1>b, <1>1, <1>2, <1>4, <2>3, <3>1, <3>2
  <2>4. ASSUME NEW p \in A, Unlinked(h, p) PROVE next[head_] = NoCargo /\ ~Mpsc!ProducersDone
        BY <1>b, <1>1, <2>4 DEF Unlinked, Mpsc!ProducersDone
  <2> QED BY <1>b, <1>1, <1>2, <2>2, <2>3, <2>4
<1> QED BY <1>b, <1>1, <1>3, <1>4

LEMMA ConsumerStep ==
  ASSUME MpscInv, Mpsc!Consumer
  PROVE  MpscInv'
<1> PICK n, h : n = Len(order) /\ h = Len(taken)
    OBVIOUS
<1>a. Mpsc!TypeOK /\ OrderExact /\ Links /\ Consumed
      BY DEF MpscInv
<1>b. /\ n \in Nat /\ h \in Nat
      /\ \A k \in 0..n : NodeAt(k) \in Pushed \cup {Dummy}
      /\ \A k \in 1..n : order[k] \in Pushed
      /\ \A k, l \in 0..n : NodeAt(k) = NodeAt(l) => k = l
      /\ NoCargo \notin Pushed \cup {Dummy} /\ Dummy \notin Pushed
      BY NodesApart
<1>s. UNCHANGED <<tail_, next, pushed, prev_tail, order>>
      BY DEF Mpsc!Consumer, Mpsc!Found, Mpsc!Joined, Mpsc!NotFound, Mpsc!Move, Mpsc!Destroy
<1>0. OrderExact'
      BY <1>a, <1>s DEF OrderExact, NodeAt
<1>1. OrderExact' /\ Links'
  <2>1. \A k : /\ Linked(k)' <=> Linked(k)
               /\ \A p \in A : Unlinked(k, p)' <=> Unlinked(k, p)
        BY <1>s DEF Linked, Unlinked, NodeAt
  <2> QED BY <1>0, <1>a, <1>s, <2>1 DEF Links
<1>2. \A k \in 0..n : NodeAt(k)' = NodeAt(k)
      BY <1>s DEF NodeAt
<1>3. \A k \in 0..n - 1 : Linked(k) => Linked(k)'
      BY <1>s DEF Linked, NodeAt
<1>4. ASSUME UNCHANGED <<head_, freed, taken>>, head_ # NoCargo,
             consumer' \in {"draining", "moving", "destroying"},
             consumer' = "moving" => next[head_] # NoCargo,
             consumer' # "moving" => Mpsc!ProducersDone,
             consumer' = "destroying" => h = n
      PROVE  MpscInv'
  <2>1. Mpsc!TypeOK'
        BY <1>a, <1>s, <1>4 DEF Mpsc!TypeOK, Mpsc!Nodes, Mpsc!AllItems
  <2>2. Mpsc!ProducersDone' <=> Mpsc!ProducersDone
        BY <1>s DEF Mpsc!ProducersDone
  <2>3. {NodeAt(k)' : k \in 0..h - 1} = {NodeAt(k) : k \in 0..h - 1}
        BY <1>a, <1>b, <1>2 DEF Consumed
  <2>4. \A k \in 0..h - 1 : Linked(k)'
        BY <1>a, <1>b, <1>3 DEF Consumed
  <2>5. h \in 0..n
        BY <1>a, <1>b DEF Consumed
  <2>6. Consumed'
        BY <1>a, <1>s, <1>2, <1>4, <2>2, <2>3, <2>4, <2>5 DEF Consumed
  <2> QED BY <1>1, <2>1, <2>6 DEF MpscInv
<1>5. CASE Mpsc!Found \/ Mpsc!Joined \/ Mpsc!NotFound
  <2>1. head_ # NoCargo
        BY <1>a, <1>5 DEF Mpsc!Found, Mpsc!Joined, Mpsc!NotFound, Consumed
  <2>2. Mpsc!NotFound => h = n /\ Mpsc!ProducersDone
        BY <1>a, <2>1, Front DEF Mpsc!NotFound, Consumed
  <2> QED BY <1>4, <1>5, <2>1, <2>2 DEF Mpsc!Found, Mpsc!Joined, Mpsc!NotFound
<1>6. CASE Mpsc!Move
  <2>1. /\ consumer = "moving" /\ next[head_] # NoCargo /\ head_ # NoCargo
        /\ taken' = Append(taken, next[head_])
        /\ head_' = next[head_] /\ freed' = freed \cup {head_}
        /\ consumer' = "polling"
        BY <1>a, <1>6 DEF Mpsc!Move, Consumed
  <2>2. /\ head_ = NodeAt(h) /\ h \in 0..n /\ h < n /\ next[head_] = order[h + 1]
        /\ Linked(h) /\ next[head_] = NodeAt(h + 1) /\ head_ \in Pushed \cup {Dummy}
    <3>1. /\ head_ = NodeAt(Len(taken)) /\ Len(taken) \in 0..Len(order)
          /\ head_ \in Pushed \cup {Dummy}
          /\ Len(taken) < Len(order) /\ next[head_] = order[Len(taken) + 1]
          /\ Linked(Len(taken)) /\ next[head_] = NodeAt(Len(taken) + 1)
          BY <2>1, Front
    <3> QED BY <3>1
  <2>3. order[h + 1] \in Pushed /\ h + 1 \in 0..n
    <3>1. n \in Nat /\ h \in Nat /\ h < n
          BY <1>b, <2>2
    <3>2. h + 1 \in 1..n /\ h + 1 \in 0..n
          BY <3>1
    <3> QED BY <1>b, <3>2
  <2>4. taken \in Seq(Pushed)
        BY <1>a DEF Mpsc!TypeOK, Mpsc!AllItems, Pushed
  <2>5. /\ taken' \in Seq(Pushed) /\ Len(taken') = h + 1
        /\ taken'[h + 1] = order[h + 1]
        /\ \A k \in 1..h : taken'[k] = taken[k]
        BY <1>b, <2>1, <2>2, <2>3, <2>4
  <2>6. Mpsc!TypeOK'
        BY <1>a, <1>s, <2>1, <2>2, <2>3, <2>5
        DEF Mpsc!TypeOK, Mpsc!Nodes, Mpsc!AllItems, Pushed
  <2>7. \A k \in 1..h + 1 : taken'[k] = order[k]
        BY <1>a, <1>b, <2>5 DEF Consumed
  <2>8. \A k \in 0..h : Linked(k)'
        BY <1>a, <1>b, <1>3, <2>2 DEF Consumed
  <2>9. freed' = {NodeAt(k)' : k \in 0..h}
    <3>1. freed = {NodeAt(k) : k \in 0..h - 1}
          BY <1>a, <2>1 DEF Consumed
    <3>2. freed' = {NodeAt(k) : k \in 0..h}
          BY <1>b, <2>1, <2>2, <3>1
    <3> QED BY <1>2, <2>2, <3>2
  <2>10. head_' = NodeAt(h + 1)' /\ head_' # NoCargo
         BY <1>b, <1>2, <2>1, <2>2, <2>3
  <2>11. Len(taken') <= n /\ Len(taken') - 1 = h
         BY <1>b, <2>2, <2>5
  <2>12. Consumed'
         BY <1>s, <2>1, <2>5, <2>7, <2>8, <2>9, <2>10, <2>11 DEF Consumed
  <2> QED BY <1>1, <2>6, <2>12 DEF MpscInv
<1>7. CASE Mpsc!Destroy
  <2>1. /\ consumer = "destroying" /\ head_ # NoCargo /\ head_' = next[head_]
        /\ freed' = freed \cup {head_}
        /\ UNCHANGED <<consumer, taken>>
        BY <1>7 DEF Mpsc!Destroy
  <2>2. h = n /\ Mpsc!ProducersDone
        BY <1>a, <2>1 DEF Consumed
  <2>3. head_ = NodeAt(h) /\ head_ \in Pushed \cup {Dummy} /\ next[head_] = NoCargo
        BY <1>b, <2>1, <2>2, Front
  <2>4. freed' = Pushed \cup {Dummy}
    <3>1. freed = {NodeAt(k) : k \in 0..n - 1}
          BY <1>a, <2>1, <2>2 DEF Consumed
    <3>2. freed' = {NodeAt(k) : k \in 0..n}
          BY <1>b, <2>1, <2>2, <2>3, <3>1
    <3>3. ASSUME NEW x \in Pushed PROVE \E k \in 0..n : NodeAt(k) = x
      <4>1. x = <<x[1], x[2]>> /\ x[1] \in A /\ x[2] \in 1..Items
            BY DEF Pushed
      <4>2. x[2] \in 1..pushed[x[1]]
            BY <2>2, <4>1 DEF Mpsc!ProducersDone
      <4>3. PICK k \in 1..n : order[k] = x
            BY <1>a, <4>1, <4>2 DEF OrderExact
      <4>4. k \in 0..n /\ NodeAt(k) = x
            BY <1>b, <4>3 DEF NodeAt
      <4> QED BY <4>4
    <3>4. NodeAt(0) = Dummy /\ 0 \in 0..n
          BY <1>b DEF NodeAt
    <3> QED BY <1>b, <3>2, <3>3, <3>4
  <2>5. Mpsc!TypeOK'
        BY <1>a, <1>s, <2>1, <2>3, <2>4 DEF Mpsc!TypeOK, Mpsc!Nodes, Mpsc!AllItems, Pushed
  <2>6. \A k \in 0..h - 1 : Linked(k)'
        BY <1>a, <1>b, <1>3, <2>2 DEF Consumed
  <2>7. Mpsc!ProducersDone'
        BY <1>s, <2>2 DEF Mpsc!ProducersDone
  <2>8. head_' = NoCargo
        BY <2>1, <2>3
  <2>9. Consumed'
        BY <1>a, <1>s, <2>1, <2>2, <2>4, <2>6, <2>7, <2>8 DEF Consumed
  <2> QED BY <1>1, <2>5, <2>9 DEF MpscInv
<1> QED BY <1>5, <1>6, <1>7 DEF Mpsc!Consumer

\* MpscInv is inductive (lockfree_queue.cpp:132-213).
LEMMA MpscStep == MpscInv /\ [Next]_vars => MpscInv'
<1> SUFFICES ASSUME MpscInv, [Next]_vars PROVE MpscInv'
    OBVIOUS
<1>1. CASE UNCHANGED mpscVars
  <2>1. UNCHANGED <<head_, tail_, next, freed, pushed, prev_tail, consumer, taken, order>>
        BY <1>1 DEF mpscVars
  <2>2. Mpsc!TypeOK' /\ (Mpsc!ProducersDone' <=> Mpsc!ProducersDone)
        BY <2>1 DEF MpscInv, Mpsc!TypeOK, Mpsc!ProducersDone
  <2>3. \A k : NodeAt(k)' = NodeAt(k)
        BY <2>1 DEF NodeAt
  <2>4. \A k : /\ Linked(k)' <=> Linked(k)
               /\ \A p \in A : Unlinked(k, p)' <=> Unlinked(k, p)
        BY <2>1 DEF Linked, Unlinked, NodeAt
  <2>5. OrderExact'
        BY <2>1 DEF MpscInv, OrderExact, NodeAt
  <2>6. Links'
        BY <2>1, <2>4 DEF MpscInv, Links
  <2>7. Consumed'
        BY <2>1, <2>2, <2>3, <2>4 DEF MpscInv, Consumed, NodeAt
  <2> QED BY <2>2, <2>5, <2>6, <2>7 DEF MpscInv
<1>2. CASE RunMpsc
      BY <1>2, ExchangeStep, LinkStep, ConsumerStep
      DEF RunMpsc, Mpsc!Next, Mpsc!Producer
<1> QED BY <1>1, <1>2 DEF Next, vars, RunBuffer, RunSlot, RunRW, RunOrder,
                          RunLatch, RunStack, RunLesson

LEMMA MpscInit == Init => MpscInv
<1> SUFFICES ASSUME Mpsc!Init PROVE MpscInv
    BY DEF Init
<1> USE ExercisesAssumption, NodesAssumption DEF Mpsc!Init, NodeAt, Pushed
<1>1. order = <<>> /\ taken = <<>> /\ Len(order) = 0 /\ Len(taken) = 0
      OBVIOUS
<1>2. Mpsc!TypeOK
  <2>1. order \in Seq(Pushed) /\ taken \in Seq(Pushed)
        BY <1>1
  <2> QED BY <2>1 DEF Mpsc!TypeOK, Mpsc!Nodes, Mpsc!AllItems
<1>3. OrderExact
      BY <1>1 DEF OrderExact
<1>4. Links
      BY <1>1 DEF Links, Mpsc!Nodes, Mpsc!AllItems
<1>5. Consumed
      BY <1>1 DEF Consumed
<1> QED BY <1>2, <1>3, <1>4, <1>5 DEF MpscInv

\* What the invariant says of the queue.
LEMMA QueueSafe ==
  MpscInv => /\ Mpsc!TypeOK /\ Mpsc!NoUseAfterFree /\ Mpsc!Chain
             /\ Mpsc!Fifo /\ Mpsc!NothingLeft
<1> SUFFICES ASSUME MpscInv
             PROVE  /\ Mpsc!TypeOK /\ Mpsc!NoUseAfterFree /\ Mpsc!Chain
                    /\ Mpsc!Fifo /\ Mpsc!NothingLeft
    OBVIOUS
<1> DEFINE n == Len(order)
           h == Len(taken)
<1>a. Mpsc!TypeOK /\ OrderExact /\ Links /\ Consumed
      BY DEF MpscInv
<1>b. /\ n \in Nat /\ h \in Nat
      /\ \A k \in 0..n : NodeAt(k) \in Pushed \cup {Dummy}
      /\ \A k \in 1..n : order[k] \in Pushed
      /\ \A k, l \in 0..n : NodeAt(k) = NodeAt(l) => k = l
      /\ NoCargo \notin Pushed \cup {Dummy} /\ Dummy \notin Pushed
      BY NodesApart
<1>c. h \in 0..n
      BY <1>a, <1>b DEF Consumed
<1>d. order \in Seq(Pushed) /\ taken \in Seq(Pushed) /\ freed \in SUBSET (Pushed \cup {Dummy})
      BY <1>a DEF Mpsc!TypeOK, Mpsc!Nodes, Mpsc!AllItems, Pushed
<1>1. Mpsc!NoUseAfterFree
  <2>1. CASE head_ = NoCargo
    <3>1. consumer = "destroying" /\ \A p \in A : prev_tail[p] = NoCargo
          BY <1>a, <2>1 DEF Consumed, Mpsc!ProducersDone
    <3> QED BY <1>b, <1>d, <2>1, <3>1 DEF Mpsc!NoUseAfterFree
  <2>2. CASE head_ # NoCargo
    <3>1. freed = {NodeAt(k) : k \in 0..h - 1}
          BY <1>a, <2>2 DEF Consumed
    <3>2. ASSUME NEW p \in A PROVE prev_tail[p] \notin freed
      <4>1. CASE prev_tail[p] = NoCargo
            BY <1>b, <1>d, <4>1
      <4>2. CASE prev_tail[p] # NoCargo
        <5> SUFFICES ASSUME NEW k \in 0..h - 1, prev_tail[p] = NodeAt(k) PROVE FALSE
            BY <3>1
        <5> QED BY <1>a DEF Consumed, Linked
      <4> QED BY <4>1, <4>2
    <3>3. ASSUME consumer = "moving" PROVE next[head_] \notin freed
      <4>1. next[head_] = NodeAt(h + 1) /\ h + 1 \in 0..n
            BY <1>a, <1>b, <2>2, <3>3, Front DEF Consumed
      <4>2. \A k \in 0..h - 1 : k \in 0..n /\ k # h + 1
            BY <1>b, <1>c
      <4> QED BY <1>b, <3>1, <4>1, <4>2
    <3> QED BY <2>2, <3>2, <3>3, Front DEF Mpsc!NoUseAfterFree
  <2> QED BY <2>1, <2>2
<1>2. Mpsc!Chain
  <2> SUFFICES ASSUME NEW k \in 1..n
               PROVE  LET pred == IF k = 1 THEN Dummy ELSE order[k - 1] IN
                        \/ next[pred] = order[k]
                        \/ /\ next[pred] = NoCargo
                           /\ \E p \in A : /\ prev_tail[p] = pred
                                           /\ order[k] = <<p, pushed[p]>>
      BY DEF Mpsc!Chain
  <2>1. k - 1 \in 0..n - 1 /\ (k - 1) + 1 = k
        BY <1>b
  <2>2. NodeAt(k - 1) = IF k = 1 THEN Dummy ELSE order[k - 1]
        BY <2>1 DEF NodeAt
  <2>3. Linked(k - 1) \/ \E p \in A : Unlinked(k - 1, p)
        BY <1>a, <2>1 DEF Links
  <2> QED BY <2>1, <2>2, <2>3 DEF Linked, Unlinked
<1>3. Mpsc!Fifo
      BY <1>a, <1>b, <1>c, <1>d DEF Mpsc!Fifo, Mpsc!IsPrefix, Consumed
<1>4. Mpsc!NothingLeft
  <2> SUFFICES ASSUME head_ = NoCargo
               PROVE  Mpsc!ToSet(taken) = Mpsc!AllItems /\ freed = Mpsc!Nodes
      BY DEF Mpsc!NothingLeft
  <2>1. h = n /\ freed = Pushed \cup {Dummy} /\ Mpsc!ProducersDone
        BY <1>a DEF Consumed
  <2>2. \A k \in 1..n : taken[k] = order[k] /\ order[k] \in Pushed
        BY <1>a, <1>b, <2>1 DEF Consumed
  <2>3. ASSUME NEW x \in Pushed PROVE \E k \in 1..n : taken[k] = x
    <3>1. x = <<x[1], x[2]>> /\ x[1] \in A /\ x[2] \in 1..Items
          BY DEF Pushed
    <3>2. x[2] \in 1..pushed[x[1]]
          BY <2>1, <3>1 DEF Mpsc!ProducersDone
    <3>3. PICK k \in 1..n : order[k] = <<x[1], x[2]>>
          BY <1>a, <3>1, <3>2 DEF OrderExact
    <3> QED BY <2>2, <3>1, <3>3
  <2>4. DOMAIN taken = 1..n
        BY <1>d, <2>1
  <2> QED BY <2>1, <2>2, <2>3, <2>4
          DEF Mpsc!ToSet, Mpsc!AllItems, Mpsc!Nodes, Pushed
<1> QED BY <1>a, <1>1, <1>2, <1>3, <1>4

-----------------------------------------------------------------------------
\* What the exercises hand over arrives, once and in its order: the bounded
\* queue, the slot, the letters in turn, the latches and the linked queue, for
\* any number of producers, consumers, items and rounds.
THEOREM ExercisesCorrect == Spec => []ExercisesSafe
<1>1. Init => BufferInv /\ SlotInv /\ OrderInv /\ LatchInv /\ MpscInv
      BY BufferInit, SlotInit, OrderInit, LatchInit, MpscInit
<1>2. BufferInv /\ SlotInv /\ OrderInv /\ LatchInv /\ MpscInv => ExercisesSafe
      BY BufferDrained, LatchTyped, QueueSafe
      DEF BufferInv, SlotInv, OrderInv, OrderTyped, LatchInv, ExercisesSafe
<1> QED BY <1>1, <1>2, BufferStep, SlotStep, OrderStep, LatchStep, MpscStep,
       PTL DEF Spec

-----------------------------------------------------------------------------
\* The lock-free stacks.
\*
\* The invariant speaks of a sequence s of addresses that is the list in memory.
\* It says whose every node is, where every value is, and what a popping thread
\* may rely on: with a tag, that what it saw is on top or the tag has changed;
\* without, that nobody else pops.

\* The addresses in the list s, and those with a value that was pushed and not
\* yet returned: in the list, or of a thread that is about to delete its node.
InList(s)   == {s[k] : k \in 1..Len(s)}
Owners      == {c \in Few : at[c] = "owning"}
Resident(s) == InList(s) \cup {old_head[c].ptr : c \in Owners}

PushedValues == {v \in A \X (1..Ops) : v[2] <= pushes[v[1]]}

\* s is the list, and no node is in it twice.
StackList(s) ==
  /\ Stack!IsChain(s)
  /\ \A j, k \in 1..Len(s) : s[j] = s[k] => j = k

\* A node that is being pushed is linked to the top that its thread expects;
\* a living node is in the list, being pushed, or being deleted.
StackNodes(s) ==
  /\ \A p \in A : node[p] # NoCargo =>
       /\ pushes[p] < Ops
       /\ heap[node[p]] = [data |-> <<p, pushes[p] + 1>>,
                           next |-> old_head[p].ptr]
  /\ \A a \in Addresses : heap[a] # Freed =>
       a \in Resident(s) \/ \E p \in A : node[p] = a

\* Every pushed value is in one node at most, and in none once it is returned.
StackValues(s) ==
  /\ \A a \in Resident(s) :
       a \in Addresses /\ heap[a] # Freed
         /\ heap[a].data \in PushedValues \ popped
  /\ \A a, b \in Resident(s) : heap[a].data = heap[b].data => a = b
  /\ \A c \in Owners : old_head[c].ptr \notin InList(s)
  /\ \A c, d \in Owners : old_head[c].ptr = old_head[d].ptr => c = d
  /\ popped \subseteq PushedValues

\* The counter counts what was returned; the tag counts the exchanges.
StackCounts ==
  /\ Cardinality(popped) =
       total_popped + Cardinality({c \in Few : at[c] = "counting"})
  /\ top_.tag # Untagged =>
       top_.tag = Cardinality(PushedValues) + Cardinality(Stack!out)

\* What a popping thread knows: with a tag, that the top is another one if it
\* is not the one it saw; without, that its node is in the list, for nobody
\* else pops.  The successor that it read is right if its exchange succeeds.
StackHeads(s) ==
  /\ \A c \in Few : at[c] \in {"reading", "swapping"} =>
       /\ old_head[c].ptr # NoCargo
       /\ top_.tag = Untagged => old_head[c].ptr \in InList(s)
       /\ top_.tag # Untagged =>
            /\ old_head[c].tag # Untagged /\ old_head[c].tag <= top_.tag
            /\ old_head[c].tag = top_.tag => old_head[c] = top_
  /\ \A c \in Few :
       at[c] = "swapping" /\ (old_head[c] = top_ \/ top_.tag = Untagged)
         => new_ptr[c] = heap[old_head[c].ptr].next
  /\ top_.tag = Untagged =>
       \A c, d \in Few : at[c] # "gone" /\ at[d] # "gone" => c = d

StackInv(s) ==
  /\ Stack!TypeOK
  /\ StackList(s) /\ StackNodes(s) /\ StackValues(s)
  /\ StackCounts /\ StackHeads(s)

-----------------------------------------------------------------------------
\* What the operators say.

LEMMA StackCardinality == \A S : Stack!Cardinality(S) = Cardinality(S)
BY DEF Stack!Cardinality, Cardinality

\* The least number of a set.
LEMMA LeastOf ==
  ASSUME NEW T \in SUBSET Nat, T # {}
  PROVE  \E m \in T : \A k \in T : m <= k
<1> DEFINE R == {ss \in Nat \X Nat : ss[1] < ss[2]}
<1>1. IsWellFoundedOn(R, Nat)
      BY NatLessThanWellFounded DEF OpToRel
<1>2. PICK m \in T : \A k \in T : ~(<<k, m>> \in R)
  <2> HIDE DEF R
  <2> QED BY <1>1, WFMin
<1>3. \A k \in T : ~(k < m)
      BY <1>2
<1> QED BY <1>3

\* A path is a finite sequence of addresses, no longer than their number.
LEMMA PathFacts ==
  ASSUME NEW s
  PROVE  s \in Stack!Paths <=>
           s \in Seq(Addresses) /\ Len(s) <= Cardinality(Addresses)
<1>1. Cardinality(Addresses) \in Nat
      BY FS_CardinalityType, StackAssumption
<1>2. Stack!Paths = UNION {[1..m -> Addresses] :
                             m \in 0..Cardinality(Addresses)}
      BY StackCardinality DEF Stack!Paths, Stack!SeqOf
<1>3. ASSUME s \in Stack!Paths
      PROVE  s \in Seq(Addresses) /\ Len(s) <= Cardinality(Addresses)
  <2>1. PICK m \in 0..Cardinality(Addresses) : s \in [1..m -> Addresses]
        BY <1>2, <1>3
  <2>2. m \in Nat
        BY <1>1, <2>1
  <2>3. s \in Seq(Addresses)
        BY <2>1, <2>2, SeqDef
  <2>4. Len(s) = m
        BY <2>1, <2>2, <2>3, LenProperties
  <2> QED BY <1>1, <2>1, <2>3, <2>4
<1>4. ASSUME s \in Seq(Addresses), Len(s) <= Cardinality(Addresses)
      PROVE  s \in Stack!Paths
  <2>1. Len(s) \in 0..Cardinality(Addresses) /\ s \in [1..Len(s) -> Addresses]
        BY <1>1, <1>4, LenProperties
  <2> QED BY <1>2, <2>1
<1> QED BY <1>3, <1>4

\* Memory holds one list at most.
LEMMA OneList ==
  ASSUME NEW s \in Stack!Paths, NEW t \in Stack!Paths,
         Stack!IsChain(s), Stack!IsChain(t), NoCargo \notin Addresses
  PROVE  s = t
<1>1. PICK m, n : /\ m = Len(s) /\ m \in Nat /\ s \in [1..m -> Addresses]
                  /\ n = Len(t) /\ n \in Nat /\ t \in [1..n -> Addresses]
      BY PathFacts, LenProperties
<1>2. /\ \A k \in 1..m : Stack!After(s, k - 1) = s[k]
      /\ \A k \in 1..n : Stack!After(t, k - 1) = t[k]
      /\ Stack!After(s, m) = NoCargo /\ Stack!After(t, n) = NoCargo
      BY <1>1 DEF Stack!IsChain
\* As far as both go they agree.
<1>3. \A k \in 1..m : k <= n => s[k] = t[k]
  <2> DEFINE D == {k \in 1..m : k <= n /\ s[k] # t[k]}
  <2>1. SUFFICES ASSUME D # {} PROVE FALSE
        OBVIOUS
  <2>0. D \in SUBSET Nat
        BY <1>1
  <2>2. PICK k \in D : \A j \in D : k <= j
    <3> HIDE DEF D
    <3> QED BY <2>0, <2>1, LeastOf
  <2>3. CASE k = 1
        BY <1>1, <1>2, <2>2, <2>3 DEF Stack!After
  <2>4. CASE k # 1
    <3>1. k - 1 \in 1..m /\ k - 1 <= n /\ ~(k <= k - 1) /\ k - 1 # 0
          BY <1>1, <2>2, <2>4
    <3>2. s[k - 1] = t[k - 1]
          BY <2>2, <3>1
    <3>3. k \in 1..m /\ k \in 1..n
          BY <1>1, <2>2
    <3>4. s[k] = t[k]
          BY <1>2, <3>1, <3>2, <3>3 DEF Stack!After
    <3> QED BY <2>2, <3>4
  <2> QED BY <2>3, <2>4
\* What follows the end of the shorter one is in the longer one.
<1>4. ~(m < n)
  <2> SUFFICES ASSUME m < n PROVE FALSE
      OBVIOUS
  <2>1. m + 1 \in 1..n /\ (m + 1) - 1 = m
        BY <1>1
  <2>2. m # 0 => s[m] = t[m]
        BY <1>1, <1>3
  <2>3. Stack!After(t, m) = Stack!After(s, m)
        BY <2>2 DEF Stack!After
  <2>4. t[m + 1] = NoCargo
        BY <1>2, <2>1, <2>3
  <2> QED BY <1>1, <2>1, <2>4
<1>5. ~(n < m)
  <2> SUFFICES ASSUME n < m PROVE FALSE
      OBVIOUS
  <2>1. n + 1 \in 1..m /\ (n + 1) - 1 = n
        BY <1>1
  <2>2. n # 0 => s[n] = t[n]
        BY <1>1, <1>3
  <2>3. Stack!After(s, n) = Stack!After(t, n)
        BY <2>2 DEF Stack!After
  <2>4. s[n + 1] = NoCargo
        BY <1>2, <2>1, <2>3
  <2> QED BY <1>1, <2>1, <2>4
<1>6. m = n
  <2>1. m \in Nat /\ n \in Nat
        BY <1>1
  <2> QED BY <1>4, <1>5, <2>1
<1> QED
  <2>1. \A k \in 1..m : k <= n
        BY <1>1, <1>6
  <2>2. \A k \in 1..m : s[k] = t[k]
        BY <1>3, <2>1
  <2>3. s = [k \in 1..m |-> s[k]] /\ t = [k \in 1..m |-> t[k]]
        BY <1>1, <1>6
  <2> QED BY <2>2, <2>3

\* If there is a list, Reached is it.
LEMMA ReachedIs ==
  ASSUME NEW s \in Stack!Paths, Stack!IsChain(s)
  PROVE  Stack!Reached = s
<1>1. Stack!Reached \in Stack!Paths /\ Stack!IsChain(Stack!Reached)
      BY DEF Stack!Reached
<1> QED BY <1>1, OneList, StackAssumption

\* The values that there are.
LEMMA ValueBounds ==
  /\ IsFiniteSet(A \X (1..Ops)) /\ Stack!Values = A \X (1..Ops)
  /\ Stack!Total = Cardinality(A \X (1..Ops)) /\ Stack!Total \in Nat
  /\ \A S \in SUBSET (A \X (1..Ops)) :
       IsFiniteSet(S) /\ Cardinality(S) \in 0..Stack!Total
<1>1. IsFiniteSet(1..Ops) /\ Cardinality(1..Ops) = Ops
      BY FS_Interval, StackAssumption
<1>2. /\ IsFiniteSet(A \X (1..Ops))
      /\ Cardinality(A \X (1..Ops)) = Cardinality(A) * Ops
      BY <1>1, FS_Product, ExercisesAssumption
<1>3. Stack!Total = Cardinality(A \X (1..Ops))
      BY <1>2, StackCardinality DEF Stack!Total
<1>4. Cardinality(A \X (1..Ops)) \in Nat
      BY <1>2, FS_CardinalityType
<1>5. ASSUME NEW S \in SUBSET (A \X (1..Ops))
      PROVE  IsFiniteSet(S) /\ Cardinality(S) \in 0..Stack!Total
  <2>1. IsFiniteSet(S) /\ Cardinality(S) <= Cardinality(A \X (1..Ops))
        BY <1>2, FS_Subset
  <2>2. Cardinality(S) \in Nat
        BY <2>1, FS_CardinalityType
  <2> QED BY <1>3, <1>4, <2>1, <2>2
<1> QED BY <1>2, <1>3, <1>4, <1>5 DEF Stack!Values

-----------------------------------------------------------------------------
\* The state of the stack.

\* The list of a path: where it begins, what it leads through.
LEMMA ListFacts ==
  ASSUME NEW s \in Stack!Paths, StackInv(s)
  PROVE  /\ s \in [1..Len(s) -> Addresses] /\ Len(s) \in Nat
         /\ InList(s) \subseteq Addresses
         /\ \A k \in 1..Len(s) : s[k] \in InList(s) /\ heap[s[k]] # Freed
         /\ top_.ptr # NoCargo => Len(s) >= 1 /\ s[1] = top_.ptr
         /\ top_.ptr = NoCargo => s = << >>
<1>1. s \in Seq(Addresses) /\ s \in [1..Len(s) -> Addresses] /\ Len(s) \in Nat
      BY PathFacts, LenProperties
<1>2. InList(s) \subseteq Addresses
      BY <1>1 DEF InList
<1>3. \A k \in 1..Len(s) : s[k] \in InList(s) /\ heap[s[k]] # Freed
      BY DEF InList, StackInv, StackList, Stack!IsChain, Stack!Living
<1>4. top_.ptr # NoCargo => Len(s) >= 1 /\ s[1] = top_.ptr
  <2>1. Len(s) = 0 => top_.ptr = NoCargo
        BY DEF StackInv, StackList, Stack!IsChain, Stack!After
  <2>2. Len(s) >= 1 => s[1] = top_.ptr
        BY <1>1 DEF StackInv, StackList, Stack!IsChain, Stack!After
  <2> QED BY <1>1, <2>1, <2>2
<1>5. top_.ptr = NoCargo => Len(s) = 0
  <2>1. Len(s) >= 1 => s[1] = top_.ptr /\ s[1] \in Addresses
        BY <1>1 DEF StackInv, StackList, Stack!IsChain, Stack!After
  <2> QED BY <1>1, <2>1, StackAssumption
<1>6. Len(s) = 0 => s = << >>
      BY <1>1, EmptySeq
<1> QED BY <1>1, <1>2, <1>3, <1>4, <1>5, <1>6

\* A node that is being pushed is its thread's alone.
LEMMA NodeFacts ==
  ASSUME NEW s \in Stack!Paths, StackInv(s), NEW p \in A, node[p] # NoCargo
  PROVE  /\ node[p] \in Addresses /\ heap[node[p]] # Freed
         /\ node[p] \notin Resident(s)
         /\ \A r \in A : node[r] = node[p] => r = p
         /\ pushes[p] \in Nat /\ pushes[p] + 1 \in 1..Ops
         /\ heap[node[p]].data = <<p, pushes[p] + 1>>
         /\ heap[node[p]].next = old_head[p].ptr
         /\ <<p, pushes[p] + 1>> \notin PushedValues
<1>1. pushes[p] \in Nat /\ pushes[p] + 1 \in 1..Ops
  <2>1. pushes[p] \in 0..Ops
        BY DEF StackInv, Stack!TypeOK
  <2>2. pushes[p] < Ops
        BY DEF StackInv, StackNodes
  <2> QED BY <2>1, <2>2, StackAssumption
<1>2. node[p] \in Addresses
      BY DEF StackInv, Stack!TypeOK, Stack!Pointers
<1>3. /\ heap[node[p]] = [data |-> <<p, pushes[p] + 1>>,
                          next |-> old_head[p].ptr]
      /\ \A r \in A : node[r] # NoCargo =>
           heap[node[r]] = [data |-> <<r, pushes[r] + 1>>,
                            next |-> old_head[r].ptr]
      BY DEF StackInv, StackNodes
<1>4. heap[node[p]].data = <<p, pushes[p] + 1>>
      BY <1>3
<1>5. heap[node[p]] # Freed
  <2>1. old_head[p].ptr \in Addresses \cup {NoCargo}
        BY DEF StackInv, Stack!TypeOK, Stack!Heads, Stack!Pointers
  <2>2. heap[node[p]] \in [data : A \X (1..Ops), next : Addresses \cup {NoCargo}]
        BY <1>1, <1>3, <2>1
  <2> QED BY <2>2, StackAssumption
<1>6. <<p, pushes[p] + 1>> \notin PushedValues
      BY <1>1 DEF PushedValues
<1>7. node[p] \notin Resident(s)
      BY <1>4, <1>6 DEF StackInv, StackValues
<1>8. \A r \in A : node[r] = node[p] => r = p
  <2> SUFFICES ASSUME NEW r \in A, node[r] = node[p] PROVE r = p
      OBVIOUS
  <2>1. heap[node[r]] = [data |-> <<r, pushes[r] + 1>>,
                         next |-> old_head[r].ptr]
        BY <1>3
  <2>2. heap[node[r]].data = <<r, pushes[r] + 1>>
        BY <2>1
  <2> QED BY <1>4, <2>2
<1> QED BY <1>1, <1>2, <1>3, <1>4, <1>5, <1>6, <1>7, <1>8

\* The values that have left: returned, or in a node that is to be deleted.
LEMMA OutIs ==
  Stack!out = popped \cup {heap[old_head[c].ptr].data : c \in Owners}
<1>1. \A x : x \in UNION {Stack!Owned(c) : c \in Few}
               <=> \E c \in Owners : x = old_head[c].ptr
      BY DEF Stack!Owned, Owners
<1> QED BY <1>1 DEF Stack!out

LEMMA OutIsNext ==
  (Stack!out = popped \cup {heap[old_head[c].ptr].data : c \in Owners})'
BY OutIs, PTL

\* They are values of the program.
LEMMA OutBound ==
  ASSUME NEW s \in Stack!Paths, StackInv(s)
  PROVE  /\ PushedValues \subseteq A \X (1..Ops)
         /\ popped \subseteq A \X (1..Ops)
         /\ Stack!out \subseteq PushedValues
         /\ Stack!out \subseteq A \X (1..Ops)
<1>1. \A c \in Owners : heap[old_head[c].ptr].data \in PushedValues
      BY DEF StackInv, StackValues, Resident
<1>2. popped \subseteq PushedValues
      BY DEF StackInv, StackValues
<1>3. Stack!out \subseteq PushedValues
      BY <1>1, <1>2, OutIs
<1>4. PushedValues \subseteq A \X (1..Ops)
      BY DEF PushedValues
<1> QED BY <1>2, <1>3, <1>4

\* The node that a thread is about to delete is its thread's alone.
LEMMA OwnerFacts ==
  ASSUME NEW s \in Stack!Paths, StackInv(s), NEW c \in Few, at[c] = "owning"
  PROVE  /\ old_head[c].ptr \in Addresses \ InList(s)
         /\ old_head[c].ptr \in Resident(s)
         /\ heap[old_head[c].ptr] # Freed
         /\ heap[old_head[c].ptr].data \in PushedValues \ popped
         /\ \A d \in Owners : old_head[c].ptr = old_head[d].ptr => c = d
<1>1. c \in Owners
      BY DEF Owners
<1> QED BY <1>1 DEF StackInv, StackValues, Resident

\* What the list, the nodes and the counters say together: the state of the
\* stack is right, and without a tag no deleted node is read.
LEMMA StackMeans ==
  ASSUME NEW s \in Stack!Paths, StackInv(s)
  PROVE  LockFreeSafe
<1>1. Stack!Reached = s
      BY ReachedIs DEF StackInv, StackList
<1>2. {s[k] : k \in 1..Len(s)} = InList(s)
      BY DEF InList
<1>3. Cardinality(InList(s)) = Len(s)
  <2> DEFINE f == [k \in 1..Len(s) |-> s[k]]
  <2>1. \A j, k \in 1..Len(s) : s[j] = s[k] => j = k
        BY DEF StackInv, StackList
  <2>2. f \in Bijection(1..Len(s), InList(s))
    <3>1. f \in [1..Len(s) -> InList(s)]
          BY DEF InList
    <3>2. \A j, k \in 1..Len(s) : f[j] = f[k] => j = k
          BY <2>1
    <3>3. \A a \in InList(s) : \E k \in 1..Len(s) : f[k] = a
          BY DEF InList
    <3> HIDE DEF f
    <3> QED BY <3>1, <3>2, <3>3 DEF Bijection, Injection, Surjection,
                                         IsInjective
  <2>3. ExistsBijection(1..Len(s), InList(s))
        BY <2>2 DEF ExistsBijection
  <2>4. IsFiniteSet(1..Len(s)) /\ Cardinality(1..Len(s)) = Len(s)
        BY ListFacts, FS_Interval
  <2> QED BY <2>3, <2>4, FS_Bijection
<1>4. \A p \in A : node[p] # NoCargo =>
        /\ node[p] \in Stack!Living \ InList(s)
        /\ \A r \in A \ {p} : node[r] # node[p]
        /\ \A c \in Few : node[p] \notin Stack!Owned(c)
      BY NodeFacts, OwnerFacts DEF Stack!Living, Stack!Owned, Resident
<1>5. \A c \in Few :
        /\ Stack!Owned(c) \subseteq Stack!Living \ InList(s)
        /\ \A d \in Few \ {c} : Stack!Owned(c) \cap Stack!Owned(d) = {}
      BY OwnerFacts DEF Stack!Living, Stack!Owned, Owners
<1>6. Stack!Intact
  <2>1. Stack!IsChain(s)
        BY DEF StackInv, StackList
  <2>2. Stack!Cardinality(InList(s)) = Len(s)
        BY <1>3, StackCardinality
  <2> QED BY <1>1, <1>2, <1>4, <1>5, <2>1, <2>2 DEF Stack!Intact
<1>7. ASSUME total_popped = Stack!Total
      PROVE  popped = Stack!Values /\ Stack!Living = {}
  <2>1. IsFiniteSet({c \in Few : at[c] = "counting"})
        BY FS_Subset, ExercisesAssumption, StackAssumption
  <2>2. Cardinality({c \in Few : at[c] = "counting"}) \in Nat
        BY <2>1, FS_CardinalityType
  <2>3. Cardinality(popped) >= Stack!Total /\ popped \subseteq A \X (1..Ops)
        BY <1>7, <2>2, ValueBounds, OutBound DEF StackInv, StackCounts
  <2>4. popped = A \X (1..Ops)
    <3>1. /\ IsFiniteSet(A \X (1..Ops))
          /\ Cardinality(popped) \in 0..Cardinality(A \X (1..Ops))
          /\ Cardinality(popped) >= Cardinality(A \X (1..Ops))
          /\ Cardinality(A \X (1..Ops)) \in Nat
          BY <2>3, ValueBounds
    <3>2. Cardinality(popped) = Cardinality(A \X (1..Ops))
          BY <3>1
    <3> QED BY <2>3, <3>1, <3>2, FS_Subset
  <2>5. Resident(s) = {}
        BY <2>4, OutBound DEF StackInv, StackValues
  <2>6. \A p \in A : node[p] = NoCargo
    <3> SUFFICES ASSUME NEW p \in A, node[p] # NoCargo PROVE FALSE
        OBVIOUS
    <3>1. <<p, pushes[p] + 1>> \in popped
          BY <2>4, NodeFacts
    <3> QED BY <3>1, NodeFacts DEF StackInv, StackValues
  <2>7. Stack!Living = {}
    <3> SUFFICES ASSUME NEW a \in Stack!Living PROVE FALSE
        OBVIOUS
    <3>1. \E p \in A : node[p] = a
          BY <2>5 DEF Stack!Living, StackInv, StackNodes
    <3> QED BY <2>6, <3>1, StackAssumption DEF Stack!Living
  <2> QED BY <2>4, <2>7, ValueBounds
<1>8. Stack!OneReaderIsSafe
  <2> SUFFICES ASSUME top_.tag = Untagged, NEW c \in Few, at[c] = "reading"
               PROVE  old_head[c].ptr \in Stack!Living
      BY DEF Stack!OneReaderIsSafe, Stack!NoUseAfterFree
  <2>1. old_head[c].ptr \in InList(s)
        BY DEF StackInv, StackHeads
  <2>2. old_head[c].ptr \in Resident(s)
        BY <2>1 DEF Resident
  <2> QED BY <2>2 DEF Stack!Living, StackInv, StackValues
<1> QED BY <1>6, <1>7, <1>8 DEF LockFreeSafe, Stack!Structure, Stack!NothingLeft,
           StackInv

-----------------------------------------------------------------------------
\* The steps.

\* The stack begins empty.
LEMMA StackBegins ==
  ASSUME Stack!Init
  PROVE  \E s \in Stack!Paths : StackInv(s) /\ s = << >>
<1>1. << >> \in Stack!Paths
  <2>1. << >> \in Seq(Addresses) /\ Len(<< >>) = 0
        BY EmptySeq
  <2>2. Cardinality(Addresses) \in Nat
        BY FS_CardinalityType, StackAssumption
  <2>3. \A e : e = << >> => e \in Stack!Paths
    <3> SUFFICES ASSUME NEW e, e = << >> PROVE e \in Stack!Paths
        OBVIOUS
    <3>1. e \in Seq(Addresses) /\ Len(e) <= Cardinality(Addresses)
          BY <2>1, <2>2
    <3> QED BY <3>1, PathFacts
  <2> QED BY <2>3
<1>2. top_ \in Stack!Heads /\ top_.ptr = NoCargo
      BY ValueBounds DEF Stack!Init, Stack!Heads, Stack!Empty, Stack!Pointers
<1>3. Stack!TypeOK
  <2>1. Stack!Empty \in Stack!Heads
        BY ValueBounds DEF Stack!Heads, Stack!Empty, Stack!Pointers
  <2>2. /\ at \in [Few -> {"testing", "loading", "reading", "swapping",
                           "owning", "counting", "gone"}]
        BY DEF Stack!Init
  <2>3. 0 \in 0..Stack!Total /\ 0 \in 0..Ops
        BY ValueBounds, StackAssumption
  <2> QED BY <1>2, <2>1, <2>2, <2>3
          DEF Stack!Init, Stack!TypeOK, Stack!Pointers
<1>4. StackList(<< >>)
      BY <1>2 DEF StackList, Stack!IsChain, Stack!After
<1>5. Owners = {} /\ InList(<< >>) = {} /\ Resident(<< >>) = {}
      BY DEF Owners, InList, Resident, Stack!Init
<1>6. StackNodes(<< >>) /\ StackValues(<< >>)
      BY <1>5 DEF StackNodes, StackValues, Stack!Init
<1>7. StackCounts
  <2>1. PushedValues = {} /\ {c \in Few : at[c] = "counting"} = {}
        BY DEF PushedValues, Stack!Init
  <2>2. popped = {} /\ Stack!out = {}
        BY <1>5, OutIs DEF Stack!Init
  <2>3. top_.tag \in {0, Untagged} /\ total_popped = 0
        BY DEF Stack!Init, Stack!Empty
  <2> QED BY <2>1, <2>2, <2>3, FS_EmptySet DEF StackCounts
<1>8. StackHeads(<< >>)
  <2>1. \A c \in Few : at[c] \in {"testing", "gone"}
        BY DEF Stack!Init
  <2>2. top_.tag = Untagged =>
          \A c, d \in Few : at[c] # "gone" /\ at[d] # "gone" => c = d
        BY StackAssumption DEF Stack!Init, Stack!Empty
  <2> QED BY <2>1, <2>2 DEF StackHeads
<1> QED BY <1>1, <1>3, <1>4, <1>6, <1>7, <1>8 DEF StackInv

\* Memory changes at an address that is not in the list and holds no pushed
\* value: all stays as it is, but for the nodes that are being pushed.
LEMMA StackFrame ==
  ASSUME NEW s \in Stack!Paths, StackInv(s),
         NEW x, x \notin Resident(s),
         \A a \in Addresses \ {x} : heap'[a] = heap[a],
         UNCHANGED <<top_, at, new_ptr, popped, total_popped, pushes>>,
         \A c \in Few : old_head'[c] = old_head[c]
  PROVE  /\ StackList(s)' /\ StackValues(s)' /\ StackCounts' /\ StackHeads(s)'
         /\ Resident(s)' = Resident(s)
         /\ InList(s)' = InList(s)
         /\ Stack!After(s, 0)' = Stack!After(s, 0)
         /\ Stack!out' = Stack!out
<1>1. /\ InList(s)' = InList(s) /\ Owners' = Owners
      /\ PushedValues' = PushedValues
      BY DEF InList, Owners, PushedValues
<1>2. Resident(s)' = Resident(s)
      BY <1>1 DEF Resident, Owners
<1>3. \A a \in Resident(s) : a \in Addresses /\ heap'[a] = heap[a]
      BY DEF StackInv, StackValues
<1>4. \A k \in 1..Len(s) : s[k] \in Resident(s)
      BY ListFacts DEF Resident
<1>5. \A k \in 0..Len(s) : Stack!After(s, k)' = Stack!After(s, k)
  <2> SUFFICES ASSUME NEW k \in 0..Len(s)
               PROVE  Stack!After(s, k)' = Stack!After(s, k)
      OBVIOUS
  <2>1. k # 0 => k \in 1..Len(s)
        BY ListFacts
  <2> QED BY <1>3, <1>4, <2>1 DEF Stack!After
<1>6. StackList(s)'
  <2>1. \A k \in 1..Len(s) : k - 1 \in 0..Len(s)
        BY ListFacts
  <2>2. 0 \in 0..Len(s) /\ Len(s) \in 0..Len(s)
        BY ListFacts
  <2>3. \A k \in 1..Len(s) : /\ Stack!After(s, k - 1)' = s[k]
                             /\ s[k] \in Addresses /\ heap'[s[k]] # Freed
    <3>1. \A k \in 1..Len(s) : Stack!After(s, k - 1) = s[k]
          BY DEF StackInv, StackList, Stack!IsChain
    <3>2. \A k \in 1..Len(s) : heap[s[k]] # Freed
          BY ListFacts
    <3> QED BY <1>3, <1>4, <1>5, <2>1, <3>1, <3>2
  <2>4. Stack!After(s, Len(s))' = NoCargo
        BY <1>5, <2>2 DEF StackInv, StackList, Stack!IsChain
  <2>5. Stack!IsChain(s)'
        BY <2>3, <2>4 DEF Stack!IsChain, Stack!Living
  <2> QED BY <2>5 DEF StackInv, StackList
<1>7. StackValues(s)'
      BY <1>1, <1>2, <1>3 DEF StackInv, StackValues, Owners
<1>8. Stack!out' = Stack!out
  <2>1. \A c \in Owners : heap'[old_head'[c].ptr] = heap[old_head[c].ptr]
        BY <1>3 DEF Resident, Owners
  <2>2. Stack!out = popped \cup {heap[old_head[c].ptr].data : c \in Owners}
        BY OutIs
  <2>3. (Stack!out = popped \cup {heap[old_head[c].ptr].data : c \in Owners})'
        BY OutIsNext
  <2> QED BY <1>1, <2>1, <2>2, <2>3
<1>9. StackCounts'
      BY <1>1, <1>8 DEF StackInv, StackCounts
<1>10. StackHeads(s)'
  <2>1. ASSUME NEW c \in Few, at[c] = "swapping",
               old_head[c] = top_ \/ top_.tag = Untagged
        PROVE  heap'[old_head[c].ptr] = heap[old_head[c].ptr]
    <3>1. old_head[c].ptr \in InList(s)
      <4>1. CASE top_.tag = Untagged
            BY <2>1, <4>1 DEF StackInv, StackHeads
      <4>2. CASE old_head[c] = top_
        <5>1. top_.ptr # NoCargo
              BY <2>1, <4>2 DEF StackInv, StackHeads
        <5> QED BY <4>2, <5>1, ListFacts
      <4> QED BY <2>1, <4>1, <4>2
    <3> QED BY <1>3, <3>1 DEF Resident
  <2> QED BY <1>1, <2>1 DEF StackInv, StackHeads
<1>11. Stack!After(s, 0)' = Stack!After(s, 0)
       BY DEF Stack!After
<1> QED BY <1>1, <1>2, <1>6, <1>7, <1>8, <1>9, <1>10, <1>11

\* A node is allocated at an address that nobody has.
LEMMA StackPrepares ==
  ASSUME NEW s \in Stack!Paths, StackInv(s), NEW p \in A, Stack!Prepare(p)
  PROVE  StackInv(s)' /\ Stack!out' = Stack!out
<1>1. PICK a \in Addresses :
        /\ heap[a] = Freed
        /\ node' = [node EXCEPT ![p] = a]
        /\ heap' = [heap EXCEPT ![a] = [data |-> <<p, pushes[p] + 1>>,
                                        next |-> top_.ptr]]
      BY DEF Stack!Prepare, Stack!Living
<1>2. /\ UNCHANGED <<top_, at, new_ptr, popped, total_popped, pushes>>
      /\ old_head' = [old_head EXCEPT ![p] = top_]
      /\ node[p] = NoCargo /\ pushes[p] < Ops
      BY DEF Stack!Prepare
<1>3. /\ old_head \in [A \cup Few -> Stack!Heads] /\ top_ \in Stack!Heads
      /\ node \in [A -> Stack!Pointers]
      /\ pushes \in [A -> 0..Ops]
      /\ heap \in [Addresses -> [data : Stack!Values, next : Stack!Pointers]
                                  \cup {Freed}]
      BY DEF StackInv, Stack!TypeOK
<1>4. p \notin Few
      BY ExercisesAssumption, StackAssumption
<1>5. a \notin Resident(s)
      BY <1>1 DEF StackInv, StackValues
<1>6. \A b \in Addresses \ {a} : heap'[b] = heap[b]
      BY <1>1, <1>3
<1>7. \A c \in Few : old_head'[c] = old_head[c]
      BY <1>2, <1>3, <1>4
<1>8. /\ StackList(s)' /\ StackValues(s)' /\ StackCounts' /\ StackHeads(s)'
      /\ Resident(s)' = Resident(s) /\ Stack!out' = Stack!out
      BY <1>2, <1>5, <1>6, <1>7, StackFrame
<1>9. heap'[a] = [data |-> <<p, pushes[p] + 1>>, next |-> top_.ptr]
      BY <1>1, <1>3
<1>10. heap'[a] \in [data : Stack!Values, next : Stack!Pointers]
  <2>1. pushes[p] + 1 \in 1..Ops
        BY <1>2, <1>3, StackAssumption
  <2>2. <<p, pushes[p] + 1>> \in Stack!Values
        BY <2>1, ValueBounds
  <2>3. top_.ptr \in Stack!Pointers
        BY <1>3 DEF Stack!Heads
  <2> QED BY <1>9, <2>2, <2>3
<1>11. Stack!TypeOK'
  <2>1. heap' \in [Addresses -> [data : Stack!Values, next : Stack!Pointers]
                                   \cup {Freed}]
        BY <1>1, <1>3, <1>9, <1>10
  <2>2. node' \in [A -> Stack!Pointers]
        BY <1>1, <1>3 DEF Stack!Pointers
  <2>3. old_head' \in [A \cup Few -> Stack!Heads]
        BY <1>2, <1>3
  <2> QED BY <1>2, <2>1, <2>2, <2>3 DEF StackInv, Stack!TypeOK
<1>12. StackNodes(s)'
  <2>1. ASSUME NEW r \in A, node'[r] # NoCargo
        PROVE  /\ pushes'[r] < Ops
               /\ heap'[node'[r]] = [data |-> <<r, pushes'[r] + 1>>,
                                     next |-> old_head'[r].ptr]
    <3>1. CASE r = p
      <4>1. node'[r] = a /\ old_head'[r] = top_
            BY <1>1, <1>2, <1>3, <3>1
      <4> QED BY <1>2, <1>9, <3>1, <4>1
    <3>2. CASE r # p
      <4>1. node'[r] = node[r] /\ old_head'[r] = old_head[r]
            BY <1>1, <1>2, <1>3, <3>2
      <4>2. node[r] \in Addresses /\ node[r] # a
            BY <1>1, <2>1, <4>1, NodeFacts
      <4>3. heap'[node'[r]] = heap[node[r]]
            BY <1>6, <4>1, <4>2
      <4> QED BY <1>2, <2>1, <4>1, <4>3 DEF StackInv, StackNodes
    <3> QED BY <3>1, <3>2
  <2>2. ASSUME NEW b \in Addresses, heap'[b] # Freed
        PROVE  b \in Resident(s)' \/ \E r \in A : node'[r] = b
    <3>1. CASE b = a
          BY <1>1, <1>3, <3>1
    <3>2. CASE b # a
      <4>1. heap[b] # Freed
            BY <1>6, <2>2, <3>2
      <4>2. b \in Resident(s) \/ \E r \in A : node[r] = b
            BY <4>1 DEF StackInv, StackNodes
      <4>3. ASSUME NEW r \in A, node[r] = b PROVE node'[r] = b
        <5>1. r # p
              BY <1>2, <4>3, StackAssumption
        <5> QED BY <1>1, <1>3, <4>3, <5>1
      <4> QED BY <1>8, <4>2, <4>3
    <3> QED BY <3>1, <3>2
  <2> QED BY <2>1, <2>2 DEF StackNodes
<1> QED BY <1>8, <1>11, <1>12 DEF StackInv

\* A node is linked to the top that the failed exchange has found.
LEMMA StackRelinks ==
  ASSUME NEW s \in Stack!Paths, StackInv(s), NEW p \in A, Stack!Relink(p)
  PROVE  StackInv(s)' /\ Stack!out' = Stack!out
<1>1. /\ UNCHANGED <<top_, at, new_ptr, popped, total_popped, pushes, node>>
      /\ old_head' = [old_head EXCEPT ![p] = top_]
      /\ heap' = [heap EXCEPT ![node[p]].next = top_.ptr]
      /\ node[p] # NoCargo
      BY DEF Stack!Relink
<1>2. /\ old_head \in [A \cup Few -> Stack!Heads] /\ top_ \in Stack!Heads
      /\ heap \in [Addresses -> [data : Stack!Values, next : Stack!Pointers]
                                  \cup {Freed}]
      BY DEF StackInv, Stack!TypeOK
<1>3. p \notin Few
      BY ExercisesAssumption, StackAssumption
<1>4. /\ node[p] \in Addresses /\ node[p] \notin Resident(s)
      /\ heap[node[p]] # Freed
      /\ \A r \in A : node[r] = node[p] => r = p
      BY <1>1, NodeFacts
<1>5. \A b \in Addresses \ {node[p]} : heap'[b] = heap[b]
      BY <1>1, <1>2
<1>6. \A c \in Few : old_head'[c] = old_head[c]
      BY <1>1, <1>2, <1>3
<1>7. /\ StackList(s)' /\ StackValues(s)' /\ StackCounts' /\ StackHeads(s)'
      /\ Resident(s)' = Resident(s) /\ Stack!out' = Stack!out
      BY <1>1, <1>4, <1>5, <1>6, StackFrame
<1>8. /\ heap'[node[p]] = [data |-> <<p, pushes[p] + 1>>, next |-> top_.ptr]
      /\ heap'[node[p]] \in [data : Stack!Values, next : Stack!Pointers]
  <2>1. heap[node[p]] = [data |-> <<p, pushes[p] + 1>>,
                         next |-> old_head[p].ptr]
        BY <1>1 DEF StackInv, StackNodes
  <2>2. heap'[node[p]] = [heap[node[p]] EXCEPT !.next = top_.ptr]
        BY <1>1, <1>2, <1>4
  <2>3. heap'[node[p]] = [data |-> <<p, pushes[p] + 1>>, next |-> top_.ptr]
        BY <2>1, <2>2
  <2>4. <<p, pushes[p] + 1>> \in Stack!Values /\ top_.ptr \in Stack!Pointers
        BY <1>1, <1>2, NodeFacts, ValueBounds DEF Stack!Heads
  <2> QED BY <2>3, <2>4
<1>9. Stack!TypeOK'
  <2>1. heap' \in [Addresses -> [data : Stack!Values, next : Stack!Pointers]
                                   \cup {Freed}]
    <3>1. heap' = [heap EXCEPT ![node[p]] = heap'[node[p]]]
          BY <1>1, <1>2, <1>4
    <3> QED BY <1>2, <1>4, <1>8, <3>1
  <2>2. old_head' \in [A \cup Few -> Stack!Heads]
        BY <1>1, <1>2
  <2> QED BY <1>1, <2>1, <2>2 DEF StackInv, Stack!TypeOK
<1>10. StackNodes(s)'
  <2>1. ASSUME NEW r \in A, node'[r] # NoCargo
        PROVE  /\ pushes'[r] < Ops
               /\ heap'[node'[r]] = [data |-> <<r, pushes'[r] + 1>>,
                                     next |-> old_head'[r].ptr]
    <3>1. CASE r = p
      <4>1. old_head'[r] = top_
            BY <1>1, <1>2, <3>1
      <4>2. pushes[r] < Ops
            BY <1>1, <2>1 DEF StackInv, StackNodes
      <4> QED BY <1>1, <1>8, <3>1, <4>1, <4>2
    <3>2. CASE r # p
      <4>1. old_head'[r] = old_head[r]
            BY <1>1, <1>2, <3>2
      <4>2. node[r] \in Addresses /\ node[r] # node[p]
            BY <1>1, <1>4, <2>1, <3>2, NodeFacts
      <4>3. heap'[node[r]] = heap[node[r]]
            BY <1>5, <4>2
      <4> QED BY <1>1, <2>1, <4>1, <4>3 DEF StackInv, StackNodes
    <3> QED BY <3>1, <3>2
  <2>2. ASSUME NEW b \in Addresses, heap'[b] # Freed
        PROVE  b \in Resident(s)' \/ \E r \in A : node'[r] = b
    <3>1. heap[b] # Freed
          BY <1>4, <1>5, <2>2
    <3> QED BY <1>1, <1>7, <3>1 DEF StackInv, StackNodes
  <2> QED BY <2>1, <2>2 DEF StackNodes
<1> QED BY <1>7, <1>9, <1>10 DEF StackInv

\* The tag that a successful exchange stores.
LEMMA NextTag ==
  ASSUME NEW s \in Stack!Paths, StackInv(s), NEW x \in A \cup Few, NEW ptr,
         old_head[x] = top_, top_' = Stack!NewHead(x, ptr)
  PROVE  /\ top_' = [ptr |-> ptr, tag |-> top_'.tag]
         /\ top_.tag = Untagged => top_'.tag = Untagged
         /\ top_.tag # Untagged => /\ top_.tag \in Nat
                                   /\ top_'.tag = top_.tag + 1
                                   /\ top_'.tag # Untagged
<1>1. top_.tag \in Nat \cup {Untagged}
  <2>1. top_.tag \in 0..2 * Stack!Total \cup {Untagged}
        BY DEF StackInv, Stack!TypeOK, Stack!Heads
  <2> QED BY <2>1, ValueBounds
<1>2. top_' = [ptr |-> ptr,
               tag |-> IF top_.tag = Untagged THEN Untagged ELSE top_.tag + 1]
      BY DEF Stack!NewHead
<1>3. top_.tag # Untagged => top_.tag + 1 \in Nat
      BY <1>1
<1> QED BY <1>1, <1>2, <1>3, StackAssumption

\* The tag stays within its bound.
LEMMA TagBound ==
  ASSUME NEW s, StackCounts', StackValues(s)', popped' \subseteq PushedValues'
  PROVE  top_'.tag # Untagged => top_'.tag \in 0..2 * Stack!Total
<1>1. (Stack!out = popped \cup {heap[old_head[c].ptr].data : c \in Owners})'
      BY OutIsNext
<1>2. \A c \in Owners' : heap'[old_head'[c].ptr].data \in PushedValues'
      BY DEF StackValues, Resident
<1>3. Stack!out' \subseteq PushedValues'
      BY <1>1, <1>2
<1>4. PushedValues' \subseteq A \X (1..Ops)
      BY DEF PushedValues
<1>5. /\ Cardinality(PushedValues') \in 0..Stack!Total
      /\ Cardinality(Stack!out') \in 0..Stack!Total
      /\ Stack!Total \in Nat
      BY <1>3, <1>4, ValueBounds
<1> QED BY <1>5 DEF StackCounts

\* The exchange of push: the thread's node is the first of the list.
LEMMA StackPushes ==
  ASSUME NEW s \in Stack!Paths, StackInv(s), NEW p \in A, Stack!Push(p)
  PROVE  \E t \in Stack!Paths :
           /\ StackInv(t)'
           /\ Len(t) = Len(s) + 1
           /\ t[1] = node[p] /\ \A k \in 1..Len(s) : t[k + 1] = s[k]
           /\ Stack!out' = Stack!out /\ heap' = heap
           /\ heap[node[p]].data = <<p, pushes[p] + 1>>
           /\ <<p, pushes[p] + 1>> \in (A \X (1..Ops)) \ PushedValues
<1>1. PICK n \in Nat : n = Len(s)
      BY ListFacts
<1>2. PICK x : x = node[p]
      OBVIOUS
<1>3. /\ UNCHANGED <<heap, at, new_ptr, popped, total_popped>>
      /\ top_ = old_head[p] /\ top_' = Stack!NewHead(p, x)
      /\ node[p] # NoCargo /\ node' = [node EXCEPT ![p] = NoCargo]
      /\ pushes' = [pushes EXCEPT ![p] = @ + 1]
      /\ old_head' = [old_head EXCEPT ![p] = Stack!Empty]
      BY <1>2 DEF Stack!Push, Stack!Expected
<1>4. /\ old_head \in [A \cup Few -> Stack!Heads] /\ top_ \in Stack!Heads
      /\ node \in [A -> Stack!Pointers] /\ pushes \in [A -> 0..Ops]
      BY DEF StackInv, Stack!TypeOK
<1>5. p \notin Few
      BY ExercisesAssumption, StackAssumption
<1>6. /\ x \in Addresses /\ x \notin Resident(s) /\ heap[x] # Freed
      /\ heap[x].data = <<p, pushes[p] + 1>> /\ heap[x].next = top_.ptr
      /\ <<p, pushes[p] + 1>> \notin PushedValues
      /\ pushes[p] \in Nat /\ pushes[p] + 1 \in 1..Ops
      /\ \A r \in A : node[r] = x => r = p
      BY <1>2, <1>3, NodeFacts
<1>7. /\ top_'.ptr = x
      /\ top_.tag = Untagged => top_'.tag = Untagged
      /\ top_.tag # Untagged => /\ top_.tag \in Nat
                                /\ top_'.tag = top_.tag + 1
                                /\ top_'.tag # Untagged
      BY <1>3, NextTag
<1>8. PICK t : t = [k \in 1..n + 1 |-> IF k = 1 THEN x ELSE s[k - 1]]
      OBVIOUS
<1>9. /\ \A k \in 1..n : s[k] \in Addresses /\ s[k] \in InList(s)
                         /\ heap[s[k]] # Freed
      /\ \A j, k \in 1..n : s[j] = s[k] => j = k
      BY <1>1, ListFacts DEF StackInv, StackList
<1>10. /\ t \in [1..n + 1 -> Addresses] /\ t[1] = x
       /\ \A k \in 1..n : t[k + 1] = s[k]
       /\ \A k \in 1..n + 1 : k # 1 => k - 1 \in 1..n /\ t[k] = s[k - 1]
  <2>1. \A k \in 1..n + 1 : k # 1 => k - 1 \in 1..n
        BY <1>1
  <2>2. \A k \in 1..n : k + 1 \in 1..n + 1 /\ k + 1 # 1 /\ (k + 1) - 1 = k
        BY <1>1
  <2>3. 1 \in 1..n + 1
        BY <1>1
  <2> QED BY <1>6, <1>8, <1>9, <2>1, <2>2, <2>3
<1>11. \A j, k \in 1..n + 1 : t[j] = t[k] => j = k
  <2>1. \A k \in 1..n : s[k] # x
        BY <1>6, <1>9 DEF Resident
  <2>2. \A j, k \in 1..n + 1 : j # 1 /\ k # 1 /\ t[j] = t[k] => j - 1 = k - 1
        BY <1>9, <1>10
  <2>3. \A j, k \in 1..n + 1 : j - 1 = k - 1 => j = k
        BY <1>1
  <2> QED BY <1>10, <2>1, <2>2, <2>3
<1>12. t \in Seq(Addresses) /\ Len(t) = n + 1
  <2>1. t \in Seq(Addresses)
        BY <1>1, <1>10, SeqDef
  <2> QED BY <1>1, <1>10, <2>1, LenProperties
<1>13. t \in Stack!Paths
  <2>1. t \in Injection(1..n + 1, Addresses)
        BY <1>10, <1>11 DEF Injection, IsInjective
  <2>2. Cardinality(1..n + 1) <= Cardinality(Addresses)
        BY <2>1, FS_Injection, StackAssumption
  <2>3. Cardinality(1..n + 1) = n + 1
        BY <1>1, FS_Interval
  <2> QED BY <1>12, <2>2, <2>3, PathFacts
<1>14. InList(t)' = InList(s) \cup {x}
  <2>1. \A a : a \in {t[k] : k \in 1..n + 1} <=> a = x \/ a \in InList(s)
    <3>1. InList(s) = {s[k] : k \in 1..n}
          BY <1>1 DEF InList
    <3>2. 1 \in 1..n + 1 /\ \A k \in 1..n : k + 1 \in 1..n + 1
          BY <1>1
    <3>3. x \in {t[k] : k \in 1..n + 1}
          BY <1>10, <3>2
    <3>4. \A k \in 1..n : s[k] \in {t[j] : j \in 1..n + 1}
          BY <1>10, <3>2
    <3>5. \A k \in 1..n + 1 : t[k] = x \/ t[k] \in InList(s)
          BY <1>10, <3>1
    <3> QED BY <3>1, <3>3, <3>4, <3>5
  <2>2. InList(t)' = {t[k] : k \in 1..n + 1}
        BY <1>12 DEF InList
  <2> QED BY <2>1, <2>2
<1>15. Owners' = Owners /\ \A c \in Few : old_head'[c] = old_head[c]
       BY <1>3, <1>4, <1>5 DEF Owners
<1>16. Resident(t)' = Resident(s) \cup {x}
       BY <1>14, <1>15 DEF Resident, Owners
<1>17. PushedValues' = PushedValues \cup {<<p, pushes[p] + 1>>}
  <2>1. \A r \in A : pushes'[r] = IF r = p THEN pushes[p] + 1 ELSE pushes[r]
        BY <1>3, <1>4
  <2>2. ASSUME NEW r \in A, NEW i \in 1..Ops
        PROVE  i <= pushes'[r] <=> i <= pushes[r]
                                   \/ (r = p /\ i = pushes[p] + 1)
        BY <1>4, <1>6, <2>1, StackAssumption
  <2>3. \A v : v \in A \X (1..Ops) =>
          \E r \in A, i \in 1..Ops : v = <<r, i>>
        OBVIOUS
  <2>4. ASSUME NEW v \in A \X (1..Ops)
        PROVE  v[2] <= pushes'[v[1]] <=> v[2] <= pushes[v[1]]
                                         \/ v = <<p, pushes[p] + 1>>
        BY <2>2, <2>3
  <2>5. <<p, pushes[p] + 1>> \in A \X (1..Ops)
        BY <1>6
  <2> QED BY <2>4, <2>5 DEF PushedValues
<1>18. StackList(t)'
  <2>1. \A k \in 1..n + 1 : Stack!After(t, k)' = Stack!After(s, k - 1)
        BY <1>1, <1>3, <1>6, <1>10 DEF Stack!After
  <2>2. /\ Stack!After(s, n) = NoCargo
        /\ \A k \in 1..n : Stack!After(s, k - 1) = s[k]
        BY <1>1 DEF StackInv, StackList, Stack!IsChain
  <2>3. \A k \in 1..n + 1 : Stack!After(t, k - 1)' = t[k]
    <3> SUFFICES ASSUME NEW k \in 1..n + 1
                 PROVE  Stack!After(t, k - 1)' = t[k]
        OBVIOUS
    <3>1. CASE k = 1
          BY <1>7, <1>10, <3>1 DEF Stack!After
    <3>2. CASE k # 1
      <4>1. k - 1 \in 1..n + 1 /\ k - 1 \in 1..n
            BY <1>1, <3>2
      <4> QED BY <1>10, <2>1, <2>2, <3>2, <4>1
    <3> QED BY <3>1, <3>2
  <2>4. Stack!After(t, n + 1)' = NoCargo
    <3>1. n + 1 \in 1..n + 1 /\ (n + 1) - 1 = n
          BY <1>1
    <3> QED BY <2>1, <2>2, <3>1
  <2>5. \A k \in 1..n + 1 : t[k] \in Addresses /\ heap'[t[k]] # Freed
    <3> SUFFICES ASSUME NEW k \in 1..n + 1
                 PROVE  t[k] \in Addresses /\ heap[t[k]] # Freed
        BY <1>3
    <3>1. CASE k = 1
          BY <1>6, <1>10, <3>1
    <3>2. CASE k # 1
          BY <1>9, <1>10, <3>2
    <3> QED BY <3>1, <3>2
  <2>6. Stack!IsChain(t)'
        BY <1>12, <2>3, <2>4, <2>5 DEF Stack!IsChain, Stack!Living
  <2> QED BY <1>11, <1>12, <2>6 DEF StackList
<1>19. StackNodes(t)'
  <2>1. ASSUME NEW r \in A, node'[r] # NoCargo
        PROVE  /\ pushes'[r] < Ops
               /\ heap'[node'[r]] = [data |-> <<r, pushes'[r] + 1>>,
                                     next |-> old_head'[r].ptr]
    <3>1. r # p
          BY <1>3, <1>4, <2>1
    <3>2. node'[r] = node[r] /\ pushes'[r] = pushes[r]
          /\ old_head'[r] = old_head[r]
          BY <1>3, <1>4, <3>1
    <3> QED BY <1>3, <2>1, <3>2 DEF StackInv, StackNodes
  <2>2. ASSUME NEW b \in Addresses, heap'[b] # Freed
        PROVE  b \in Resident(t)' \/ \E r \in A : node'[r] = b
    <3>1. b \in Resident(s) \/ \E r \in A : node[r] = b
          BY <1>3, <2>2 DEF StackInv, StackNodes
    <3>2. ASSUME NEW r \in A, node[r] = b PROVE b = x \/ node'[r] = b
          BY <1>2, <1>3, <1>4, <3>2
    <3> QED BY <1>16, <3>1, <3>2
  <2> QED BY <2>1, <2>2 DEF StackNodes
<1>20. StackValues(t)'
  <2>1. \A a \in Resident(t)' :
          a \in Addresses /\ heap'[a] # Freed
            /\ heap'[a].data \in PushedValues' \ popped'
    <3>1. <<p, pushes[p] + 1>> \notin popped
          BY <1>6 DEF StackInv, StackValues
    <3> QED BY <1>3, <1>6, <1>16, <1>17, <3>1 DEF StackInv, StackValues
  <2>2. \A a, b \in Resident(t)' : heap'[a].data = heap'[b].data => a = b
    <3>1. \A a \in Resident(s) : heap[a].data # heap[x].data
          BY <1>6 DEF StackInv, StackValues
    <3> QED BY <1>3, <1>16, <3>1 DEF StackInv, StackValues
  <2>3. \A c \in Owners' : old_head'[c].ptr \notin InList(t)'
    <3>1. \A c \in Owners : old_head[c].ptr # x
          BY <1>6 DEF Resident
    <3> QED BY <1>14, <1>15, <3>1 DEF StackInv, StackValues, Owners
  <2>4. \A c, d \in Owners' : old_head'[c].ptr = old_head'[d].ptr => c = d
        BY <1>15 DEF StackInv, StackValues, Owners
  <2>5. popped' \subseteq PushedValues'
        BY <1>3, <1>17 DEF StackInv, StackValues
  <2> QED BY <2>1, <2>2, <2>3, <2>4, <2>5 DEF StackValues
<1>21. Stack!out' = Stack!out
  <2>1. Stack!out = popped \cup {heap[old_head[c].ptr].data : c \in Owners}
        BY OutIs
  <2>2. (Stack!out = popped \cup {heap[old_head[c].ptr].data : c \in Owners})'
        BY OutIsNext
  <2>3. \A c \in Owners : old_head'[c] = old_head[c]
        BY <1>15 DEF Owners
  <2> QED BY <1>3, <1>15, <2>1, <2>2, <2>3
<1>22. StackCounts'
  <2>1. Cardinality(PushedValues') = Cardinality(PushedValues) + 1
    <3>1. IsFiniteSet(PushedValues)
          BY OutBound, ValueBounds
    <3> QED BY <1>6, <1>17, <3>1, FS_AddElement
  <2>2. {c \in Few : at[c] = "counting"}' = {c \in Few : at[c] = "counting"}
        BY <1>3
  <2>3. /\ Cardinality(PushedValues) \in Nat
        /\ Cardinality(Stack!out) \in Nat
        BY OutBound, ValueBounds
  <2>4. top_'.tag # Untagged =>
          top_'.tag = Cardinality(PushedValues') + Cardinality(Stack!out')
        BY <1>7, <1>21, <2>1, <2>3 DEF StackInv, StackCounts
  <2>5. Cardinality(popped') =
          total_popped' + Cardinality({c \in Few : at[c] = "counting"}')
        BY <1>3, <2>2 DEF StackInv, StackCounts
  <2> QED BY <2>4, <2>5 DEF StackCounts
<1>23. StackHeads(t)'
  <2>1. ASSUME NEW c \in Few, at'[c] \in {"reading", "swapping"}
        PROVE  /\ old_head'[c].ptr # NoCargo
               /\ top_'.tag = Untagged => old_head'[c].ptr \in InList(t)'
               /\ top_'.tag # Untagged =>
                    /\ old_head'[c].tag # Untagged
                    /\ old_head'[c].tag <= top_'.tag
                    /\ old_head'[c].tag = top_'.tag => old_head'[c] = top_'
    <3>1. old_head'[c] = old_head[c] /\ at'[c] = at[c]
          BY <1>3, <1>15
    <3>2. old_head[c].tag \in Nat \cup {Untagged}
      <4>1. old_head[c] \in Stack!Heads
            BY <1>4
      <4>2. old_head[c].tag \in 0..2 * Stack!Total \cup {Untagged}
            BY <4>1 DEF Stack!Heads
      <4> QED BY <4>2, ValueBounds
    <3>3. /\ old_head[c].ptr # NoCargo
          /\ top_.tag = Untagged => old_head[c].ptr \in InList(s)
          /\ top_.tag # Untagged =>
               old_head[c].tag # Untagged /\ old_head[c].tag <= top_.tag
          BY <2>1, <3>1 DEF StackInv, StackHeads
    <3> QED BY <1>7, <1>14, <3>1, <3>2, <3>3
  <2>2. ASSUME NEW c \in Few, at'[c] = "swapping",
               old_head'[c] = top_' \/ top_'.tag = Untagged
        PROVE  new_ptr'[c] = heap'[old_head'[c].ptr].next
    <3>1. old_head'[c] = old_head[c] /\ at'[c] = at[c]
          BY <1>3, <1>15
    <3>2. top_.tag = Untagged
      <4> SUFFICES ASSUME top_.tag # Untagged PROVE FALSE
          OBVIOUS
      <4>1. old_head[c] = top_'
            BY <1>7, <2>2, <3>1
      <4>2. old_head[c].tag <= top_.tag
            BY <2>2, <3>1 DEF StackInv, StackHeads
      <4> QED BY <1>7, <4>1, <4>2
    <3> QED BY <1>3, <2>2, <3>1, <3>2 DEF StackInv, StackHeads
  <2>3. top_'.tag = Untagged =>
          \A c, d \in Few : at'[c] # "gone" /\ at'[d] # "gone" => c = d
        BY <1>3, <1>7 DEF StackInv, StackHeads
  <2> QED BY <2>1, <2>2, <2>3 DEF StackHeads
<1>24. Stack!TypeOK'
  <2>1. top_' \in Stack!Heads
    <3>1. top_'.tag # Untagged => top_'.tag \in 0..2 * Stack!Total
          BY <1>20, <1>22, TagBound DEF StackValues
    <3>2. top_' = [ptr |-> x, tag |-> top_'.tag]
          BY <1>3, NextTag
    <3>3. x \in Stack!Pointers
          BY <1>6 DEF Stack!Pointers
    <3> QED BY <3>1, <3>2, <3>3 DEF Stack!Heads
  <2>2. Stack!Empty \in Stack!Heads
        BY ValueBounds DEF Stack!Heads, Stack!Empty, Stack!Pointers
  <2>3. old_head' \in [A \cup Few -> Stack!Heads]
        BY <1>3, <1>4, <2>2
  <2>4. node' \in [A -> Stack!Pointers]
        BY <1>3, <1>4 DEF Stack!Pointers
  <2>5. pushes' \in [A -> 0..Ops]
        BY <1>3, <1>4, <1>6
  <2> QED BY <1>3, <2>1, <2>3, <2>4, <2>5 DEF StackInv, Stack!TypeOK
<1>25. StackInv(t)'
       BY <1>18, <1>19, <1>20, <1>22, <1>23, <1>24 DEF StackInv
<1> QED BY <1>1, <1>2, <1>3, <1>6, <1>10, <1>12, <1>13, <1>21, <1>25

\* The exchange of pop: the first node leaves the list and is the thread's.
LEMMA StackPops ==
  ASSUME NEW s \in Stack!Paths, StackInv(s), NEW c \in Few, Stack!Pop(c)
  PROVE  \E t \in Stack!Paths :
           /\ StackInv(t)'
           /\ Len(s) >= 1 /\ Len(t) = Len(s) - 1
           /\ \A k \in 1..Len(t) : t[k] = s[k + 1]
           /\ Stack!out' = Stack!out \cup {heap[s[1]].data}
           /\ heap' = heap
<1>1. PICK n \in Nat : n = Len(s)
      BY ListFacts
<1>2. /\ UNCHANGED <<heap, old_head, node, pushes, popped, total_popped>>
      /\ at[c] = "swapping"
      /\ top_ = old_head[c] /\ top_' = Stack!NewHead(c, new_ptr[c])
      /\ at' = [at EXCEPT ![c] = "owning"]
      /\ new_ptr' = [new_ptr EXCEPT ![c] = NoCargo]
      BY DEF Stack!Pop, Stack!Expected
<1>3. /\ old_head \in [A \cup Few -> Stack!Heads] /\ top_ \in Stack!Heads
      /\ at \in [Few -> {"testing", "loading", "reading", "swapping",
                         "owning", "counting", "gone"}]
      /\ new_ptr \in [Few -> Stack!Pointers]
      BY DEF StackInv, Stack!TypeOK
<1>4. top_.ptr # NoCargo /\ new_ptr[c] = heap[top_.ptr].next
      BY <1>2 DEF StackInv, StackHeads
<1>5. n >= 1 /\ s[1] = top_.ptr
      BY <1>1, <1>4, ListFacts
<1>6. /\ \A k \in 1..n : s[k] \in Addresses /\ s[k] \in InList(s)
                         /\ heap[s[k]] # Freed
      /\ \A j, k \in 1..n : s[j] = s[k] => j = k
      /\ s \in [1..n -> Addresses]
      BY <1>1, ListFacts DEF StackInv, StackList
<1>7. /\ top_'.ptr = new_ptr[c]
      /\ top_.tag = Untagged => top_'.tag = Untagged
      /\ top_.tag # Untagged => /\ top_.tag \in Nat
                                /\ top_'.tag = top_.tag + 1
                                /\ top_'.tag # Untagged
  <2>1. PICK y : y = new_ptr[c]
        OBVIOUS
  <2>2. top_' = Stack!NewHead(c, y) /\ c \in A \cup Few /\ old_head[c] = top_
        BY <1>2, <2>1
  <2>3. /\ top_' = [ptr |-> y, tag |-> top_'.tag]
        /\ top_.tag = Untagged => top_'.tag = Untagged
        /\ top_.tag # Untagged => /\ top_.tag \in Nat
                                  /\ top_'.tag = top_.tag + 1
                                  /\ top_'.tag # Untagged
        BY <2>2, NextTag
  <2>4. top_'.ptr = y
        BY <2>3
  <2> QED BY <2>1, <2>3, <2>4
<1>8. PICK t : t = [k \in 1..n - 1 |-> s[k + 1]]
      OBVIOUS
<1>9. \A k \in 1..n - 1 : k + 1 \in 1..n /\ k + 1 # 1 /\ k \in Nat
      BY <1>1
<1>10. /\ t \in [1..n - 1 -> Addresses]
       /\ \A k \in 1..n - 1 : t[k] = s[k + 1]
       BY <1>6, <1>8, <1>9
<1>11. t \in Seq(Addresses) /\ Len(t) = n - 1
  <2>1. n - 1 \in Nat
        BY <1>1, <1>5
  <2>2. t \in Seq(Addresses)
        BY <1>10, <2>1, SeqDef
  <2> QED BY <1>10, <2>1, <2>2, LenProperties
<1>12. t \in Stack!Paths
  <2>1. n <= Cardinality(Addresses) /\ Cardinality(Addresses) \in Nat
        BY <1>1, PathFacts, FS_CardinalityType, StackAssumption
  <2> QED BY <1>1, <1>11, <2>1, PathFacts
<1>13. \A j, k \in 1..n - 1 : t[j] = t[k] => j = k
  <2>1. \A j, k \in 1..n - 1 : t[j] = t[k] => j + 1 = k + 1
        BY <1>6, <1>9, <1>10
  <2> QED BY <1>9, <2>1
<1>14. /\ InList(s) = InList(t)' \cup {s[1]}
       /\ s[1] \notin InList(t)'
  <2>1. InList(s) = {s[k] : k \in 1..n} /\ InList(t)' = {t[k] : k \in 1..n - 1}
        BY <1>1, <1>11 DEF InList
  <2>2. \A k \in 1..n - 1 : t[k] \in InList(s) /\ t[k] # s[1]
    <3>1. 1 \in 1..n
          BY <1>1, <1>5
    <3> QED BY <1>6, <1>9, <1>10, <3>1
  <2>3. \A k \in 1..n : s[k] = s[1] \/ s[k] \in InList(t)'
    <3> SUFFICES ASSUME NEW k \in 1..n, k # 1 PROVE s[k] \in InList(t)'
        OBVIOUS
    <3>1. k - 1 \in 1..n - 1 /\ (k - 1) + 1 = k
          BY <1>1
    <3>2. t[k - 1] = s[k]
          BY <1>10, <3>1
    <3> QED BY <2>1, <3>1, <3>2
  <2>4. s[1] \in InList(s)
        BY <1>1, <1>5, <1>6
  <2> QED BY <2>1, <2>2, <2>3, <2>4
<1>15. /\ Owners' = Owners \cup {c} /\ c \notin Owners
       /\ old_head[c].ptr = s[1]
       BY <1>2, <1>3, <1>5 DEF Owners
<1>16. Resident(t)' = Resident(s)
  <2>1. Resident(t)' = InList(t)' \cup {old_head[d].ptr : d \in Owners'}
        BY <1>2 DEF Resident
  <2> QED BY <1>14, <1>15, <2>1 DEF Resident
<1>17. PushedValues' = PushedValues
       BY <1>2 DEF PushedValues
<1>18. StackList(t)'
  <2>1. \A k \in 1..n : Stack!After(s, k - 1) = s[k]
        BY <1>1 DEF StackInv, StackList, Stack!IsChain
  <2>2. Stack!After(s, n) = NoCargo
        BY <1>1 DEF StackInv, StackList, Stack!IsChain
  <2>3. \A k \in 0..n - 1 : Stack!After(t, k)' = Stack!After(s, k + 1)
    <3> SUFFICES ASSUME NEW k \in 0..n - 1
                 PROVE  Stack!After(t, k)' = Stack!After(s, k + 1)
        OBVIOUS
    <3>1. CASE k = 0
          BY <1>4, <1>5, <1>7, <3>1 DEF Stack!After
    <3>2. CASE k # 0
      <4>1. k \in 1..n - 1 /\ k + 1 # 0
            BY <1>1, <3>2
      <4>2. t[k] = s[k + 1]
            BY <1>10, <4>1
      <4> QED BY <1>2, <3>2, <4>1, <4>2 DEF Stack!After
    <3> QED BY <3>1, <3>2
  <2>4. \A k \in 1..n - 1 : Stack!After(t, k - 1)' = t[k]
    <3>1. \A k \in 1..n - 1 : /\ k - 1 \in 0..n - 1 /\ (k - 1) + 1 = k
                              /\ k + 1 \in 1..n /\ (k + 1) - 1 = k
          BY <1>1
    <3>2. \A k \in 1..n - 1 : Stack!After(s, k) = s[k + 1]
          BY <2>1, <3>1
    <3> QED BY <1>10, <2>3, <3>1, <3>2
  <2>5. Stack!After(t, n - 1)' = NoCargo
    <3>1. n - 1 \in 0..n - 1 /\ (n - 1) + 1 = n
          BY <1>1, <1>5
    <3> QED BY <2>2, <2>3, <3>1
  <2>6. \A k \in 1..n - 1 : t[k] \in Addresses /\ heap'[t[k]] # Freed
        BY <1>2, <1>6, <1>9, <1>10
  <2>7. Stack!IsChain(t)'
        BY <1>11, <2>4, <2>5, <2>6 DEF Stack!IsChain, Stack!Living
  <2> QED BY <1>11, <1>13, <2>7 DEF StackList
<1>19. StackNodes(t)'
       BY <1>2, <1>16 DEF StackInv, StackNodes
<1>20. StackValues(t)'
  <2>1. \A d \in Owners : old_head[d].ptr # s[1] /\ old_head[d].ptr \notin InList(s)
        BY <1>14 DEF StackInv, StackValues
  <2>2. /\ \A d \in Owners' : old_head'[d].ptr \notin InList(t)'
        /\ \A d, e \in Owners' : old_head'[d].ptr = old_head'[e].ptr => d = e
    <3>1. \A d, e \in Owners : old_head[d].ptr = old_head[e].ptr => d = e
          BY DEF StackInv, StackValues
    <3> QED BY <1>2, <1>14, <1>15, <2>1, <3>1
  <2>3. popped' \subseteq PushedValues'
        BY <1>2, <1>17 DEF StackInv, StackValues
  <2>4. \A a \in Resident(t)' :
          a \in Addresses /\ heap'[a] # Freed
            /\ heap'[a].data \in PushedValues' \ popped'
        BY <1>2, <1>16, <1>17 DEF StackInv, StackValues
  <2>5. \A a, b \in Resident(t)' : heap'[a].data = heap'[b].data => a = b
        BY <1>2, <1>16 DEF StackInv, StackValues
  <2> QED BY <2>2, <2>3, <2>4, <2>5 DEF StackValues
<1>21. Stack!out' = Stack!out \cup {heap[s[1]].data}
  <2>1. Stack!out = popped \cup {heap[old_head[d].ptr].data : d \in Owners}
        BY OutIs
  <2>2. (Stack!out = popped \cup {heap[old_head[d].ptr].data : d \in Owners})'
        BY OutIsNext
  <2> QED BY <1>2, <1>15, <2>1, <2>2
<1>22. heap[s[1]].data \notin Stack!out
  <2>1. s[1] \in Resident(s)
        BY <1>14 DEF Resident
  <2>2. \A d \in Owners : heap[old_head[d].ptr].data # heap[s[1]].data
        BY <1>14, <2>1 DEF StackInv, StackValues, Resident
  <2>3. heap[s[1]].data \notin popped
        BY <2>1 DEF StackInv, StackValues
  <2> QED BY <2>2, <2>3, OutIs
<1>23. StackCounts'
  <2>1. IsFiniteSet(Stack!out) /\ Cardinality(Stack!out) \in Nat
        BY OutBound, ValueBounds
  <2>2. Cardinality(Stack!out') = Cardinality(Stack!out) + 1
        BY <1>21, <1>22, <2>1, FS_AddElement
  <2>3. Cardinality(PushedValues) \in Nat
        BY OutBound, ValueBounds
  <2>4. top_'.tag # Untagged =>
          top_'.tag = Cardinality(PushedValues') + Cardinality(Stack!out')
        BY <1>7, <1>17, <2>1, <2>2, <2>3 DEF StackInv, StackCounts
  <2>5. {d \in Few : at[d] = "counting"}' = {d \in Few : at[d] = "counting"}
        BY <1>2, <1>3
  <2>6. Cardinality(popped') =
          total_popped' + Cardinality({d \in Few : at[d] = "counting"}')
        BY <1>2, <2>5 DEF StackInv, StackCounts
  <2> QED BY <2>4, <2>6 DEF StackCounts
<1>24. StackHeads(t)'
  <2>1. \A d \in Few : at'[d] \in {"reading", "swapping"} =>
          d # c /\ at'[d] = at[d] /\ new_ptr'[d] = new_ptr[d]
        BY <1>2, <1>3
\* Without a tag nobody else pops.
  <2>2. ASSUME NEW d \in Few, at'[d] \in {"reading", "swapping"}
        PROVE  top_.tag # Untagged
        BY <1>2, <2>1, <2>2 DEF StackInv, StackHeads
  <2>3. ASSUME NEW d \in Few, at'[d] \in {"reading", "swapping"}
        PROVE  /\ old_head'[d].ptr # NoCargo
               /\ top_'.tag # Untagged
               /\ old_head'[d].tag # Untagged
               /\ old_head'[d].tag < top_'.tag
    <3>1. old_head[d].tag \in Nat \cup {Untagged}
      <4>1. old_head[d] \in Stack!Heads
            BY <1>3
      <4>2. old_head[d].tag \in 0..2 * Stack!Total \cup {Untagged}
            BY <4>1 DEF Stack!Heads
      <4> QED BY <4>2, ValueBounds
    <3>2. /\ old_head[d].ptr # NoCargo /\ old_head[d].tag # Untagged
          /\ old_head[d].tag <= top_.tag
          BY <2>1, <2>2, <2>3 DEF StackInv, StackHeads
    <3> QED BY <1>2, <1>7, <2>2, <2>3, <3>1, <3>2
  <2>4. ASSUME NEW d \in Few, at'[d] \in {"reading", "swapping"}
        PROVE  old_head'[d].tag # top_'.tag /\ old_head'[d].tag <= top_'.tag
    <3>1. old_head[d] \in Stack!Heads
          BY <1>3
    <3>2. old_head[d].tag \in Nat \cup {Untagged}
          BY <3>1, ValueBounds DEF Stack!Heads
    <3>3. top_'.tag \in Nat
          BY <1>7, <2>2, <2>4
    <3> QED BY <1>2, <2>3, <2>4, <3>2, <3>3
  <2>5. top_'.tag = Untagged =>
          \A d, e \in Few : at'[d] # "gone" /\ at'[e] # "gone" => d = e
    <3>1. \A d \in Few : at'[d] # "gone" => at[d] # "gone"
          BY <1>2, <1>3
    <3> QED BY <1>7, <3>1 DEF StackInv, StackHeads
  <2> QED BY <2>3, <2>4, <2>5 DEF StackHeads
<1>25. Stack!TypeOK'
  <2>1. top_' \in Stack!Heads
    <3>1. top_'.tag # Untagged => top_'.tag \in 0..2 * Stack!Total
          BY <1>20, <1>23, TagBound DEF StackValues
    <3>2. top_' = [ptr |-> new_ptr[c], tag |-> top_'.tag]
          BY <1>2, NextTag
    <3>3. new_ptr[c] \in Stack!Pointers
          BY <1>3
    <3> QED BY <3>1, <3>2, <3>3 DEF Stack!Heads
  <2>2. new_ptr' \in [Few -> Stack!Pointers]
        BY <1>2, <1>3 DEF Stack!Pointers
  <2>3. at' \in [Few -> {"testing", "loading", "reading", "swapping",
                         "owning", "counting", "gone"}]
        BY <1>2, <1>3
  <2> QED BY <1>2, <2>1, <2>2, <2>3 DEF StackInv, Stack!TypeOK
<1>26. StackInv(t)'
       BY <1>18, <1>19, <1>20, <1>23, <1>24, <1>25 DEF StackInv
<1> QED BY <1>1, <1>2, <1>5, <1>10, <1>11, <1>12, <1>21, <1>26

\* The thread takes the value and deletes its node.
LEMMA StackDeletes ==
  ASSUME NEW s \in Stack!Paths, StackInv(s), NEW c \in Few, Stack!Delete(c)
  PROVE  /\ StackInv(s)' /\ Stack!out' = Stack!out
         /\ \A a \in InList(s) : heap'[a] = heap[a]
<1>1. PICK x : x = old_head[c].ptr
      OBVIOUS
<1>2. /\ UNCHANGED <<top_, node, pushes, new_ptr, total_popped>>
      /\ at[c] = "owning" /\ at' = [at EXCEPT ![c] = "counting"]
      /\ popped' = popped \cup {heap[x].data}
      /\ heap' = [heap EXCEPT ![x] = Freed]
      /\ old_head' = [old_head EXCEPT ![c] = Stack!Empty]
      BY <1>1 DEF Stack!Delete
<1>3. /\ old_head \in [A \cup Few -> Stack!Heads]
      /\ at \in [Few -> {"testing", "loading", "reading", "swapping",
                         "owning", "counting", "gone"}]
      /\ heap \in [Addresses -> [data : Stack!Values, next : Stack!Pointers]
                                  \cup {Freed}]
      BY DEF StackInv, Stack!TypeOK
<1>4. c \notin A
      BY ExercisesAssumption, StackAssumption
<1>5. /\ x \in Addresses \ InList(s) /\ x \in Resident(s)
      /\ heap[x].data \in PushedValues \ popped
      /\ \A d \in Owners : d # c => old_head[d].ptr # x
      BY <1>1, <1>2, OwnerFacts
<1>6. /\ Owners' = Owners \ {c} /\ c \in Owners
      /\ \A d \in Owners' : old_head'[d] = old_head[d]
      /\ InList(s)' = InList(s) /\ PushedValues' = PushedValues
      BY <1>2, <1>3 DEF Owners, InList, PushedValues
<1>7. Resident(s)' = Resident(s) \ {x}
      BY <1>1, <1>5, <1>6 DEF Resident
<1>8. /\ \A a \in Addresses \ {x} : heap'[a] = heap[a]
      /\ heap'[x] = Freed
      BY <1>2, <1>3, <1>5
<1>9. /\ \A p \in A : old_head'[p] = old_head[p]
      /\ \A d \in Few \ {c} : old_head'[d] = old_head[d] /\ at'[d] = at[d]
      /\ at'[c] = "counting"
      BY <1>2, <1>3, <1>4
<1>10. InList(s) \subseteq Addresses \ {x}
       BY <1>5, ListFacts
<1>11. StackList(s)'
  <2>1. \A k \in 1..Len(s) : s[k] \in Addresses \ {x}
        BY <1>10, ListFacts
  <2>2. Len(s) \in Nat
        BY ListFacts
  <2>3. \A k \in 0..Len(s) : Stack!After(s, k)' = Stack!After(s, k)
    <3>1. \A k \in 0..Len(s) : k # 0 => k \in 1..Len(s)
          BY <2>2
    <3> QED BY <1>2, <1>8, <2>1, <3>1 DEF Stack!After
  <2>4. \A k \in 1..Len(s) : k - 1 \in 0..Len(s)
        BY <2>2
  <2>5. Len(s) \in 0..Len(s)
        BY <2>2
  <2>6. \A k \in 1..Len(s) : /\ Stack!After(s, k - 1)' = s[k]
                             /\ s[k] \in Addresses /\ heap'[s[k]] # Freed
    <3>1. \A k \in 1..Len(s) : Stack!After(s, k - 1) = s[k]
          BY DEF StackInv, StackList, Stack!IsChain
    <3> QED BY <1>8, <2>1, <2>3, <2>4, <3>1, ListFacts
  <2>7. Stack!After(s, Len(s))' = NoCargo
        BY <2>3, <2>5 DEF StackInv, StackList, Stack!IsChain
  <2>8. Stack!IsChain(s)'
        BY <2>6, <2>7 DEF Stack!IsChain, Stack!Living
  <2> QED BY <2>8 DEF StackInv, StackList
<1>12. StackNodes(s)'
  <2>1. ASSUME NEW p \in A, node'[p] # NoCargo
        PROVE  /\ pushes'[p] < Ops
               /\ heap'[node'[p]] = [data |-> <<p, pushes'[p] + 1>>,
                                     next |-> old_head'[p].ptr]
    <3>1. node[p] \in Addresses /\ node[p] # x
          BY <1>2, <1>5, <2>1, NodeFacts
    <3>2. heap'[node[p]] = heap[node[p]]
          BY <1>8, <3>1
    <3> QED BY <1>2, <1>9, <2>1, <3>2 DEF StackInv, StackNodes
  <2>2. ASSUME NEW b \in Addresses, heap'[b] # Freed
        PROVE  b \in Resident(s)' \/ \E p \in A : node'[p] = b
    <3>1. b # x /\ heap[b] # Freed
          BY <1>8, <2>2
    <3> QED BY <1>2, <1>7, <3>1 DEF StackInv, StackNodes
  <2> QED BY <2>1, <2>2 DEF StackNodes
<1>13. StackValues(s)'
  <2>1. \A a \in Resident(s) : a # x =>
          /\ a \in Addresses /\ heap[a] # Freed /\ heap'[a] = heap[a]
          /\ heap[a].data \in PushedValues \ popped'
    <3>1. \A a \in Resident(s) : a # x => heap[a].data # heap[x].data
          BY <1>5 DEF StackInv, StackValues
    <3> QED BY <1>2, <1>8, <3>1 DEF StackInv, StackValues
  <2>2. \A a \in Resident(s)' :
          a \in Addresses /\ heap'[a] # Freed
            /\ heap'[a].data \in PushedValues' \ popped'
        BY <1>6, <1>7, <2>1
  <2>3. \A a, b \in Resident(s)' : heap'[a].data = heap'[b].data => a = b
        BY <1>7, <2>1 DEF StackInv, StackValues
  <2>4. /\ \A d \in Owners' : old_head'[d].ptr \notin InList(s)'
        /\ \A d, e \in Owners' : old_head'[d].ptr = old_head'[e].ptr => d = e
        BY <1>6 DEF StackInv, StackValues
  <2>5. popped' \subseteq PushedValues'
        BY <1>2, <1>5, <1>6 DEF StackInv, StackValues
  <2> QED BY <2>2, <2>3, <2>4, <2>5 DEF StackValues
<1>14. Stack!out' = Stack!out
  <2>1. Stack!out = popped \cup {heap[old_head[d].ptr].data : d \in Owners}
        BY OutIs
  <2>2. (Stack!out = popped \cup {heap[old_head[d].ptr].data : d \in Owners})'
        BY OutIsNext
  <2>3. \A d \in Owners' : /\ old_head'[d] = old_head[d]
                           /\ old_head[d].ptr \in Addresses \ {x}
    <3>1. \A d \in Owners : old_head[d].ptr \in Addresses
          BY DEF StackInv, StackValues, Resident
    <3> QED BY <1>5, <1>6, <3>1
  <2>4. \A d \in Owners' : heap'[old_head'[d].ptr] = heap[old_head[d].ptr]
        BY <1>8, <2>3
  <2>5. \A d : d \in Owners <=> d \in Owners' \/ d = c
        BY <1>6
  <2>6. {heap[old_head[d].ptr].data : d \in Owners} =
          {heap[old_head[d].ptr].data : d \in Owners'} \cup {heap[x].data}
        BY <1>1, <2>5
  <2> QED BY <1>2, <2>1, <2>2, <2>4, <2>6
<1>15. StackCounts'
  <2>1. Cardinality(popped') = Cardinality(popped) + 1
    <3>1. IsFiniteSet(popped)
          BY OutBound, ValueBounds
    <3> QED BY <1>2, <1>5, <3>1, FS_AddElement
  <2>2. PICK S : S = {d \in Few : at[d] = "counting"}
        OBVIOUS
  <2>3. IsFiniteSet(S) /\ c \notin S
        BY <1>2, <2>2, FS_Subset, ExercisesAssumption, StackAssumption
  <2>4. {d \in Few : at[d] = "counting"}' = S \cup {c}
        BY <1>9, <2>2
  <2>5. Cardinality({d \in Few : at[d] = "counting"}') = Cardinality(S) + 1
        BY <2>3, <2>4, FS_AddElement
  <2>6. /\ Cardinality(S) \in Nat /\ total_popped \in Nat
        /\ Cardinality(popped) = total_popped + Cardinality(S)
        BY <2>2, <2>3, FS_CardinalityType, ValueBounds
           DEF StackInv, StackCounts, Stack!TypeOK
  <2>7. Cardinality(popped') =
          total_popped' + Cardinality({d \in Few : at[d] = "counting"}')
        BY <1>2, <2>1, <2>5, <2>6
  <2>8. top_'.tag # Untagged =>
          top_'.tag = Cardinality(PushedValues') + Cardinality(Stack!out')
        BY <1>2, <1>6, <1>14 DEF StackInv, StackCounts
  <2> QED BY <2>7, <2>8 DEF StackCounts
<1>16. StackHeads(s)'
  <2>1. \A d \in Few : at'[d] \in {"reading", "swapping"} => d # c
        BY <1>9
  <2>2. ASSUME NEW d \in Few, at'[d] \in {"reading", "swapping"}
        PROVE  /\ old_head'[d].ptr # NoCargo
               /\ top_'.tag = Untagged => old_head'[d].ptr \in InList(s)'
               /\ top_'.tag # Untagged =>
                    /\ old_head'[d].tag # Untagged
                    /\ old_head'[d].tag <= top_'.tag
                    /\ old_head'[d].tag = top_'.tag => old_head'[d] = top_'
        BY <1>2, <1>6, <1>9, <2>1, <2>2 DEF StackInv, StackHeads
  <2>3. ASSUME NEW d \in Few, at'[d] = "swapping",
               old_head'[d] = top_' \/ top_'.tag = Untagged
        PROVE  new_ptr'[d] = heap'[old_head'[d].ptr].next
    <3>1. /\ at[d] = "swapping" /\ old_head'[d] = old_head[d]
          /\ old_head[d] = top_ \/ top_.tag = Untagged
          BY <1>2, <1>9, <2>1, <2>3
    <3>2. old_head[d].ptr \in InList(s)
      <4>1. CASE top_.tag = Untagged
            BY <3>1, <4>1 DEF StackInv, StackHeads
      <4>2. CASE old_head[d] = top_
        <5>1. top_.ptr # NoCargo
              BY <3>1, <4>2 DEF StackInv, StackHeads
        <5> QED BY <4>2, <5>1, ListFacts
      <4> QED BY <3>1, <4>1, <4>2
    <3>3. heap'[old_head[d].ptr] = heap[old_head[d].ptr]
          BY <1>8, <1>10, <3>2
    <3> QED BY <1>2, <3>1, <3>3 DEF StackInv, StackHeads
  <2>4. top_'.tag = Untagged =>
          \A d, e \in Few : at'[d] # "gone" /\ at'[e] # "gone" => d = e
    <3>1. \A d \in Few : at'[d] # "gone" => at[d] # "gone"
          BY <1>2, <1>9
    <3> QED BY <1>2, <3>1 DEF StackInv, StackHeads
  <2> QED BY <2>2, <2>3, <2>4 DEF StackHeads
<1>17. Stack!TypeOK'
  <2>1. Stack!Empty \in Stack!Heads
        BY ValueBounds DEF Stack!Heads, Stack!Empty, Stack!Pointers
  <2>2. old_head' \in [A \cup Few -> Stack!Heads]
        BY <1>2, <1>3, <2>1
  <2>3. popped' \in SUBSET Stack!Values
        BY <1>2, <1>5, OutBound, ValueBounds
  <2>4. heap' \in [Addresses -> [data : Stack!Values, next : Stack!Pointers]
                                   \cup {Freed}]
        BY <1>2, <1>3
  <2>5. at' \in [Few -> {"testing", "loading", "reading", "swapping",
                         "owning", "counting", "gone"}]
        BY <1>2, <1>3
  <2> QED BY <1>2, <2>2, <2>3, <2>4, <2>5 DEF StackInv, Stack!TypeOK
<1> QED BY <1>8, <1>10, <1>11, <1>12, <1>13, <1>14, <1>15, <1>16, <1>17
        DEF StackInv

\* The counter is increased: it never exceeds the number of values.
LEMMA StackCountsUp ==
  ASSUME NEW s \in Stack!Paths, StackInv(s), NEW c \in Few, Stack!Count(c)
  PROVE  StackInv(s)' /\ Stack!out' = Stack!out
<1>1. /\ UNCHANGED <<top_, heap, old_head, node, pushes, new_ptr, popped>>
      /\ at[c] = "counting" /\ at' = [at EXCEPT ![c] = "testing"]
      /\ total_popped' = total_popped + 1
      BY DEF Stack!Count
<1>2. at \in [Few -> {"testing", "loading", "reading", "swapping",
                      "owning", "counting", "gone"}]
      BY DEF StackInv, Stack!TypeOK
<1>3. /\ Owners' = Owners /\ InList(s)' = InList(s)
      /\ PushedValues' = PushedValues
      BY <1>1, <1>2 DEF Owners, InList, PushedValues
<1>4. Resident(s)' = Resident(s)
      BY <1>1, <1>3 DEF Resident
<1>5. Stack!out' = Stack!out
  <2>1. Stack!out = popped \cup {heap[old_head[d].ptr].data : d \in Owners}
        BY OutIs
  <2>2. (Stack!out = popped \cup {heap[old_head[d].ptr].data : d \in Owners})'
        BY OutIsNext
  <2> QED BY <1>1, <1>3, <2>1, <2>2
<1>6. StackList(s)'
      BY <1>1 DEF StackInv, StackList, Stack!IsChain, Stack!After, Stack!Living
<1>7. StackNodes(s)'
      BY <1>1, <1>4 DEF StackInv, StackNodes
<1>8. StackValues(s)'
      BY <1>1, <1>3, <1>4 DEF StackInv, StackValues
<1>9. StackHeads(s)'
  <2>1. \A d \in Few : /\ at'[d] # "gone" => at[d] # "gone"
                       /\ at'[d] \in {"reading", "swapping"} => at'[d] = at[d]
        BY <1>1, <1>2
  <2> QED BY <1>1, <1>3, <2>1 DEF StackInv, StackHeads
<1>10. /\ total_popped' \in 0..Stack!Total
       /\ StackCounts'
  <2>1. PICK S : S = {d \in Few : at[d] = "counting"}
        OBVIOUS
  <2>2. IsFiniteSet(S) /\ c \in S
        BY <1>1, <2>1, FS_Subset, ExercisesAssumption, StackAssumption
  <2>3. {d \in Few : at[d] = "counting"}' = S \ {c}
        BY <1>1, <1>2, <2>1
  <2>4. /\ Cardinality({d \in Few : at[d] = "counting"}') = Cardinality(S) - 1
        /\ IsFiniteSet(S \ {c}) /\ Cardinality(S \ {c}) \in Nat
        BY <2>2, <2>3, FS_RemoveElement, FS_CardinalityType
  <2>5. /\ Cardinality(S) \in Nat /\ total_popped \in Nat
        /\ Cardinality(popped) = total_popped + Cardinality(S)
        /\ Cardinality(popped) \in 0..Stack!Total /\ Stack!Total \in Nat
    <3>1. Cardinality(S) \in Nat
          BY <2>2, FS_CardinalityType
    <3>2. Cardinality(popped) = total_popped + Cardinality(S)
          BY <2>1 DEF StackInv, StackCounts
    <3>3. total_popped \in Nat /\ Stack!Total \in Nat
          BY ValueBounds DEF StackInv, Stack!TypeOK
    <3>4. Cardinality(popped) \in 0..Stack!Total
          BY ValueBounds, OutBound
    <3> QED BY <3>1, <3>2, <3>3, <3>4
  <2>6. Cardinality(S) - 1 \in Nat
        BY <2>3, <2>4
  <2>7. Cardinality(popped') =
          total_popped' + Cardinality({d \in Few : at[d] = "counting"}')
        BY <1>1, <2>4, <2>5
  <2>8. top_'.tag # Untagged =>
          top_'.tag = Cardinality(PushedValues') + Cardinality(Stack!out')
        BY <1>1, <1>3, <1>5 DEF StackInv, StackCounts
  <2>9. total_popped' \in 0..Stack!Total
        BY <1>1, <2>5, <2>6
  <2> QED BY <2>7, <2>8, <2>9 DEF StackCounts
<1>11. Stack!TypeOK'
  <2>1. at' \in [Few -> {"testing", "loading", "reading", "swapping",
                         "owning", "counting", "gone"}]
        BY <1>1, <1>2
  <2> QED BY <1>1, <1>10, <2>1 DEF StackInv, Stack!TypeOK
<1> QED BY <1>5, <1>6, <1>7, <1>8, <1>9, <1>10, <1>11 DEF StackInv

\* A step of a popping thread that only looks: the memory, the top and the
\* counters stay as they are.
LEMMA StackLooks ==
  ASSUME NEW s \in Stack!Paths, StackInv(s), NEW c \in Few,
         UNCHANGED <<top_, heap, node, pushes, popped, total_popped>>,
         at[c] \notin {"owning", "counting"},
         NEW l \in {"testing", "loading", "reading", "swapping", "gone"},
         at' = [at EXCEPT ![c] = l],
         NEW h \in Stack!Heads, old_head' = [old_head EXCEPT ![c] = h],
         NEW e \in Stack!Pointers, new_ptr' = [new_ptr EXCEPT ![c] = e],
         top_.tag = Untagged /\ l # "gone" => at[c] # "gone",
         l \in {"reading", "swapping"} =>
           /\ h.ptr # NoCargo
           /\ top_.tag = Untagged => h.ptr \in InList(s)
           /\ top_.tag # Untagged => /\ h.tag # Untagged /\ h.tag <= top_.tag
                                     /\ h.tag = top_.tag => h = top_,
         l = "swapping" /\ (h = top_ \/ top_.tag = Untagged)
           => e = heap[h.ptr].next
  PROVE  StackInv(s)' /\ Stack!out' = Stack!out
<1>1. /\ old_head \in [A \cup Few -> Stack!Heads]
      /\ at \in [Few -> {"testing", "loading", "reading", "swapping",
                         "owning", "counting", "gone"}]
      /\ new_ptr \in [Few -> Stack!Pointers]
      BY DEF StackInv, Stack!TypeOK
<1>2. c \notin A
      BY ExercisesAssumption, StackAssumption
<1>3. /\ at'[c] = l /\ old_head'[c] = h /\ new_ptr'[c] = e
      /\ \A d \in Few \ {c} : /\ at'[d] = at[d] /\ old_head'[d] = old_head[d]
                              /\ new_ptr'[d] = new_ptr[d]
      /\ \A p \in A : old_head'[p] = old_head[p]
      BY <1>1, <1>2
<1>4. /\ Owners' = Owners /\ c \notin Owners
      /\ InList(s)' = InList(s) /\ PushedValues' = PushedValues
      /\ \A d \in Owners : old_head'[d] = old_head[d]
      BY <1>3 DEF Owners, InList, PushedValues
<1>5. Resident(s)' = Resident(s)
      BY <1>4 DEF Resident
<1>6. Stack!out' = Stack!out
  <2>1. Stack!out = popped \cup {heap[old_head[d].ptr].data : d \in Owners}
        BY OutIs
  <2>2. (Stack!out = popped \cup {heap[old_head[d].ptr].data : d \in Owners})'
        BY OutIsNext
  <2> QED BY <1>4, <2>1, <2>2
<1>7. StackList(s)'
      BY DEF StackInv, StackList, Stack!IsChain, Stack!After, Stack!Living
<1>8. StackNodes(s)'
      BY <1>3, <1>5 DEF StackInv, StackNodes
<1>9. StackValues(s)'
      BY <1>4, <1>5 DEF StackInv, StackValues
<1>10. StackCounts'
  <2>1. {d \in Few : at[d] = "counting"}' = {d \in Few : at[d] = "counting"}
        BY <1>3
  <2> QED BY <1>4, <1>6, <2>1 DEF StackInv, StackCounts
<1>11. StackHeads(s)'
  <2>1. ASSUME NEW d \in Few, at'[d] \in {"reading", "swapping"}
        PROVE  /\ old_head'[d].ptr # NoCargo
               /\ top_'.tag = Untagged => old_head'[d].ptr \in InList(s)'
               /\ top_'.tag # Untagged =>
                    /\ old_head'[d].tag # Untagged
                    /\ old_head'[d].tag <= top_'.tag
                    /\ old_head'[d].tag = top_'.tag => old_head'[d] = top_'
    <3>1. CASE d = c
          BY <1>3, <1>4, <2>1, <3>1
    <3>2. CASE d # c
          BY <1>3, <1>4, <2>1, <3>2 DEF StackInv, StackHeads
    <3> QED BY <3>1, <3>2
  <2>2. ASSUME NEW d \in Few, at'[d] = "swapping",
               old_head'[d] = top_' \/ top_'.tag = Untagged
        PROVE  new_ptr'[d] = heap'[old_head'[d].ptr].next
    <3>1. CASE d = c
          BY <1>3, <2>2, <3>1
    <3>2. CASE d # c
          BY <1>3, <2>2, <3>2 DEF StackInv, StackHeads
    <3> QED BY <3>1, <3>2
  <2>3. top_'.tag = Untagged =>
          \A d, f \in Few : at'[d] # "gone" /\ at'[f] # "gone" => d = f
    <3>1. top_.tag = Untagged => \A d \in Few : at'[d] # "gone" => at[d] # "gone"
          BY <1>3
    <3> QED BY <3>1 DEF StackInv, StackHeads
  <2> QED BY <2>1, <2>2, <2>3 DEF StackHeads
<1>12. Stack!TypeOK'
  <2>1. old_head' \in [A \cup Few -> Stack!Heads]
        BY <1>1
  <2>2. new_ptr' \in [Few -> Stack!Pointers]
        BY <1>1
  <2>3. at' \in [Few -> {"testing", "loading", "reading", "swapping",
                         "owning", "counting", "gone"}]
        BY <1>1
  <2> QED BY <2>1, <2>2, <2>3 DEF StackInv, Stack!TypeOK
<1> QED BY <1>6, <1>7, <1>8, <1>9, <1>10, <1>11, <1>12 DEF StackInv

LEMMA StackTests ==
  ASSUME NEW s \in Stack!Paths, StackInv(s), NEW c \in Few, Stack!Test(c)
  PROVE  StackInv(s)' /\ Stack!out' = Stack!out
<1>1. /\ UNCHANGED <<top_, heap, node, pushes, popped, total_popped>>
      /\ UNCHANGED <<old_head, new_ptr>>
      /\ at[c] = "testing"
      BY DEF Stack!Test
<1>2. PICK l \in {"loading", "gone"} : at' = [at EXCEPT ![c] = l]
      BY DEF Stack!Test
<1>3. PICK h : h = old_head[c]
      OBVIOUS
<1>4. PICK e : e = new_ptr[c]
      OBVIOUS
<1>5. /\ h \in Stack!Heads /\ old_head' = [old_head EXCEPT ![c] = h]
      /\ e \in Stack!Pointers /\ new_ptr' = [new_ptr EXCEPT ![c] = e]
      BY <1>1, <1>3, <1>4 DEF StackInv, Stack!TypeOK
<1> QED BY <1>1, <1>2, <1>5, StackLooks

LEMMA StackLoads ==
  ASSUME NEW s \in Stack!Paths, StackInv(s), NEW c \in Few, Stack!Load(c)
  PROVE  StackInv(s)' /\ Stack!out' = Stack!out
<1>1. /\ UNCHANGED <<top_, heap, node, pushes, popped, total_popped>>
      /\ at[c] \in {"loading", "swapping"}
      /\ new_ptr' = [new_ptr EXCEPT ![c] = NoCargo]
      /\ NoCargo \in Stack!Pointers
      BY DEF Stack!Load, Stack!Pointers
<1>2. top_ \in Stack!Heads /\ Stack!Empty \in Stack!Heads
      BY ValueBounds DEF StackInv, Stack!TypeOK, Stack!Heads, Stack!Empty,
                         Stack!Pointers
<1>3. CASE top_.ptr = NoCargo
  <2>1. /\ at' = [at EXCEPT ![c] = "testing"]
        /\ old_head' = [old_head EXCEPT ![c] = Stack!Empty]
        BY <1>3 DEF Stack!Load
  <2> QED BY <1>1, <1>2, <2>1, StackLooks
<1>4. CASE top_.ptr # NoCargo
  <2>1. PICK h : h = top_
        OBVIOUS
  <2>2. /\ at' = [at EXCEPT ![c] = "reading"]
        /\ old_head' = [old_head EXCEPT ![c] = h]
        BY <1>4, <2>1 DEF Stack!Load
  <2>3. h.ptr # NoCargo /\ h.ptr \in InList(s)
        BY <1>4, <2>1, ListFacts
  <2>4. top_.tag # Untagged => h.tag <= top_.tag
    <3>1. top_.tag \in 0..2 * Stack!Total \cup {Untagged}
          BY <1>2 DEF Stack!Heads
    <3>2. top_.tag \in Nat \cup {Untagged}
          BY <3>1, ValueBounds
    <3> QED BY <2>1, <3>2
  <2> QED BY <1>1, <1>2, <2>1, <2>2, <2>3, <2>4, StackLooks
<1> QED BY <1>3, <1>4

LEMMA StackReads ==
  ASSUME NEW s \in Stack!Paths, StackInv(s), NEW c \in Few, Stack!ReadNext(c)
  PROVE  StackInv(s)' /\ Stack!out' = Stack!out
<1>1. /\ UNCHANGED <<top_, heap, node, pushes, popped, total_popped, old_head>>
      /\ at[c] = "reading" /\ at' = [at EXCEPT ![c] = "swapping"]
      BY DEF Stack!ReadNext
<1>2. PICK h : h = old_head[c]
      OBVIOUS
<1>3. h \in Stack!Heads /\ old_head' = [old_head EXCEPT ![c] = h]
      BY <1>1, <1>2 DEF StackInv, Stack!TypeOK
<1>4. PICK e \in IF h.ptr \in Stack!Living THEN {heap[h.ptr].next}
                 ELSE Stack!Pointers :
        new_ptr' = [new_ptr EXCEPT ![c] = e]
      BY <1>2 DEF Stack!ReadNext
<1>5. e \in Stack!Pointers
      BY <1>4 DEF StackInv, Stack!TypeOK, Stack!Living
<1>6. /\ h.ptr # NoCargo
      /\ top_.tag = Untagged => h.ptr \in InList(s)
      /\ top_.tag # Untagged => /\ h.tag # Untagged /\ h.tag <= top_.tag
                                /\ h.tag = top_.tag => h = top_
      BY <1>1, <1>2 DEF StackInv, StackHeads
\* The node that is still on top, or that nobody else can pop, is alive.
<1>7. h = top_ \/ top_.tag = Untagged => e = heap[h.ptr].next
  <2>1. h = top_ => h.ptr \in InList(s)
        BY <1>6, ListFacts
  <2>2. \A a \in InList(s) : a \in Stack!Living
        BY DEF StackInv, StackValues, Resident, Stack!Living
  <2> QED BY <1>4, <1>6, <2>1, <2>2
<1> QED BY <1>1, <1>3, <1>4, <1>5, <1>6, <1>7, StackLooks

\* Every step keeps the list, lets it grow by a new value, or takes its first
\* node away.
LEMMA StackSteps ==
  ASSUME NEW s \in Stack!Paths, StackInv(s), Stack!Next
  PROVE  \E t \in Stack!Paths :
           /\ StackInv(t)'
           /\ \/ /\ t = s /\ Stack!out' = Stack!out
                 /\ \A k \in 1..Len(s) : heap'[s[k]] = heap[s[k]]
              \/ \E v \in (A \X (1..Ops)) \ PushedValues :
                   /\ Len(t) = Len(s) + 1
                   /\ heap'[t[1]].data = v
                   /\ \A k \in 1..Len(s) : t[k + 1] = s[k]
                   /\ Stack!out' = Stack!out /\ heap' = heap
              \/ /\ Len(s) >= 1 /\ Len(t) = Len(s) - 1
                 /\ \A k \in 1..Len(t) : t[k] = s[k + 1]
                 /\ Stack!out' = Stack!out \cup {heap[s[1]].data}
                 /\ heap' = heap
<1>1. ASSUME NEW p \in A, Stack!Prepare(p)
      PROVE  /\ StackInv(s)' /\ Stack!out' = Stack!out
             /\ \A k \in 1..Len(s) : heap'[s[k]] = heap[s[k]]
  <2>1. PICK a \in Addresses :
          /\ heap[a] = Freed
          /\ heap' = [heap EXCEPT ![a] = [data |-> <<p, pushes[p] + 1>>,
                                          next |-> top_.ptr]]
        BY <1>1 DEF Stack!Prepare, Stack!Living
  <2>2. \A k \in 1..Len(s) : s[k] \in Addresses /\ s[k] # a
        BY <2>1, ListFacts
  <2> QED BY <1>1, <2>1, <2>2, StackPrepares DEF StackInv, Stack!TypeOK
<1>2. ASSUME NEW p \in A, Stack!Relink(p)
      PROVE  /\ StackInv(s)' /\ Stack!out' = Stack!out
             /\ \A k \in 1..Len(s) : heap'[s[k]] = heap[s[k]]
  <2>1. /\ node[p] # NoCargo
        /\ heap' = [heap EXCEPT ![node[p]].next = top_.ptr]
        BY <1>2 DEF Stack!Relink
  <2>2. \A k \in 1..Len(s) : s[k] \in Addresses /\ s[k] # node[p]
        BY <2>1, NodeFacts, ListFacts DEF Resident
  <2> QED BY <1>2, <2>1, <2>2, StackRelinks DEF StackInv, Stack!TypeOK
<1>3. ASSUME NEW p \in A, Stack!Push(p)
      PROVE  \E t \in Stack!Paths, v \in (A \X (1..Ops)) \ PushedValues :
               /\ StackInv(t)'
               /\ Len(t) = Len(s) + 1
               /\ heap'[t[1]].data = v
               /\ \A k \in 1..Len(s) : t[k + 1] = s[k]
               /\ Stack!out' = Stack!out /\ heap' = heap
  <2>1. PICK v : v = <<p, pushes[p] + 1>>
        OBVIOUS
  <2>2. PICK t \in Stack!Paths :
          /\ StackInv(t)'
          /\ Len(t) = Len(s) + 1
          /\ t[1] = node[p] /\ \A k \in 1..Len(s) : t[k + 1] = s[k]
          /\ Stack!out' = Stack!out /\ heap' = heap
          /\ heap[node[p]].data = v
          /\ v \in (A \X (1..Ops)) \ PushedValues
        BY <1>3, <2>1, StackPushes
  <2>3. heap'[t[1]].data = v
        BY <2>2
  <2> QED BY <2>2, <2>3
<1>4. ASSUME NEW c \in Few, Stack!Test(c) \/ Stack!Load(c) \/ Stack!ReadNext(c)
                            \/ Stack!Count(c)
      PROVE  /\ StackInv(s)' /\ Stack!out' = Stack!out /\ heap' = heap
  <2>1. heap' = heap
        BY <1>4 DEF Stack!Test, Stack!Load, Stack!ReadNext, Stack!Count
  <2> QED BY <1>4, <2>1, StackTests, StackLoads, StackReads, StackCountsUp
<1>5. ASSUME NEW c \in Few, Stack!Delete(c)
      PROVE  /\ StackInv(s)' /\ Stack!out' = Stack!out
             /\ \A k \in 1..Len(s) : heap'[s[k]] = heap[s[k]]
      BY <1>5, StackDeletes, ListFacts
<1>6. ASSUME NEW c \in Few, Stack!Pop(c)
      PROVE  \E t \in Stack!Paths :
               /\ StackInv(t)'
               /\ Len(s) >= 1 /\ Len(t) = Len(s) - 1
               /\ \A k \in 1..Len(t) : t[k] = s[k + 1]
               /\ Stack!out' = Stack!out \cup {heap[s[1]].data}
               /\ heap' = heap
      BY <1>6, StackPops
<1>7. CASE UNCHANGED stackVars
  <2>1. /\ UNCHANGED <<top_, heap, old_head, node, pushes, at, new_ptr, popped,
                       total_popped>>
        BY <1>7 DEF stackVars
  <2>2. StackInv(s)'
        BY <2>1 DEF StackInv, Stack!TypeOK, StackList, StackNodes, StackValues,
                    StackCounts, StackHeads, InList, Resident, Owners,
                    PushedValues, Stack!IsChain, Stack!After, Stack!Living,
                    Stack!out, Stack!Owned
  <2>3. Stack!out' = Stack!out
        BY <2>1 DEF Stack!out, Stack!Owned
  <2> QED BY <2>1, <2>2, <2>3
<1>8. \/ \E p \in A : Stack!Prepare(p) \/ Stack!Push(p) \/ Stack!Relink(p)
      \/ \E c \in Few : \/ Stack!Test(c) \/ Stack!Load(c) \/ Stack!ReadNext(c)
                        \/ Stack!Count(c) \/ Stack!Pop(c) \/ Stack!Delete(c)
      \/ UNCHANGED stackVars
      BY DEF Stack!Next, Stack!Pusher, Stack!Popper, Stack!Terminated,
             Stack!vars, stackVars
<1> QED BY <1>1, <1>2, <1>3, <1>4, <1>5, <1>6, <1>7, <1>8

\* While another program runs nothing happens to the stack.
LEMMA StackIdles ==
  ASSUME [Next]_vars
  PROVE  Stack!Next \/ UNCHANGED stackVars
<1>1. CASE RunStack
      BY <1>1 DEF RunStack
<1>2. CASE RunBuffer \/ RunSlot \/ RunRW \/ RunOrder \/ RunLatch \/ RunMpsc
           \/ RunLesson \/ UNCHANGED vars
      BY <1>2 DEF RunBuffer, RunSlot, RunRW, RunOrder, RunLatch, RunMpsc,
                  RunLesson, vars
<1> QED BY <1>1, <1>2 DEF Next

StackRight == \E s \in Stack!Paths : StackInv(s)

LEMMA StackStep == StackRight /\ [Next]_vars => StackRight'
<1> SUFFICES ASSUME StackRight, [Next]_vars PROVE StackRight'
    OBVIOUS
<1>1. PICK s \in Stack!Paths : StackInv(s)
      BY DEF StackRight
<1>2. \E t \in Stack!Paths : StackInv(t)'
  <2>1. CASE Stack!Next
        BY <1>1, <2>1, StackSteps
  <2>2. CASE UNCHANGED stackVars
    <3>1. StackInv(s)'
      <4>1. /\ UNCHANGED <<top_, heap, old_head, node, pushes, at, new_ptr,
                           popped, total_popped>>
            BY <2>2 DEF stackVars
      <4> QED BY <1>1, <4>1
              DEF StackInv, Stack!TypeOK, StackList, StackNodes, StackValues,
                  StackCounts, StackHeads, InList, Resident, Owners,
                  PushedValues, Stack!IsChain, Stack!After, Stack!Living,
                  Stack!out, Stack!Owned
    <3> QED BY <3>1
  <2> QED BY <2>1, <2>2, StackIdles
<1> QED BY <1>2 DEF StackRight

\* The lock-free stack keeps an unbroken chain of living nodes, loses no value
\* and leaks no node, whatever addresses new hands out again; without a tag it
\* does so for one popping thread, which reads no deleted node.
THEOREM LockFreeCorrect == Spec => []LockFreeSafe
<1>1. Init => StackRight
      BY StackBegins DEF Init, StackRight
<1>2. StackRight => LockFreeSafe
      BY StackMeans DEF StackRight
<1> QED BY <1>1, <1>2, StackStep, PTL DEF Spec

-----------------------------------------------------------------------------
\* The refinement.

\* A path that is the list is what the model reads from memory.
LEMMA ReachedAlways ==
  \A s \in Stack!Paths : Stack!IsChain(s) => Stack!Reached = s
BY ReachedIs

LEMMA ReachedNext ==
  (\A s \in Stack!Paths : Stack!IsChain(s) => Stack!Reached = s)'
BY ReachedAlways, PTL

\* The abstract stack is what the nodes of the list hold.
LEMMA StackIs ==
  ASSUME NEW s \in Stack!Paths
  PROVE  /\ StackInv(s) => Stack!stack = [k \in 1..Len(s) |-> heap[s[k]].data]
         /\ StackInv(s)' => Stack!stack' = [k \in 1..Len(s) |-> heap'[s[k]].data]
<1>1. StackInv(s) => Stack!Reached = s
      BY ReachedAlways DEF StackInv, StackList
<1>2. StackInv(s)' => Stack!Reached' = s
  <2>1. Stack!IsChain(s)' => Stack!Reached' = s
        BY ReachedNext
  <2> QED BY <2>1 DEF StackInv, StackList
<1> QED BY <1>1, <1>2 DEF Stack!stack

\* Every step of the program is a step of the abstract stack or none.
LEMMA StackSimulates ==
  ASSUME StackRight, [Next]_vars
  PROVE  [Stack!Lifo!Next]_<<Stack!stack, Stack!out>>
<1>1. PICK s \in Stack!Paths : StackInv(s)
      BY DEF StackRight
<1>2. PICK n \in Nat : n = Len(s)
      BY <1>1, ListFacts
<1>3. Stack!stack = [k \in 1..n |-> heap[s[k]].data]
      BY <1>1, <1>2, StackIs
<1>4. /\ Stack!out \subseteq PushedValues
      /\ \A k \in 1..n : heap[s[k]].data \in PushedValues
  <2>1. \A k \in 1..n : s[k] \in Resident(s)
        BY <1>1, <1>2, ListFacts DEF Resident
  <2> QED BY <1>1, <2>1, OutBound DEF StackInv, StackValues
<1>5. CASE UNCHANGED stackVars
  <2>1. StackInv(s)' /\ heap' = heap /\ Stack!out' = Stack!out
    <3>1. /\ UNCHANGED <<top_, heap, old_head, node, pushes, at, new_ptr,
                         popped, total_popped>>
          BY <1>5 DEF stackVars
    <3> QED BY <1>1, <3>1
            DEF StackInv, Stack!TypeOK, StackList, StackNodes, StackValues,
                StackCounts, StackHeads, InList, Resident, Owners,
                PushedValues, Stack!IsChain, Stack!After, Stack!Living,
                Stack!out, Stack!Owned
  <2>2. Stack!stack' = Stack!stack
        BY <1>1, <2>1, StackIs
  <2> QED BY <2>1, <2>2
<1>6. ASSUME Stack!Next
      PROVE  [Stack!Lifo!Next]_<<Stack!stack, Stack!out>>
  <2>1. PICK t \in Stack!Paths :
           /\ StackInv(t)'
           /\ \/ /\ t = s /\ Stack!out' = Stack!out
                 /\ \A k \in 1..Len(s) : heap'[s[k]] = heap[s[k]]
              \/ \E v \in (A \X (1..Ops)) \ PushedValues :
                   /\ Len(t) = Len(s) + 1
                   /\ heap'[t[1]].data = v
                   /\ \A k \in 1..Len(s) : t[k + 1] = s[k]
                   /\ Stack!out' = Stack!out /\ heap' = heap
              \/ /\ Len(s) >= 1 /\ Len(t) = Len(s) - 1
                 /\ \A k \in 1..Len(t) : t[k] = s[k + 1]
                 /\ Stack!out' = Stack!out \cup {heap[s[1]].data}
                 /\ heap' = heap
        BY <1>1, <1>6, StackSteps
  <2>2. Stack!stack' = [k \in 1..Len(t) |-> heap'[t[k]].data]
        BY <2>1, StackIs
  <2>3. CASE t = s /\ Stack!out' = Stack!out
             /\ \A k \in 1..Len(s) : heap'[s[k]] = heap[s[k]]
        BY <1>2, <1>3, <2>2, <2>3
  <2>4. ASSUME NEW v \in (A \X (1..Ops)) \ PushedValues,
               Len(t) = Len(s) + 1, heap'[t[1]].data = v,
               \A k \in 1..Len(s) : t[k + 1] = s[k],
               Stack!out' = Stack!out, heap' = heap
        PROVE  Stack!Lifo!Next
    <3>1. PICK w : w = Stack!stack
          OBVIOUS
    <3>2. w \in Seq(A \X (1..Ops)) /\ Len(w) = n
          /\ \A k \in 1..n : w[k] = heap[s[k]].data
      <4>1. \A k \in 1..n : heap[s[k]].data \in A \X (1..Ops)
            BY <1>1, <1>4, OutBound
      <4>2. w \in [1..n -> A \X (1..Ops)]
            BY <1>3, <3>1, <4>1
      <4>3. w \in Seq(A \X (1..Ops))
            BY <1>2, <4>2, SeqDef
      <4> QED BY <1>2, <1>3, <3>1, <4>2, <4>3, LenProperties
    <3>3. Stack!stack' = <<v>> \o w
      <4>1. /\ <<v>> \o w \in Seq(A \X (1..Ops)) /\ Len(<<v>> \o w) = n + 1
            /\ (<<v>> \o w)[1] = v
            /\ \A k \in 1..n : (<<v>> \o w)[k + 1] = w[k]
            BY <1>2, <2>4, <3>2, ConcatProperties
      <4>2. /\ Stack!stack' = [k \in 1..n + 1 |-> heap'[t[k]].data]
            BY <1>2, <2>2, <2>4
      <4>3. ASSUME NEW k \in 1..n + 1
            PROVE  heap'[t[k]].data = (<<v>> \o w)[k]
        <5>1. CASE k = 1
              BY <2>4, <4>1, <5>1
        <5>2. CASE k # 1
          <6>1. k - 1 \in 1..n /\ (k - 1) + 1 = k
                BY <1>2, <5>2
          <6>2. t[k] = s[k - 1]
                BY <1>2, <2>4, <6>1
          <6> QED BY <2>4, <3>2, <4>1, <6>1, <6>2
        <5> QED BY <5>1, <5>2
      <4>4. <<v>> \o w = [k \in 1..n + 1 |-> (<<v>> \o w)[k]]
            BY <1>2, <4>1, LenProperties
      <4> QED BY <4>2, <4>3, <4>4
    <3>4. v \notin Stack!out \cup {w[k] : k \in 1..n}
          BY <1>4, <2>4, <3>2
    <3>5. Stack!Lifo!ToSet(w) = {w[k] : k \in 1..n}
          BY <1>2, <3>2, LenProperties DEF Stack!Lifo!ToSet
    <3>6. Stack!Lifo!Push(v)
          BY <2>4, <3>1, <3>3, <3>4, <3>5 DEF Stack!Lifo!Push, Stack!Lifo!Cons
    <3>7. v \in Stack!Values
          BY <2>4, ValueBounds
    <3> QED BY <3>6, <3>7 DEF Stack!Lifo!Next
  <2>5. ASSUME Len(s) >= 1, Len(t) = Len(s) - 1,
               \A k \in 1..Len(t) : t[k] = s[k + 1],
               Stack!out' = Stack!out \cup {heap[s[1]].data},
               heap' = heap
        PROVE  Stack!Lifo!Next
    <3>1. PICK w : w = Stack!stack
          OBVIOUS
    <3>2. w \in Seq(A \X (1..Ops)) /\ Len(w) = n
          /\ \A k \in 1..n : w[k] = heap[s[k]].data
      <4>1. \A k \in 1..n : heap[s[k]].data \in A \X (1..Ops)
            BY <1>1, <1>4, OutBound
      <4>2. w \in [1..n -> A \X (1..Ops)]
            BY <1>3, <3>1, <4>1
      <4>3. w \in Seq(A \X (1..Ops))
            BY <1>2, <4>2, SeqDef
      <4> QED BY <1>2, <1>3, <3>1, <4>2, <4>3, LenProperties
    <3>3. n >= 1 /\ w # << >> /\ Head(w) = heap[s[1]].data
      <4>1. n >= 1 /\ 1 \in 1..n
            BY <1>2, <2>5
      <4>2. w # << >>
            BY <3>2, <4>1, EmptySeq
      <4> QED BY <3>2, <4>1, <4>2, HeadTailProperties
    <3>4. Stack!stack' = Tail(w)
      <4>1. /\ Tail(w) \in Seq(A \X (1..Ops)) /\ Len(Tail(w)) = n - 1
            /\ \A k \in 1..n - 1 : Tail(w)[k] = w[k + 1]
            BY <3>2, <3>3, HeadTailProperties
      <4>2. Stack!stack' = [k \in 1..n - 1 |-> heap[s[k + 1]].data]
            BY <1>2, <2>2, <2>5
      <4>3. \A k \in 1..n - 1 : k + 1 \in 1..n
            BY <1>2
      <4>4. Tail(w) = [k \in 1..n - 1 |-> Tail(w)[k]]
            BY <4>1, LenProperties
      <4> QED BY <3>2, <4>1, <4>2, <4>3, <4>4
    <3>5. Stack!Lifo!Pop
          BY <2>5, <3>1, <3>3, <3>4 DEF Stack!Lifo!Pop
    <3> QED BY <3>5 DEF Stack!Lifo!Next
  <2> QED BY <2>1, <2>3, <2>4, <2>5
<1> QED BY <1>5, <1>6, StackIdles

\* The stack implements the abstract one: a value is put on top once, and the
\* one that leaves is the one on top.
THEOREM StackImplementsLifo == Spec => StackIsLifo
<1>1. Init => StackRight /\ Stack!Lifo!Init
  <2> SUFFICES ASSUME Init PROVE StackRight /\ Stack!Lifo!Init
      OBVIOUS
  <2>1. PICK s \in Stack!Paths : StackInv(s) /\ s = << >>
        BY StackBegins DEF Init
  <2>2. Len(s) = 0
        BY <2>1
  <2>3. Stack!stack = << >>
    <3>1. Stack!stack = [k \in 1..0 |-> heap[s[k]].data]
          BY <2>1, <2>2, StackIs
    <3> QED BY <3>1
  <2>4. Stack!out = {}
        BY DEF Init, Stack!Init, Stack!out, Stack!Owned
  <2> QED BY <2>1, <2>3, <2>4 DEF StackRight, Stack!Lifo!Init
<1> QED BY <1>1, StackStep, StackSimulates, PTL
        DEF Spec, StackIsLifo, Stack!IsStack, Stack!Lifo!Spec
=============================================================================
