----------------------------- MODULE SpscQueue ------------------------------
(***************************************************************************)
(* spsc_queue of 6_lockFree/lockfree_queue.cpp: a ring buffer between one  *)
(* producer and one consumer, and the program that sends Total items       *)
(* through it.                                                             *)
(*                                                                         *)
(* write_pos_ and read_pos_ are read with memory_order_acquire, which does *)
(* not promise the latest value.  The model keeps, for each of them, how   *)
(* often it was stored (written, read) and which store the other thread    *)
(* has seen last (seen_written, seen_read): a load returns any store from  *)
(* there to the latest one.  What a thread has seen is also what happens   *)
(* before its next step.                                                   *)
(***************************************************************************)
EXTENDS Integers, TLAPS

CONSTANTS
  Capacity,     \* of the ring; a power of two in the code
  Total,        \* total_items
  Nothing       \* a slot of the buffer that was never written

ASSUME SpscAssumption == Capacity \in Nat \ {0} /\ Total \in Nat

VARIABLES
  buffer,       \* buffer_
  written,      \* the number of stores to write_pos_
  read,         \* the number of stores to read_pos_
  seen_read,    \* the store of read_pos_ that the producer has seen
  seen_written, \* the store of write_pos_ that the consumer has seen
  producer,     \* where the producer is in its loop over the items
  consumer,     \* where the consumer is in its loop
  item          \* the consumer's last successful try_pop

vars == <<buffer, written, read, seen_read, seen_written, producer, consumer,
          item>>

\* The position after n stores: & (Capacity - 1), Capacity a power of two.
Pos(n) == n % Capacity

Init ==
  /\ buffer = [p \in 0..Capacity - 1 |-> Nothing]
  /\ written = 0 /\ read = 0
  /\ seen_read = 0 /\ seen_written = 0
  /\ producer = "checking"
  /\ consumer = "checking"
  /\ item = Nothing

-----------------------------------------------------------------------------

\* next, the position after the one that is about to be written.
NextPos(n) == Pos(n + 1)

\* Mutant: a full ring is overwritten.
CheckFull_NotChecked(s) ==
  /\ producer = "checking"
  /\ written < Total
  /\ s \in seen_read..read
  /\ seen_read' = s
  /\ producer' = "writing"
  /\ UNCHANGED <<buffer, written, read, seen_written, consumer, item>>

\* try_push: the load of read_pos_ returns its s-th store.  On a full ring
\* the call fails and the loop of the program tries again.
CheckFull(s) ==
  /\ producer = "checking"
  /\ written < Total
  /\ s \in seen_read..read
  /\ seen_read' = s
  /\ producer' = IF NextPos(written) = Pos(s) THEN "checking" ELSE "writing"
  /\ UNCHANGED <<buffer, written, read, seen_written, consumer, item>>

\* Mutant: the item is written to the next position.
WriteSlot_AtNext ==
  /\ producer = "writing"
  /\ buffer' = [buffer EXCEPT ![NextPos(written)] = written + 1]
  /\ producer' = "publishing"
  /\ UNCHANGED <<written, read, seen_read, seen_written, consumer, item>>

\* try_push: buffer_[w] = item; the items are numbered from 1.
WriteSlot ==
  /\ producer = "writing"
  /\ buffer' = [buffer EXCEPT ![Pos(written)] = written + 1]
  /\ producer' = "publishing"
  /\ UNCHANGED <<written, read, seen_read, seen_written, consumer, item>>

\* try_push: write_pos_.store(next, release).
Publish ==
  /\ producer = "publishing"
  /\ written' = written + 1
  /\ producer' = "checking"
  /\ UNCHANGED <<buffer, read, seen_read, seen_written, consumer, item>>

\* try_pop: the load of write_pos_ returns its s-th store.  On an empty ring
\* the call fails and the loop of the program tries again.
CheckEmpty(s) ==
  /\ consumer = "checking"
  /\ read < Total
  /\ s \in seen_written..written
  /\ seen_written' = s
  /\ consumer' = IF Pos(read) = Pos(s) THEN "checking" ELSE "reading"
  /\ UNCHANGED <<buffer, written, read, seen_read, producer, item>>

\* try_pop: item = buffer_[r].
ReadSlot ==
  /\ consumer = "reading"
  /\ item' = buffer[Pos(read)]
  /\ consumer' = "releasing"
  /\ UNCHANGED <<buffer, written, read, seen_read, seen_written, producer>>

\* Mutant: read_pos_ is not stored.
Release_Forgotten ==
  /\ consumer = "releasing"
  /\ consumer' = "checking"
  /\ UNCHANGED <<buffer, written, read, seen_read, seen_written, producer,
                 item>>

\* try_pop: read_pos_.store((r + 1) & (Capacity - 1), release).
Release ==
  /\ consumer = "releasing"
  /\ read' = read + 1
  /\ consumer' = "checking"
  /\ UNCHANGED <<buffer, written, seen_read, seen_written, producer, item>>

Producer == (\E s \in 0..Total : CheckFull(s)) \/ WriteSlot \/ Publish
Consumer == (\E s \in 0..Total : CheckEmpty(s)) \/ ReadSlot \/ Release

\* Both threads have left their loops and are joined.
Joined == written = Total /\ read = Total

Terminated == Joined /\ UNCHANGED vars

Next == Producer \/ Consumer \/ Terminated

Spec == Init /\ [][Next]_vars

\* The threads are scheduled, and a store becomes visible at last: a thread
\* that goes on loading sees the latest one sometimes.
FairSpec ==
  /\ Spec
  /\ WF_vars(Producer) /\ WF_vars(Consumer)
  /\ SF_vars(CheckFull(read)) /\ SF_vars(CheckEmpty(written))

-----------------------------------------------------------------------------

TypeOK ==
  /\ buffer \in [0..Capacity - 1 -> (1..Total) \cup {Nothing}]
  /\ written \in 0..Total /\ read \in 0..Total
  /\ seen_read \in 0..Total /\ seen_written \in 0..Total
  /\ producer \in {"checking", "writing", "publishing"}
  /\ consumer \in {"checking", "reading", "releasing"}
  /\ item \in (1..Total) \cup {Nothing}

\* Never more than Capacity - 1 items are in the ring, and what a thread has
\* seen of the other is not ahead of it.
Bounded ==
  /\ seen_read <= read /\ read <= seen_written /\ seen_written <= written
  /\ written - seen_read < Capacity
  /\ producer # "checking" => written < Total /\ written + 1 - seen_read < Capacity
  /\ consumer # "checking" => read < seen_written

\* The slots are not atomic.  An access is no data race because it happens
\* after the other thread's last access to the same slot: the producer has
\* seen the release of every item that was in the slot that it writes, the
\* consumer has seen the publication of the item that it reads.
NoSlotRace ==
  /\ producer = "writing" =>
       \A i \in 0..written - 1 : Pos(i) = Pos(written) => i < seen_read
  /\ consumer = "reading" =>
       /\ read < seen_written
       /\ \A i \in read + 1..written - 1 : Pos(i) # Pos(read)
       /\ producer = "writing" => Pos(read) # Pos(written)

\* No item is lost, repeated or overtaken: the items between read and written
\* are in their slots, and the consumer gets them in the order of their
\* numbers.
Fifo ==
  /\ \A i \in read..written - 1 : buffer[Pos(i)] = i + 1
  /\ producer = "publishing" => buffer[Pos(written)] = written + 1
  /\ item = IF consumer = "releasing" THEN read + 1
            ELSE IF read = 0 THEN Nothing ELSE read

\* All items arrive, in spite of late visibility, with a ring of two slots
\* or more.
AllArrive == Capacity > 1 => <>Joined

-----------------------------------------------------------------------------
\* The ring buffer for every capacity and every number of items.

\* A multiple of a positive number that is positive is at least the number.
LEMMA PositiveMultiple ==
  ASSUME NEW c \in Nat \ {0}, NEW d \in Int, c * d > 0
  PROVE  c * d >= c
<1>1. CASE d <= 0
  <2>1. PICK e \in Nat : d = -e
        BY <1>1
  <2>2. c * e >= 0 /\ c * d = -(c * e)
        BY <2>1
  <2> QED BY <2>2
<1>2. CASE d >= 1
  <2>1. PICK e \in Nat : d = e + 1
        BY <1>2
  <2>2. c * d = c * e + c /\ c * e >= 0
        BY <2>1
  <2> QED BY <2>2
<1> QED BY <1>1, <1>2

\* Two numbers with the same position are at least Capacity apart.
LEMMA SamePosition ==
  ASSUME NEW a \in Nat, NEW b \in Nat, a < b, Pos(a) = Pos(b)
  PROVE  b - a >= Capacity
<1> DEFINE p == a \div Capacity
           q == b \div Capacity
           r == a % Capacity
<1>1. /\ p \in Int /\ q \in Int /\ r \in Int
      /\ a = Capacity * p + r
      /\ b = Capacity * q + (b % Capacity)
      BY SpscAssumption
<1>2. b % Capacity = r
      BY DEF Pos
<1> HIDE DEF p, q, r
<1>3. /\ Capacity * p \in Int /\ Capacity * q \in Int
      /\ Capacity * (q - p) = Capacity * q - Capacity * p
      BY <1>1, SpscAssumption
<1>4. b - a = Capacity * (q - p)
      BY <1>1, <1>2, <1>3
<1>5. q - p \in Int /\ Capacity * (q - p) > 0
      BY <1>1, <1>4
<1> QED BY <1>4, <1>5, PositiveMultiple, SpscAssumption

LEMMA PosType == \A n \in Nat : Pos(n) \in 0..Capacity - 1
BY SpscAssumption DEF Pos

\* A position comes back after Capacity steps.
LEMMA PosWraps == \A n \in Nat : Pos(n + Capacity) = Pos(n)
<1> SUFFICES ASSUME NEW n \in Nat PROVE Pos(n + Capacity) = Pos(n)
    OBVIOUS
<1> DEFINE p == n \div Capacity
           q == (n + Capacity) \div Capacity
           r == n % Capacity
           t == (n + Capacity) % Capacity
           d == (q - p) - 1
<1>1. /\ p \in Int /\ q \in Int /\ r \in 0..Capacity - 1 /\ t \in 0..Capacity - 1
      /\ n = Capacity * p + r
      /\ n + Capacity = Capacity * q + t
      BY SpscAssumption
<1> HIDE DEF p, q, r, t
<1>2. /\ d \in Int /\ -d \in Int
      /\ Capacity * p \in Int /\ Capacity * q \in Int
      /\ Capacity * d = (Capacity * q - Capacity * p) - Capacity
      /\ Capacity * (-d) = -(Capacity * d)
      BY <1>1, SpscAssumption
<1>3. Capacity * d = r - t
      BY <1>1, <1>2, SpscAssumption
<1> HIDE DEF d
<1>4. ~(Capacity * d > 0)
      BY <1>1, <1>2, <1>3, PositiveMultiple, SpscAssumption
<1>5. ~(Capacity * (-d) > 0)
      BY <1>1, <1>2, <1>3, PositiveMultiple, SpscAssumption
<1>6. r = t
      BY <1>1, <1>2, <1>3, <1>4, <1>5, SpscAssumption
<1> QED BY <1>6 DEF Pos, r, t

-----------------------------------------------------------------------------

\* The actions of Next, as one step each.
LEMMA StepCases ==
  ASSUME Next
  PROVE  \/ \E s \in 0..Total : CheckFull(s)
         \/ WriteSlot \/ Publish
         \/ \E s \in 0..Total : CheckEmpty(s)
         \/ ReadSlot \/ Release
         \/ UNCHANGED vars
BY DEF Next, Producer, Consumer, Terminated

Inv == TypeOK /\ Bounded /\ Fifo

LEMMA InvInit == Init => Inv
BY SpscAssumption DEF Init, Inv, TypeOK, Bounded, Fifo

LEMMA TypeStep == TypeOK /\ Bounded /\ [Next]_vars => TypeOK'
<1> SUFFICES ASSUME TypeOK, Bounded, [Next]_vars PROVE TypeOK'
    OBVIOUS
<1> USE SpscAssumption
<1> USE DEF TypeOK, Bounded
<1>1. ASSUME NEW s \in 0..Total, CheckFull(s) \/ CheckEmpty(s)
      PROVE  TypeOK'
      BY <1>1 DEF CheckFull, CheckEmpty
<1>2. CASE WriteSlot
  <2>1. written + 1 \in 1..Total
        BY <1>2 DEF WriteSlot
  <2>2. buffer' \in [0..Capacity - 1 -> (1..Total) \cup {Nothing}]
        BY <1>2, <2>1 DEF WriteSlot
  <2> QED BY <1>2, <2>2 DEF WriteSlot
<1>3. CASE Publish
      BY <1>3 DEF Publish
<1>4. CASE ReadSlot
      BY <1>4, PosType DEF ReadSlot
<1>5. CASE Release
      BY <1>5 DEF Release
<1>6. CASE UNCHANGED vars
      BY <1>6 DEF vars
<1> QED BY <1>1, <1>2, <1>3, <1>4, <1>5, <1>6, StepCases

\* The full and the empty test keep the two ends in their order.
LEMMA BoundedStep == TypeOK /\ Bounded /\ [Next]_vars => Bounded'
<1> SUFFICES ASSUME TypeOK, Bounded, [Next]_vars PROVE Bounded'
    OBVIOUS
<1> USE SpscAssumption
<1> USE DEF TypeOK, Bounded
<1>1. ASSUME NEW s \in 0..Total, CheckFull(s)
      PROVE  Bounded'
  <2>1. s \in Nat /\ seen_read <= s /\ s <= read /\ seen_read' = s
        BY <1>1 DEF CheckFull
  <2>2. UNCHANGED <<written, read, seen_written, consumer>> /\ written < Total
        BY <1>1 DEF CheckFull
  <2>3. ASSUME producer' # "checking"
        PROVE  written + 1 - s < Capacity
    <3>1. Pos(written + 1) # Pos(s)
          BY <1>1, <2>3 DEF CheckFull, NextPos
    <3>2. written + 1 # s + Capacity
          BY <3>1, <2>1, PosWraps
    <3>3. written + 1 - s <= Capacity
          BY <2>1
    <3> QED BY <2>1, <3>2, <3>3
  <2> QED BY <2>1, <2>2, <2>3
<1>2. ASSUME NEW s \in 0..Total, CheckEmpty(s)
      PROVE  Bounded'
  <2>1. s \in Nat /\ seen_written <= s /\ s <= written /\ seen_written' = s
        BY <1>2 DEF CheckEmpty
  <2>2. UNCHANGED <<written, read, seen_read, producer>>
        BY <1>2 DEF CheckEmpty
  <2>3. consumer' # "checking" => read # s
        BY <1>2 DEF CheckEmpty
  <2> QED BY <2>1, <2>2, <2>3
<1>3. CASE WriteSlot
      BY <1>3 DEF WriteSlot
<1>4. CASE Publish
      BY <1>4 DEF Publish
<1>5. CASE ReadSlot \/ Release
      BY <1>5 DEF ReadSlot, Release
<1>6. CASE UNCHANGED vars
      BY <1>6 DEF vars
<1> QED BY <1>1, <1>2, <1>3, <1>4, <1>5, <1>6, StepCases

\* No step disturbs an item that is in the ring.
LEMMA FifoStep == TypeOK /\ Bounded /\ Fifo /\ [Next]_vars => Fifo'
<1> SUFFICES ASSUME TypeOK, Bounded, Fifo, [Next]_vars PROVE Fifo'
    OBVIOUS
<1> USE SpscAssumption
<1>0. /\ written \in Nat /\ read \in Nat /\ seen_read \in Nat
      /\ seen_read <= read /\ written - seen_read < Capacity
      BY DEF TypeOK, Bounded
<1>1. ASSUME NEW s \in 0..Total, CheckFull(s)
      PROVE  Fifo'
      BY <1>1 DEF CheckFull, Fifo
<1>2. ASSUME NEW s \in 0..Total, CheckEmpty(s)
      PROVE  Fifo'
      BY <1>2 DEF CheckEmpty, Fifo
<1>3. CASE WriteSlot
  <2>1. \A i \in read..written - 1 : Pos(i) # Pos(written)
    <3> SUFFICES ASSUME NEW i \in read..written - 1, Pos(i) = Pos(written)
                 PROVE  FALSE
        OBVIOUS
    <3>1. i \in Nat /\ i < written /\ written - i < Capacity
          BY <1>0
    <3> QED BY <3>1, <1>0, SamePosition
  <2>2. \A i \in read..written - 1 : Pos(i) \in 0..Capacity - 1
        BY <1>0, PosType
  <2>3. buffer' = [buffer EXCEPT ![Pos(written)] = written + 1]
        BY <1>3 DEF WriteSlot
  <2>4. Pos(written) \in 0..Capacity - 1
        BY <1>0, PosType
  <2>5. \A i \in read..written - 1 : buffer'[Pos(i)] = i + 1
        BY <2>1, <2>2, <2>3 DEF Fifo, TypeOK
  <2>6. buffer'[Pos(written)] = written + 1
        BY <2>3, <2>4 DEF TypeOK
  <2> QED BY <1>3, <2>5, <2>6 DEF WriteSlot, Fifo
<1>4. CASE Publish
  <2>1. written' = written + 1 /\ UNCHANGED <<read, buffer, item, consumer>>
        BY <1>4 DEF Publish
  <2>2. buffer[Pos(written)] = written + 1 /\ producer' = "checking"
        BY <1>4 DEF Publish, Fifo
  <2>3. \A i \in read..written' - 1 : i \in read..written - 1 \/ i = written
        BY <1>0, <2>1
  <2> QED BY <2>1, <2>2, <2>3 DEF Fifo
<1>5. CASE ReadSlot
  <2>1. read \in read..written - 1
        BY <1>0, <1>5 DEF Bounded, ReadSlot, TypeOK
  <2>2. item' = read + 1
        BY <1>5, <2>1 DEF ReadSlot, Fifo
  <2> QED BY <1>5, <2>2 DEF ReadSlot, Fifo
<1>6. CASE Release
  <2>1. /\ read' = read + 1 /\ consumer' = "checking" /\ item' = read + 1
        /\ UNCHANGED <<written, buffer, producer>>
        BY <1>6 DEF Release, Fifo
  <2>2. \A i \in read'..written - 1 : i \in read..written - 1
        BY <1>0, <2>1
  <2>3. read' # 0
        BY <1>0, <2>1
  <2> QED BY <2>1, <2>2, <2>3 DEF Fifo
<1>7. CASE UNCHANGED vars
      BY <1>7 DEF vars, Fifo
<1> QED BY <1>1, <1>2, <1>3, <1>4, <1>5, <1>6, <1>7, StepCases

\* The invariant holds in every reachable state.
LEMMA InvHolds == Spec => []Inv
<1>1. Inv /\ [Next]_vars => Inv'
      BY TypeStep, BoundedStep, FifoStep DEF Inv
<1> QED BY <1>1, InvInit, PTL DEF Spec

\* At most Capacity - 1 items are in the ring, whatever the loads return.
THEOREM BoundedCorrect == Spec => []Bounded
<1>1. Inv => Bounded
      BY DEF Inv
<1> QED BY <1>1, InvHolds, PTL

\* Items arrive complete and in order.
THEOREM FifoCorrect == Spec => []Fifo
<1>1. Inv => Fifo
      BY DEF Inv
<1> QED BY <1>1, InvHolds, PTL

\* Accesses to one slot are ordered by happens-before.
LEMMA RaceFree == TypeOK /\ Bounded => NoSlotRace
<1> SUFFICES ASSUME TypeOK, Bounded PROVE NoSlotRace
    OBVIOUS
<1>0. /\ written \in Nat /\ read \in Nat /\ seen_read \in Nat
      /\ seen_written \in Nat /\ Capacity \in Nat
      /\ seen_read <= read /\ written - seen_read < Capacity
      BY SpscAssumption DEF TypeOK, Bounded
<1>1. ASSUME producer = "writing", NEW i \in 0..written - 1,
             Pos(i) = Pos(written)
      PROVE  i < seen_read
  <2>1. written - i >= Capacity
        BY <1>0, <1>1, SamePosition
  <2> QED BY <1>0, <2>1
<1>2. ASSUME consumer = "reading"
      PROVE  read < seen_written /\ read < written
      BY <1>0, <1>2 DEF Bounded
<1>3. ASSUME consumer = "reading", NEW i \in read + 1..written - 1,
             Pos(i) = Pos(read)
      PROVE  FALSE
  <2>1. i - read >= Capacity
        BY <1>0, <1>3, SamePosition
  <2> QED BY <1>0, <2>1
<1>4. ASSUME consumer = "reading", Pos(read) = Pos(written)
      PROVE  FALSE
  <2>1. written - read >= Capacity
        BY <1>0, <1>2, <1>4, SamePosition
  <2> QED BY <1>0, <2>1
<1> QED BY <1>1, <1>2, <1>3, <1>4 DEF NoSlotRace

\* The plain slots of the ring are free of data races, for every capacity.
THEOREM RaceFreeCorrect == Spec => []NoSlotRace
<1>1. Inv => NoSlotRace
      BY RaceFree DEF Inv
<1> QED BY <1>1, InvHolds, PTL
=============================================================================
