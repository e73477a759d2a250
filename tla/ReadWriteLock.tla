--------------------------- MODULE ReadWriteLock ---------------------------
(***************************************************************************)
(* cpp11::ReadWriteLock of 5_threadsQuiz/07_readersWriters.cpp with its    *)
(* readers and writers: a count of readers, a writer flag, a mutex and one *)
(* condition variable for both.  A step is a critical section of mtx, up   *)
(* to the wait or to the end; the notifications are inside.                *)
(***************************************************************************)
EXTENDS Naturals, FiniteSets

CONSTANTS Readers, Writers      \* the threads

VARIABLES readers,      \* readers
          writer,       \* writer
          pc            \* "locking", "parked", "inside" or "done"

vars == <<readers, writer, pc>>

Threads == Readers \cup Writers

Init ==
  /\ readers = 0
  /\ writer = FALSE
  /\ pc = [x \in Threads |-> "locking"]

Goto(x, place) == pc' = [pc EXCEPT ![x] = place]

\* cv.notify_all() by x, which is done.
DoneNotifying(x) ==
  pc' = [y \in Threads |-> IF y = x THEN "done"
                           ELSE IF pc[y] = "parked" THEN "locking" ELSE pc[y]]

\* lockRead, its predicate true.
LockRead(r) ==
  /\ pc[r] = "locking"
  /\ ~writer
  /\ readers' = readers + 1
  /\ Goto(r, "inside")
  /\ UNCHANGED writer

\* Mutant: the last but one reader notifies.
UnlockRead_OffByOne(r) ==
  /\ pc[r] = "inside"
  /\ readers' = readers - 1
  /\ IF readers = 2 THEN DoneNotifying(r) ELSE Goto(r, "done")
  /\ UNCHANGED writer

\* unlockRead: the last reader notifies.
UnlockRead(r) ==
  /\ pc[r] = "inside"
  /\ readers' = readers - 1
  /\ IF readers = 1 THEN DoneNotifying(r) ELSE Goto(r, "done")
  /\ UNCHANGED writer

\* lockWrite, its predicate true.
LockWrite(w) ==
  /\ pc[w] = "locking"
  /\ ~writer
  /\ readers = 0
  /\ writer' = TRUE
  /\ Goto(w, "inside")
  /\ UNCHANGED readers

UnlockWrite(w) ==
  /\ pc[w] = "inside"
  /\ writer' = FALSE
  /\ DoneNotifying(w)
  /\ UNCHANGED readers

\* cv.wait with a false predicate.
Park(x) ==
  /\ pc[x] = "locking"
  /\ writer \/ (x \in Writers /\ readers # 0)
  /\ Goto(x, "parked")
  /\ UNCHANGED <<readers, writer>>

SpuriousWakeup(x) ==
  /\ pc[x] = "parked"
  /\ Goto(x, "locking")
  /\ UNCHANGED <<readers, writer>>

Reader(r) == LockRead(r) \/ UnlockRead(r) \/ Park(r)

Writer(w) == LockWrite(w) \/ UnlockWrite(w) \/ Park(w)

Next ==
  \/ \E r \in Readers : Reader(r)
  \/ \E w \in Writers : Writer(w)
  \/ \E x \in Threads : SpuriousWakeup(x)

Spec == Init /\ [][Next]_vars

-----------------------------------------------------------------------------

Inside(S) == {x \in S : pc[x] = "inside"}

TypeOK ==
  /\ readers \in Nat
  /\ writer \in BOOLEAN
  /\ pc \in [Threads -> {"locking", "parked", "inside", "done"}]

\* A writer is alone: no reader and no other writer is inside with it, and
\* the count and the flag say who is inside (07_readersWriters.cpp:16-39).
Exclusion ==
  /\ readers = Cardinality(Inside(Readers))
  /\ writer <=> Inside(Writers) # {}
  /\ writer => readers = 0
  /\ \A v, w \in Inside(Writers) : v = w

\* Nobody sleeps without a reason: a waiting reader has a writer inside, a
\* waiting writer has somebody inside, who will notify when leaving, although
\* only the last reader and the writer notify.
SleepersHaveReason ==
  \A x \in Threads : pc[x] = "parked" => writer \/ (x \in Writers /\ readers > 0)
=============================================================================
