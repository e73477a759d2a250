------------------------------ MODULE Latches ------------------------------
(***************************************************************************)
(* Latches and their uses.  "CountDownLatch" is the class of               *)
(* 5_threadsQuiz/04_countDownLatch.cpp with its workers and its waiting    *)
(* main; "start_door" is cpp20_latch of 2_threadsManage/6_cpp20_sync.cpp,  *)
(* where the workers also arrive at a std::latch that main opens.          *)
(*                                                                         *)
(* std::latch is modelled as the build has it: arriving decrements the     *)
(* counter, and wait returns when it reads exactly 0.  The standard leaves *)
(* an arrival at a counter of 0 undefined; here the counter goes below 0.  *)
(***************************************************************************)
EXTENDS Integers, FiniteSets

CONSTANT Workers

VARIABLES use,          \* "CountDownLatch" or "start_door"
          start,        \* the counter of start_latch
          count,        \* count_, or the counter of done_latch
          opened,       \* main has called start_latch.count_down()
          pc,           \* where each worker is
          main          \* "opening", "waiting", "parked" or "proceeding"

vars == <<use, start, count, opened, pc, main>>

Init ==
  /\ use \in {"CountDownLatch", "start_door"}
  /\ start = 1
  /\ count = Cardinality(Workers)
  /\ opened = FALSE
  /\ pc = [w \in Workers |-> IF use = "start_door" THEN "ready" ELSE "working"]
  /\ main = IF use = "start_door" THEN "opening" ELSE "waiting"

Goto(w, place) == pc' = [pc EXCEPT ![w] = place]

\* start_latch.arrive_and_wait(), its decrement.
Arrive(w) ==
  /\ pc[w] = "ready"
  /\ start' = start - 1
  /\ Goto(w, "at_door")
  /\ UNCHANGED <<use, count, opened, main>>

\* start_latch.arrive_and_wait() returns.
PassDoor(w) ==
  /\ pc[w] = "at_door"
  /\ start = 0
  /\ Goto(w, "working")
  /\ UNCHANGED <<use, start, count, opened, main>>

\* main: start_latch.count_down().
OpenDoor ==
  /\ main = "opening"
  /\ start' = start - 1
  /\ opened' = TRUE
  /\ main' = "waiting"
  /\ UNCHANGED <<use, count, pc>>

\* Mutant: the latch is counted down before the work is done.
CountDown_Early(w) ==
  /\ pc[w] = "working"
  /\ count' = count - 1
  /\ Goto(w, IF count = 1 THEN "done" ELSE "working")
  /\ main' = IF count = 1 /\ main = "parked" THEN "waiting" ELSE main
  /\ UNCHANGED <<use, start, opened>>

\* The work is done: countDown(), or done_latch.count_down().  The last one
\* notifies.
CountDown(w) ==
  /\ pc[w] = "working"
  /\ count' = count - 1
  /\ Goto(w, "done")
  /\ main' = IF count = 1 /\ main = "parked" THEN "waiting" ELSE main
  /\ UNCHANGED <<use, start, opened>>

\* main: wait() finds the counter above 0.
Park ==
  /\ main = "waiting"
  /\ count > 0
  /\ main' = "parked"
  /\ UNCHANGED <<use, start, count, opened, pc>>

SpuriousWakeup ==
  /\ main = "parked"
  /\ main' = "waiting"
  /\ UNCHANGED <<use, start, count, opened, pc>>

\* main: wait() returns.
Proceed ==
  /\ main = "waiting"
  /\ count = 0
  /\ main' = "proceeding"
  /\ UNCHANGED <<use, start, count, opened, pc>>

Worker(w) == Arrive(w) \/ PassDoor(w) \/ CountDown(w)

Main == OpenDoor \/ Park \/ Proceed

Next == (\E w \in Workers : Worker(w)) \/ Main \/ SpuriousWakeup

Spec == Init /\ [][Next]_vars

-----------------------------------------------------------------------------

TypeOK ==
  /\ use \in {"CountDownLatch", "start_door"}
  /\ start \in -Cardinality(Workers)..1
  /\ count \in 0..Cardinality(Workers)
  /\ opened \in BOOLEAN
  /\ pc \in [Workers -> {"ready", "at_door", "working", "done"}]
  /\ main \in {"opening", "waiting", "parked", "proceeding"}

\* The main thread goes on only when every worker has done its work, also
\* when it is woken for another reason (04_countDownLatch.cpp:25-37).
EndDoor == main = "proceeding" => \A w \in Workers : pc[w] = "done"

\* "Wait for the start door to open", "open the start door"
\* (6_cpp20_sync.cpp:31, 54): no worker starts before main opens the door.
StartDoor == \A w \in Workers : pc[w] \in {"working", "done"} /\
                                use = "start_door" => opened
=============================================================================
