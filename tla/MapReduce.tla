----------------------------- MODULE MapReduce ------------------------------
(***************************************************************************)
(* What every benchmark of case3_submitTasks.cpp computes: each of the     *)
(* items is computed once, its result is added to the sum once, after it   *)
(* was computed, and the iteration ends when every result is in the sum.   *)
(*                                                                         *)
(* total_sum is an integer in the code; here it is the bag of the results  *)
(* that were added, so a result that is added twice is not the same sum.   *)
(***************************************************************************)
EXTENDS Naturals

CONSTANT Items          \* the tasks_nums items of an iteration

VARIABLES computed,     \* item -> how often heavyComputation was run for it
          total_sum,    \* item -> how often its result was added
          finished      \* the iteration has ended

vars == <<computed, total_sum, finished>>

Init ==
  /\ computed = [i \in Items |-> 0]
  /\ total_sum = [i \in Items |-> 0]
  /\ finished = FALSE

Map(i) ==
  /\ computed[i] = 0
  /\ computed' = [computed EXCEPT ![i] = @ + 1]
  /\ UNCHANGED <<total_sum, finished>>

Reduce(i) ==
  /\ computed[i] = 1
  /\ total_sum[i] = 0
  /\ total_sum' = [total_sum EXCEPT ![i] = @ + 1]
  /\ UNCHANGED <<computed, finished>>

Finish ==
  /\ ~finished
  /\ \A i \in Items : total_sum[i] = 1
  /\ finished' = TRUE
  /\ UNCHANGED <<computed, total_sum>>

Next == (\E i \in Items : Map(i) \/ Reduce(i)) \/ Finish

Spec == Init /\ [][Next]_vars
=============================================================================
