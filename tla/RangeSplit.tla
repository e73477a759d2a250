------------------------------ MODULE RangeSplit ------------------------------
(***************************************************************************)
(* How 4_ppl_strategy_test divides the elements 0..total - 1 among tasks:  *)
(* the strategies of strategies.h and, with the tasks of uneven size as    *)
(* the elements, those of case5_uneven_tasks; and the two strategies of    *)
(* 2_tbb_test that do it with pools.  A task sums up its chunk, and the    *)
(* sums are added to an atomic or collected from futures in order.         *)
(*                                                                         *)
(* An element's result is a power of four: a sum shows how often each      *)
(* element was counted.                                                    *)
(***************************************************************************)
EXTENDS Integers, FiniteSetsExt

CONSTANTS Totals, Parts, Grains

VARIABLES
  strategy, total, parts, grain,    \* the strategy and its arguments
  pending,      \* the outer tasks not started
  open,         \* the outer tasks whose inner tasks are not all done
  inner,        \* outer task -> the chunks of its inner tasks still to do
  inner_sum,    \* outer task -> inner_sum, or the value of its future
  ready,        \* the outer tasks whose future is ready
  sum,          \* sum
  returned

vars == <<strategy, total, parts, grain, pending, open, inner, inner_sum, ready,
          sum, returned>>

LeastOf(a, b) == IF a < b THEN a ELSE b

\* Division of int, which truncates.
Div(a, b) == IF a >= 0 THEN a \div b ELSE -((-a) \div b)

\* Mutant: the remainder is forgotten.
Parcels_Floor(a, b) == Div(a, b)

\* (a + b - 1) / b
Parcels(a, b) == Div(a + b - 1, b)

\* kernel(from, to), a serial loop.
kernel(from, to) == MapThenSumSet(LAMBDA e : 4 ^ e, from..to - 1)

ByElement == {"auto", "static", "affinity"}         \* one task per element
ByGrain   == {"chunked", "task_group", "static_chunk"}
ByParts   == {"outer_only", "nested", "task_group_nested", "uneven_nested",
              "two_level", "pool", "uneven_pool"}
Strategies == {"serial"} \cup ByElement \cup ByGrain \cup ByParts

Nested  == {"nested", "task_group_nested", "uneven_nested", "two_level"}
Futures == {"static_chunk", "two_level", "pool", "uneven_pool"}

\* What is registered: the strategies whose chunks must come out even are
\* called with such numbers only.
Registered ==
  /\ strategy = "static_chunk" => total % grain = 0
  /\ strategy = "two_level" => total % parts = 0
  /\ strategy \notin ByParts => parts = 1
  /\ strategy \notin ByGrain \cup Nested \/ strategy = "uneven_nested" => grain = 1

Tasks == CASE strategy = "serial"   -> {0}
           [] strategy \in ByElement -> 0..total - 1
           [] strategy \in ByGrain   -> 0..Parcels(total, grain) - 1
           [] strategy \in ByParts   -> 0..parts - 1

\* Where a task begins and ends; behind the last element it may begin after it
\* ends.
Size == CASE strategy = "serial"    -> total
          [] strategy \in ByElement -> 1
          [] strategy \in ByGrain   -> grain
          [] strategy = "pool"      -> total \div parts
          [] OTHER                  -> Parcels(total, parts)

Start(o) == o * Size

End(o) == IF strategy = "pool" /\ o = parts - 1 THEN total
          ELSE LeastOf(Start(o) + Size, total)

\* The chunks of the inner tasks of o; a loop over no or a negative number of
\* chunks does nothing.
Chunks(o) ==
  LET step == IF strategy = "uneven_nested" THEN 1 ELSE grain
  IN {<<from, LeastOf(from + step, End(o))>> :
        from \in {Start(o) + c * step : c \in 0..Parcels(End(o) - Start(o), step) - 1}}

\* The tasks that are submitted at all.
Submitted == {o \in Tasks : strategy = "uneven_pool" => Start(o) < End(o)}

Init ==
  /\ strategy \in Strategies
  /\ total \in Totals /\ parts \in Parts /\ grain \in Grains
  /\ Registered
  /\ pending = Submitted
  /\ open = {} /\ ready = {}
  /\ inner = [o \in Tasks |-> {}]
  /\ inner_sum = [o \in Tasks |-> 0]
  /\ sum = 0
  /\ returned = FALSE

-----------------------------------------------------------------------------

\* A flat task: the sum of its chunk is added to sum, or is the value of its
\* future.
RunFlat(o) ==
  /\ strategy \notin Nested
  /\ o \in pending
  /\ pending' = pending \ {o}
  /\ IF strategy \in Futures
     THEN /\ inner_sum' = [inner_sum EXCEPT ![o] = kernel(Start(o), End(o))]
          /\ ready' = ready \cup {o}
          /\ UNCHANGED sum
     ELSE /\ sum' = sum + kernel(Start(o), End(o))
          /\ UNCHANGED <<inner_sum, ready>>
  /\ UNCHANGED <<strategy, total, parts, grain, open, inner, returned>>

\* A nested task makes its inner tasks; uneven_nested returns if it has none.
OpenTask(o) ==
  /\ strategy \in Nested
  /\ o \in pending
  /\ pending' = pending \ {o}
  /\ IF strategy = "uneven_nested" /\ Start(o) >= End(o)
     THEN UNCHANGED <<open, inner>>
     ELSE /\ open' = open \cup {o}
          /\ inner' = [inner EXCEPT ![o] = Chunks(o)]
  /\ UNCHANGED <<strategy, total, parts, grain, inner_sum, ready, sum, returned>>

\* inner_sum.fetch_add(kernel(is, ie))
RunInner(o, c) ==
  /\ c \in inner[o]
  /\ inner' = [inner EXCEPT ![o] = @ \ {c}]
  /\ inner_sum' = [inner_sum EXCEPT ![o] = @ + kernel(c[1], c[2])]
  /\ UNCHANGED <<strategy, total, parts, grain, pending, open, ready, sum, returned>>

\* The inner loop, or inner_tg.wait(), returns: sum.fetch_add(inner_sum), or the
\* future of the outer task becomes ready.
CloseTask(o) ==
  /\ o \in open
  /\ inner[o] = {}
  /\ open' = open \ {o}
  /\ IF strategy \in Futures
     THEN ready' = ready \cup {o} /\ UNCHANGED sum
     ELSE sum' = sum + inner_sum[o] /\ UNCHANGED ready
  /\ UNCHANGED <<strategy, total, parts, grain, pending, inner, inner_sum, returned>>

\* The outer loop, group or pool is done with: for futures, sum += f.get() in
\* the order of submission, which get() waits for.
Return ==
  /\ ~returned
  /\ pending = {} /\ open = {}
  /\ returned' = TRUE
  /\ sum' = sum + MapThenSumSet(LAMBDA o : inner_sum[o], ready)
  /\ UNCHANGED <<strategy, total, parts, grain, pending, open, inner, inner_sum,
                 ready>>

Next == \/ \E o \in Tasks : \/ RunFlat(o) \/ OpenTask(o) \/ CloseTask(o)
                            \/ \E c \in inner[o] : RunInner(o, c)
        \/ Return

Spec == Init /\ [][Next]_vars

-----------------------------------------------------------------------------

\* However a range is divided, evenly or not, into more parts than it has
\* elements, on one level or on two, each of its elements is counted in the
\* result exactly once: all strategies do the same work as run_serial
\* (workloads.h:8, strategies.h:20-201).
RangeCountedOnce == returned => sum = kernel(0, total)
=============================================================================
