---------------------------- MODULE SlotReduction ----------------------------
(***************************************************************************)
(* The loops of 2_tbb_test that TBB divides: the partitioners of           *)
(* case1_partitioner, and case3_nestedTask flat, nested, at depth three    *)
(* and isolated.  Row i has inner_sizes[i] elements.  The sum of a chunk   *)
(* of g elements goes to a slot, and the slots are merged at the end.      *)
(*                                                                         *)
(* TBB is modelled from its use: a range that is larger than its grain may *)
(* be divided anywhere, aligned or not, by any of the partitioners; then   *)
(* the body runs on each part once.  As isolation only restricts who runs  *)
(* a part, "isolate" is "nested" here.                                     *)
(***************************************************************************)
EXTENDS Integers, Sequences, FiniteSetsExt

CONSTANTS
  InnerSizes,       \* the choices of inner_sizes
  Grains            \* the values of g

VARIABLES
  loop,             \* "partitioner", "flat_2d", "nested" or "depth3"
  inner_sizes,      \* Case3Spec; a single row for "partitioner"
  g,
  ranges,           \* the parts of ranges on which no body runs yet
  bodies,           \* bodies of the outer loop: rows at .. last - 1 are left
  leaves,           \* bodies of the innermost loop: at is their next block
  sums,             \* slot -> its sum
  total             \* the result, or -1

vars == <<loop, inner_sizes, g, ranges, bodies, leaves, sums, total>>

Rows == 0..Len(inner_sizes) - 1
n(i) == inner_sizes[i + 1]

Least(a, b) == IF a < b THEN a ELSE b
Up(a) == (a + g - 1) \div g

maxInner == Max({n(i) : i \in Rows})

SumUpTo(f(_), i) == MapThenSumSet(f, 0..i - 1)

\* Every element has a cost of its own, a power of four, so that a sum shows
\* how often it counts each element.
case3ElemOp(i, j) == 4 ^ (SumUpTo(n, i) + j)

\* Where the slots of row i begin, and how many slots there are.
chunk_offsets(i) == SumUpTo(LAMBDA k : Up(n(k)), i)
row_slots == Up(Len(inner_sizes))
col_slots == Up(maxInner)
Slots == 0..(IF loop = "flat_2d" THEN row_slots * col_slots
             ELSE chunk_offsets(Len(inner_sizes))) - 1

\* The slot of the block that begins at row rb and column cb.
Slot(rb, cb) == IF loop = "flat_2d" THEN (rb \div g) * col_slots + cb \div g
                ELSE chunk_offsets(rb) + cb \div g

\* The value of the elements of a block: in the flat loop the columns behind
\* the end of a row are skipped.
Block(rb, re, cb, ce) ==
  MapThenSumSet(LAMBDA x : case3ElemOp(x[1], x[2]),
                {x \in (rb..re - 1) \X (cb..ce - 1) : x[2] < n(x[1])})

\* Where the aligned block that b is in ends.
BlockEnd(b, end) == Least(b + (g - (b % g)), end)

\* A range: which loop it belongs to, and its rows and columns.
Range2d(level, r0, r1, c0, c1) ==
  [level |-> level, r0 |-> r0, r1 |-> r1, c0 |-> c0, c1 |-> c1]

RowGrain == IF loop = "flat_2d" THEN g ELSE 1
ColGrain(r) == IF r.level = "middle" THEN n(r.r0) \div 2 ELSE g

Init ==
  /\ loop \in {"partitioner", "flat_2d", "nested", "depth3"}
  /\ inner_sizes \in InnerSizes
  /\ g \in Grains
  /\ loop = "partitioner" => Len(inner_sizes) = 1 /\ inner_sizes[1] % g = 0
  /\ loop # "partitioner" => Len(inner_sizes) > 1
  /\ ranges = {CASE loop = "partitioner" -> Range2d("inner", 0, 1, 0, n(0))
                 [] loop = "flat_2d" ->
                      Range2d("inner", 0, Len(inner_sizes), 0, maxInner)
                 [] OTHER -> Range2d("outer", 0, Len(inner_sizes), 0, 1)}
  /\ bodies = {} /\ leaves = {}
  /\ sums = [s \in Slots |-> 0]
  /\ total = -1

-----------------------------------------------------------------------------

\* TBB divides a range, by rows or by columns.
Split(r, m) ==
  /\ r \in ranges
  /\ \/ /\ r.r1 - r.r0 > RowGrain
        /\ r.r0 < m /\ m < r.r1
        /\ ranges' = (ranges \ {r}) \cup {[r EXCEPT !.r1 = m], [r EXCEPT !.r0 = m]}
     \/ /\ r.level # "outer" /\ r.c1 - r.c0 > ColGrain(r)
        /\ r.c0 < m /\ m < r.c1
        /\ ranges' = (ranges \ {r}) \cup {[r EXCEPT !.c1 = m], [r EXCEPT !.c0 = m]}
  /\ UNCHANGED <<loop, inner_sizes, g, bodies, leaves, sums, total>>

\* The body is called on a range.
CallBody(r) ==
  /\ r \in ranges
  /\ CASE r.level = "outer" ->
            /\ bodies' = bodies \cup {[at |-> r.r0, last |-> r.r1]}
            /\ ranges' = ranges \ {r}
            /\ UNCHANGED leaves
       [] r.level = "middle" ->
            /\ ranges' = (ranges \ {r}) \cup {[r EXCEPT !.level = "inner"]}
            /\ UNCHANGED <<bodies, leaves>>
       [] r.level = "inner" ->
            /\ leaves' = leaves \cup {[range |-> r, at |-> <<r.r0, r.c0>>]}
            /\ ranges' = ranges \ {r}
            /\ UNCHANGED bodies
  /\ UNCHANGED <<loop, inner_sizes, g, sums, total>>

\* Something of row i is not done.
Busy(i) == \/ \E r \in ranges : r.level # "outer" /\ r.r0 = i
           \/ \E l \in leaves : l.range.r0 = i

\* A body of the outer loop starts the inner loop of its next row, once the
\* one of the row before has returned.
OpenRow(b) ==
  /\ b \in bodies
  /\ ~Busy(b.at - 1)
  /\ bodies' = (bodies \ {b}) \cup
                 (IF b.at + 1 < b.last THEN {[b EXCEPT !.at = @ + 1]} ELSE {})
  /\ ranges' = ranges \cup {Range2d(IF loop = "depth3" THEN "middle" ELSE "inner",
                                    b.at, b.at + 1, 0, n(b.at))}
  /\ UNCHANGED <<loop, inner_sizes, g, leaves, sums, total>>

\* Mutant: a slot is assigned to.
FetchAdd_Store(s, value) == sums' = [sums EXCEPT ![s] = value]

FetchAdd(s, value) == sums' = [sums EXCEPT ![s] = @ + value]

\* slotAccumulate: one aligned block, and on to the next one.
Accumulate(l) ==
  LET rb == l.at[1]   re == IF loop = "flat_2d" THEN BlockEnd(rb, l.range.r1) ELSE rb + 1
      cb == l.at[2]   ce == BlockEnd(cb, l.range.c1)
  IN /\ l \in leaves
     /\ FetchAdd(Slot(rb, cb), Block(rb, re, cb, ce))
     /\ leaves' = (leaves \ {l}) \cup
                    (IF ce < l.range.c1 THEN {[l EXCEPT !.at = <<rb, ce>>]}
                     ELSE IF re < l.range.r1 THEN {[l EXCEPT !.at = <<re, l.range.c0>>]}
                     ELSE {})
     /\ UNCHANGED <<loop, inner_sizes, g, ranges, bodies, total>>

\* All loops have returned: slotMerge.
slotMerge ==
  /\ total = -1
  /\ ranges = {} /\ bodies = {} /\ leaves = {}
  /\ total' = MapThenSumSet(LAMBDA s : sums[s], Slots)
  /\ UNCHANGED <<loop, inner_sizes, g, ranges, bodies, leaves, sums>>

Next == \/ \E r \in ranges : CallBody(r)
                             \/ \E m \in (r.r0 + 1..r.r1 - 1) \cup (r.c0 + 1..r.c1 - 1) :
                                  Split(r, m)
        \/ (\E b \in bodies : OpenRow(b)) \/ (\E l \in leaves : Accumulate(l))
        \/ slotMerge

Spec == Init /\ [][Next]_vars

-----------------------------------------------------------------------------

\* The elements, as pairs of row and column, that belong in slot s: whatever
\* range they were part of.
ElementsOf(s) ==
  {x \in Rows \X (0..maxInner - 1) :
     /\ x[2] < n(x[1])
     /\ Slot(IF loop = "flat_2d" THEN x[1] - (x[1] % g) ELSE x[1],
             x[2] - (x[2] % g)) = s}

\* Every element is counted once, and in its own slot, although the parts into
\* which TBB divides the rows do not begin and end where slots do, so that
\* several bodies may share one (bench_common.h:58-84): the slots hold the
\* sums of the chunks in the order of the elements, and the merged result is
\* the reference's (case1_partitioner.cpp:58-59, case3_nestedTask.cpp:104-229).
SlotsCountedOnce ==
  total # -1 =>
    /\ \A s \in Slots :
         sums[s] = MapThenSumSet(LAMBDA x : case3ElemOp(x[1], x[2]), ElementsOf(s))
    /\ total = MapThenSumSet(LAMBDA i : Block(i, i + 1, 0, n(i)), Rows)
=============================================================================
