--------------------------- MODULE QueensThreads ----------------------------
(***************************************************************************)
(* The queens solved by several threads, split by the column of the first  *)
(* queen: solve_mt of nqueens.h, whose threads solve ranges of columns and *)
(* write one slot of a vector each, and backtracking_mt of nqueens_mt.cc   *)
(* and nqueens_opt_mt.cc, with a thread for each column and an atomic sum. *)
(* What a sub solver counts is QueensSearch's concern.                     *)
(***************************************************************************)
EXTENDS Integers, Queens, FiniteSetsExt

CONSTANTS
  BoardSizes,       \* the values of N
  ThreadNumbers,    \* the values of num_threads
  Cores             \* what hardware_concurrency may return

VARIABLES
  runner,           \* "solve_mt" or "backtracking_mt"
  sub_solver,       \* "marks", "bits" or "search"
  N, num_threads, use_symmetry,   \* the arguments
  t, start,         \* main's loop: the next thread and its first column
  range,            \* the threads that were started -> the columns to solve
  results,          \* the columns that were solved -> what was counted
  total,            \* the sum, an atomic in backtracking_mt
  main              \* "launching", "joined", "returned" or "crashed"

vars == <<runner, sub_solver, N, num_threads, use_symmetry, t, start, range,
          results, total, main>>

SubCount(c) ==
  IF N = 1 /\ sub_solver # "marks" THEN 0
  ELSE Cardinality(SolutionsFrom(N, c))

total_subs == IF use_symmetry THEN (N + 1) \div 2 ELSE N

Init ==
  /\ \/ /\ runner = "solve_mt"
        /\ sub_solver \in {"marks", "bits"}
        /\ \E n \in ThreadNumbers : IF n <= 0 THEN num_threads \in Cores
                                              ELSE num_threads = n
        /\ use_symmetry \in BOOLEAN
        /\ use_symmetry \/ sub_solver = "bits"
     \/ /\ runner = "backtracking_mt"
        /\ sub_solver \in {"search", "bits"}
        /\ num_threads = 0
        /\ use_symmetry = TRUE
  /\ N \in BoardSizes
  /\ t = 0
  /\ start = 0
  /\ range = <<>>
  /\ results = <<>>
  /\ total = 0
  /\ main = "launching"

-----------------------------------------------------------------------------

Arguments == <<runner, sub_solver, N, num_threads, use_symmetry>>

\* Adds a thread that solves the columns s.
Start(s) ==
  range' = [u \in DOMAIN range \cup {t} |-> IF u = t THEN s ELSE range[u]]

\* total_subs / num_threads without a core: the division traps.
DivideByZero ==
  /\ main = "launching" /\ runner = "solve_mt" /\ num_threads = 0
  /\ main' = "crashed"
  /\ UNCHANGED <<Arguments, t, start, range, results, total>>

\* Mutant: the remainder of the division is left to nobody.
LaunchRange_NoRemainder ==
  /\ main = "launching" /\ runner = "solve_mt" /\ num_threads > 0
  /\ t < num_threads /\ start < total_subs
  /\ LET count == total_subs \div num_threads IN
       /\ IF count > 0 THEN Start(start..start + count - 1) ELSE UNCHANGED range
       /\ start' = start + count
  /\ t' = t + 1
  /\ UNCHANGED <<Arguments, results, total, main>>

\* solve_mt: the first threads take a column more than the others.
LaunchRange ==
  /\ main = "launching" /\ runner = "solve_mt" /\ num_threads > 0
  /\ t < num_threads /\ start < total_subs
  /\ LET count == total_subs \div num_threads
                    + IF t < total_subs % num_threads THEN 1 ELSE 0
     IN  /\ IF count > 0 THEN Start(start..start + count - 1) ELSE UNCHANGED range
         /\ start' = start + count
  /\ t' = t + 1
  /\ UNCHANGED <<Arguments, results, total, main>>

\* backtracking_mt: a thread for each of the first N/2 columns, and of an odd
\* board one for the column in the middle.
LaunchColumn ==
  /\ main = "launching" /\ runner = "backtracking_mt"
  /\ t < (N \div 2) + (N % 2)
  /\ Start({t})
  /\ start' = start + 1
  /\ t' = t + 1
  /\ UNCHANGED <<Arguments, results, total, main>>

\* The middle column is its own mirror image.
Weight(c) == IF ~use_symmetry \/ (N % 2 = 1 /\ c = N \div 2) THEN 1 ELSE 2

\* Thread u solves its next column; backtracking_thr adds to the sum.
Solve(u) ==
  /\ \E c \in range[u] \ DOMAIN results :
       /\ \A d \in range[u] : d < c => d \in DOMAIN results
       /\ results' = [d \in DOMAIN results \cup {c} |->
                        IF d = c THEN SubCount(c) ELSE results[d]]
       /\ total' = IF runner = "backtracking_mt"
                   THEN total + Weight(c) * SubCount(c) ELSE total
  /\ UNCHANGED <<Arguments, t, start, range, main>>

\* All threads have returned; a slot that was never written holds column 0
\* and count 0.
Join ==
  /\ main = "launching"
  /\ IF runner = "solve_mt" THEN num_threads > 0 /\ (t >= num_threads \/ start >= total_subs)
                            ELSE t = (N \div 2) + (N % 2)
  /\ \A u \in DOMAIN range : range[u] \subseteq DOMAIN results
  /\ main' = "joined"
  /\ UNCHANGED <<Arguments, t, start, range, results, total>>

Sum ==
  /\ main = "joined"
  /\ main' = "returned"
  /\ total' = IF runner = "solve_mt"
              THEN MapThenSumSet(LAMBDA c : Weight(c) * results[c], DOMAIN results)
              ELSE total
  /\ UNCHANGED <<Arguments, t, start, range, results>>

Main == DivideByZero \/ LaunchRange \/ LaunchColumn \/ Join \/ Sum

Next == Main \/ \E u \in DOMAIN range : Solve(u)

Spec == Init /\ [][Next]_vars

Over == main \in {"returned", "crashed"}

-----------------------------------------------------------------------------

TypeOK ==
  /\ t \in Nat /\ start \in 0..N
  /\ DOMAIN range \subseteq 0..t
  /\ DOMAIN results \subseteq 0..N - 1
  /\ total \in Nat

\* No column is solved by two threads, which would write one slot without a
\* lock, and none is left out however the number of threads divides the
\* number of columns (nqueens.h:482-498).
EachColumnOnce ==
  /\ \A u, v \in DOMAIN range : u # v => range[u] \cap range[v] = {}
  /\ main \in {"joined", "returned"} => DOMAIN results = 0..total_subs - 1

\* Half of the first row stands for the whole: by the mirror image of each
\* board all solutions are counted (nqueens.h:502-513, nqueens_mt.cc:76-83).
\* The exception is the board of one column (see QueensSearch!MissesOnly).
CountsBoards ==
  main = "returned" /\ (N > 1 \/ sub_solver = "marks") =>
    total = Cardinality(Solutions(N))

ThreadsCorrect == TypeOK /\ EachColumnOnce /\ CountsBoards
=============================================================================
