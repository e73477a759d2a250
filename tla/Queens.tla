------------------------------- MODULE Queens -------------------------------
(***************************************************************************)
(* What the solvers of 1_benchmark/3_eightQueen count: the ways to put n   *)
(* queens on a board of n rows so that no two attack each other.  A board  *)
(* is the sequence of the columns of the queens of its first rows.         *)
(***************************************************************************)
EXTENDS Integers, Sequences, FiniteSets

\* bruteforce: the permutations of the columns that repeat no diagonal.
Solutions(n) ==
  {pos \in [1..n -> 0..n - 1] :
     \A i, j \in 1..n : i < j => /\ pos[i] # pos[j]
                                 /\ i + pos[i] # j + pos[j]
                                 /\ i - pos[i] # j - pos[j]}

\* Those whose first queen is in column c.
SolutionsFrom(n, c) == {b \in Solutions(n) : b[1] = c}

\* The board b, read from its first row, comes before the board that starts
\* with p and has the queen of its next row in column c.
Before(b, p, c) ==
  \/ \E k \in 1..Len(p) : b[k] < p[k] /\ \A j \in 1..k - 1 : b[j] = p[j]
  \/ Len(p) < Len(b) /\ b[Len(p) + 1] < c /\ \A j \in 1..Len(p) : b[j] = p[j]
=============================================================================
