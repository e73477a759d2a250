---------------------------- MODULE QueensSearch ----------------------------
(***************************************************************************)
(* The depth-first searches of 1_benchmark/3_eightQueen.                   *)
(*   marks   iterative, arrays of marks   (nqueens.h:39, sub: 396)         *)
(*   bits    iterative, masks of 32 bits  (nqueens.h:286, sub: 342)        *)
(*   search  recursive, arrays of marks   (nqueens.cc:63, sub:             *)
(*                                         nqueens_mt.cc:52)               *)
(* A sub solver counts the boards whose first queen is in column col0.  A  *)
(* step is one round of the outer loop, or one column of the recursive     *)
(* search; a mask is the set of its bits that are 1.                       *)
(***************************************************************************)
EXTENDS Integers, Sequences, FiniteSetsExt, Queens

CONSTANTS
  Sizes,        \* the values of N
  Width         \* 32, the bits of a mask

VARIABLES
  solver,
  N, col0,      \* the arguments; col0 is -1 if the whole board is searched
  row, col,     \* the current row, and with marks the next column to try
  columns, diag, antidiag,  \* the marks, or the masks of the current row
  avail,        \* bits: the columns to try
  stack,        \* the queens, with the masks of their rows
  count,
  done

vars == <<solver, N, col0, row, col, columns, diag, antidiag, avail, stack,
          count, done>>

Marks == solver \in {"marks", "search"}
Sub   == col0 # -1
Base  == IF Sub THEN 1 ELSE 0           \* the first row that is searched

ShiftRight(m) == {b - 1 : b \in m \ {0}}
ShiftLeft(m)  == {b + 1 : b \in m \ {Width - 1}}

\* ~(cols | diag | anti | mask)
Avail(cols, d, a) == (0..N - 1) \ (cols \cup d \cup a)

Init ==
  /\ solver \in {"marks", "search", "bits"}
  /\ N \in Sizes
  /\ col0 \in -1..N - 1
  /\ row = Base
  /\ col = 0
  /\ columns = {col0} \ {-1}
  /\ IF Marks THEN /\ antidiag = columns
                   /\ diag = {N - c : c \in columns}
                   /\ avail = {}
              ELSE /\ antidiag = ShiftLeft(columns)
                   /\ diag = ShiftRight(columns)
                   /\ avail = Avail(columns, diag, antidiag)
  /\ stack = <<>>
  /\ count = 0
  /\ done = FALSE

-----------------------------------------------------------------------------
\* marks and search.

Free == {c \in col..N - 1 : /\ c \notin columns
                            /\ row + c \notin antidiag
                            /\ N + row - c \notin diag}

\* Mutant: the diagonal of the queen remains marked.
Backtrack_KeepsDiagonal ==
  IF stack = <<>>
  THEN done' = TRUE /\ UNCHANGED <<row, col, columns, diag, antidiag, stack>>
  ELSE LET c == stack[Len(stack)].i
       IN  /\ row' = row - 1
           /\ col' = c + 1
           /\ columns' = columns \ {c}
           /\ antidiag' = antidiag \ {row - 1 + c}
           /\ stack' = SubSeq(stack, 1, Len(stack) - 1)
           /\ UNCHANGED <<diag, done>>

\* The last queen is taken off the board, and the next column is tried.
Backtrack ==
  IF stack = <<>>
  THEN done' = TRUE /\ UNCHANGED <<row, col, columns, diag, antidiag, stack>>
  ELSE LET c == stack[Len(stack)].i
       IN  /\ row' = row - 1
           /\ col' = c + 1
           /\ columns' = columns \ {c}
           /\ antidiag' = antidiag \ {row - 1 + c}
           /\ diag' = diag \ {N + row - 1 - c}
           /\ stack' = SubSeq(stack, 1, Len(stack) - 1)
           /\ UNCHANGED done

\* marks: behind the last row the board is counted.
Found ==
  /\ solver = "marks" /\ ~done /\ row = N
  /\ count' = count + 1
  /\ Backtrack
  /\ UNCHANGED <<solver, N, col0, avail>>

\* search: a queen of the last row is counted and not placed.
CountLast ==
  /\ solver = "search" /\ ~done /\ row = N - 1 /\ Free # {}
  /\ count' = count + 1
  /\ col' = Min(Free) + 1
  /\ UNCHANGED <<solver, N, col0, row, columns, diag, antidiag, avail, stack, done>>

Place ==
  /\ Marks /\ ~done /\ Free # {}
  /\ row < IF solver = "marks" THEN N ELSE N - 1
  /\ LET c == Min(Free) IN
       /\ columns' = columns \cup {c}
       /\ antidiag' = antidiag \cup {row + c}
       /\ diag' = diag \cup {N + row - c}
       /\ stack' = Append(stack, [i |-> c])
  /\ row' = row + 1
  /\ col' = 0
  /\ UNCHANGED <<solver, N, col0, avail, count, done>>

NoColumn ==
  /\ Marks /\ ~done /\ Free = {}
  /\ solver = "marks" => row < N
  /\ Backtrack
  /\ UNCHANGED <<solver, N, col0, avail, count>>

-----------------------------------------------------------------------------
\* bits.

\* A queen of the last row: the board is counted.
CountBoard ==
  /\ ~Marks /\ ~done /\ avail # {} /\ row = N - 1
  /\ count' = count + 1
  /\ avail' = avail \ {Min(avail)}
  /\ UNCHANGED <<solver, N, col0, row, col, columns, diag, antidiag, stack, done>>

Descend ==
  /\ ~Marks /\ ~done /\ avail # {} /\ row # N - 1
  /\ LET i == Min(avail) IN
       /\ stack' = Append(stack, [i |-> i, cols |-> columns, diag |-> diag,
                                  anti |-> antidiag])
       /\ columns' = columns \cup {i}
       /\ diag' = ShiftRight(diag \cup {i})
       /\ antidiag' = ShiftLeft(antidiag \cup {i})
  /\ row' = row + 1
  /\ avail' = Avail(columns', diag', antidiag')
  /\ UNCHANGED <<solver, N, col0, col, count, done>>

\* The masks of the row above, and its columns behind the queen.
Ascend ==
  /\ ~Marks /\ ~done /\ avail = {}
  /\ IF stack = <<>>
     THEN done' = TRUE /\ UNCHANGED <<row, columns, diag, antidiag, avail, stack>>
     ELSE LET f == stack[Len(stack)] IN
            /\ row' = row - 1
            /\ columns' = f.cols /\ diag' = f.diag /\ antidiag' = f.anti
            /\ avail' = {b \in Avail(f.cols, f.diag, f.anti) : b > f.i}
            /\ stack' = SubSeq(stack, 1, Len(stack) - 1)
            /\ UNCHANGED done
  /\ UNCHANGED <<solver, N, col0, col, count>>

Next == Found \/ CountLast \/ Place \/ NoColumn \/ CountBoard \/ Descend \/ Ascend

Spec == Init /\ [][Next]_vars

-----------------------------------------------------------------------------

\* The queens on the board, the first of a sub solver included.
Board == (IF Sub THEN <<col0>> ELSE <<>>) \o [k \in 1..Len(stack) |-> stack[k].i]

Wanted == IF Sub THEN SolutionsFrom(N, col0) ELSE Solutions(N)

\* The next column of the row.
NextColumn == IF Marks THEN col ELSE IF avail = {} THEN N ELSE Min(avail)

TypeOK ==
  /\ row \in Base..N /\ col \in 0..N
  /\ columns \subseteq 0..N - 1
  /\ avail \subseteq 0..N - 1
  /\ Len(stack) = row - Base

\* Marks and masks are those of the queens on the board: what a queen marks
\* is taken back with it, the shifts bring its diagonals to the current row,
\* and no bit that is shifted out is missed (nqueens.h:63-107, 299-332).
MarksOfBoard ==
  /\ columns = {Board[r] : r \in 1..row}
  /\ IF Marks
     THEN /\ diag = {N + (r - 1) - Board[r] : r \in 1..row}
          /\ antidiag = {(r - 1) + Board[r] : r \in 1..row}
     ELSE /\ diag = {Board[r] - (row + 1 - r) : r \in 1..row} \cap Nat
          /\ antidiag = {Board[r] + (row + 1 - r) : r \in 1..row}

\* A board of one column has no row behind the first queen: two of the sub
\* solvers, whose assertions admit it, never count it (nqueens.h:343-373).
MissesOnly == Sub /\ N = 1 /\ solver \in {"bits", "search"}

\* At any time exactly the solutions that come before the board are counted,
\* each once, and in the end all of them.
CountsAll ==
  ~MissesOnly =>
    IF done THEN count = Cardinality(Wanted)
    ELSE count = Cardinality({b \in Wanted : Before(b, Board, NextColumn)})

\* Comment nqueens.h:5, "All solvers are deterministic: same N -> same
\* count": whatever the solver and the first column, all boards are counted.
SameCount == done => count = Cardinality(Wanted)

SearchCorrect == TypeOK /\ MarksOfBoard /\ CountsAll
=============================================================================
