---------------------------- MODULE QueensCover -----------------------------
(***************************************************************************)
(* The queens by dancing links: dl::Solver of nqueens.h and QueenSolver of *)
(* nqueens_dl.cc, which differ in the order of the columns and of the      *)
(* squares.  A row of the matrix is a square of the board, with a node in  *)
(* each of the four columns that it fills: the column, the row and the two *)
(* diagonals.  Removed nodes keep their own links, and the search relies   *)
(* on them when it puts the nodes back in the opposite order.              *)
(*                                                                         *)
(* A step is one part of solve_impl: the entry, a row of its loop before   *)
(* and after the recursive call, and the exit.                             *)
(***************************************************************************)
EXTENDS Integers, Sequences, SequencesExt, Queens

CONSTANT CoverSizes     \* the values of N

VARIABLES
  version,      \* "nqueens.h" or "nqueens_dl.cc"
  N,
  links,        \* up and down of all nodes, left and right of the heads,
                \* size of the columns
  calls,        \* the stack of solve_impl: its column and its row node
  mode,         \* "enter", "loop", "return" or "done"
  count

vars == <<version, N, links, calls, mode, count>>

\* Nodes are pairs: of a square and a column, or a column's head.
HeadOf(n) == <<-1, n>>
Root      == HeadOf(-1)

\* Squares are numbered in the order in which their rows are added.
Squares    == 0..N * N - 1
RowOf(s)   == IF version = "nqueens.h" THEN s \div N ELSE s % N
ColOf(s)   == IF version = "nqueens.h" THEN s % N ELSE s \div N

\* The columns that a square fills, in the order of its nodes.
Fills(s) == <<ColOf(s), N + RowOf(s), 2 * N + RowOf(s) + ColOf(s),
              5 * N + RowOf(s) - ColOf(s)>>

Columns == 0..6 * N - 1

\* The columns that must be filled, in the order of their heads.
Primary ==
  [i \in 1..2 * N |-> IF version = "nqueens.h" THEN i - 1
                     ELSE IF i % 2 = 1 THEN i \div 2 ELSE N + (i \div 2) - 1]

\* The links of the circular list that runs through h and the nodes of q.
Ring(h, q) ==
  LET c == <<h>> \o q
      k == Len(c)
      Place(x) == CHOOSE i \in 1..k : c[i] = x
  IN  [right |-> [x \in ToSet(c) |-> c[(Place(x) % k) + 1]],
       left  |-> [x \in ToSet(c) |-> c[((Place(x) + k - 2) % k) + 1]]]

\* The nodes of column n, from the top, on the squares of S.
NodesOf(n, S) ==
  LET Has(s) == s \in S /\ n \in ToSet(Fills(s))
      q == SelectSeq([i \in 1..N * N |-> i - 1], Has)
  IN  [i \in 1..Len(q) |-> <<q[i], n>>]

\* The constructor.
Built ==
  LET ring == [n \in Columns |-> Ring(HeadOf(n), NodesOf(n, Squares))]
      Nodes == UNION {DOMAIN ring[n].right : n \in Columns}
      heads == Ring(Root, [i \in 1..2 * N |-> HeadOf(Primary[i])])
      Alone == {HeadOf(n) : n \in 2 * N..6 * N - 1}
  IN  [down  |-> [x \in Nodes |-> ring[x[2]].right[x]],
       up    |-> [x \in Nodes |-> ring[x[2]].left[x]],
       right |-> [x \in DOMAIN heads.right \cup Alone |->
                    IF x \in Alone THEN x ELSE heads.right[x]],
       left  |-> [x \in DOMAIN heads.left \cup Alone |->
                    IF x \in Alone THEN x ELSE heads.left[x]],
       size  |-> [n \in Columns |-> Len(NodesOf(n, Squares))]]

Init ==
  /\ version \in {"nqueens.h", "nqueens_dl.cc"}
  /\ N \in CoverSizes
  /\ links = Built
  /\ calls = <<>>
  /\ mode = "enter"
  /\ count = 0

-----------------------------------------------------------------------------

\* The nodes that the links of one direction lead to, until x is met again.
Walk(step, x) ==
  LET from[y \in DOMAIN step] ==
        IF step[y] = x THEN <<>> ELSE <<step[y]>> \o from[step[y]]
  IN  from[x]

\* The other nodes of a node's row, to the right and to the left.
ToTheRight(j) ==
  LET f == Fills(j[1])
      i == CHOOSE i \in 1..4 : f[i] = j[2]
  IN  [k \in 1..3 |-> <<j[1], f[((i + k - 1) % 4) + 1]>>]

ToTheLeft(j) == Reverse(ToTheRight(j))

Unlink(L, j) == [L EXCEPT !.up[L.down[j]] = L.up[j],
                          !.down[L.up[j]] = L.down[j],
                          !.size[j[2]] = @ - 1]

Relink(L, j) == [L EXCEPT !.size[j[2]] = @ + 1,
                          !.up[L.down[j]] = j,
                          !.down[L.up[j]] = j]

\* The column's head leaves the list, and its rows all other columns.
cover(L, n) ==
  LET h == HeadOf(n)
      nodes == Walk(L.down, h)
  IN  FoldLeft(Unlink,
        [L EXCEPT !.left[L.right[h]] = L.left[h], !.right[L.left[h]] = L.right[h]],
        FlattenSeq([i \in 1..Len(nodes) |-> ToTheRight(nodes[i])]))

uncover(L, n) ==
  LET h == HeadOf(n)
      nodes == Walk(L.up, h)
      M == FoldLeft(Relink, L,
             FlattenSeq([i \in 1..Len(nodes) |-> ToTheLeft(nodes[i])]))
  IN  [M EXCEPT !.left[M.right[h]] = h, !.right[M.left[h]] = h]

\* The first column with one row or none, else the first of the smallest.
get_min_column ==
  LET heads == Walk(links.right, Root)
      Size(i) == links.size[heads[i][2]]
      I == DOMAIN heads
      best == IF \E i \in I : Size(i) <= 1
              THEN {i \in I : Size(i) <= 1}
              ELSE {i \in I : \A k \in I : Size(i) <= Size(k)}
  IN  heads[CHOOSE i \in best : \A k \in best : i <= k][2]

top == calls[Len(calls)]

\* No column is left to fill: a solution.
CountSolution ==
  /\ mode = "enter" /\ links.right[Root] = Root
  /\ count' = count + 1
  /\ mode' = IF calls = <<>> THEN "done" ELSE "return"
  /\ UNCHANGED <<version, N, links, calls>>

ChooseColumn ==
  /\ mode = "enter" /\ links.right[Root] # Root
  /\ LET n == get_min_column IN
       /\ links' = cover(links, n)
       /\ calls' = Append(calls, [col |-> n, row |-> links'.down[HeadOf(n)]])
  /\ mode' = "loop"
  /\ UNCHANGED <<version, N, count>>

\* The columns of the row are covered, and the search descends.
TryRow ==
  /\ mode = "loop" /\ top.row # HeadOf(top.col)
  /\ links' = FoldLeft(LAMBDA L, j : cover(L, j[2]), links, ToTheRight(top.row))
  /\ mode' = "enter"
  /\ UNCHANGED <<version, N, calls, count>>

\* Mutant: the columns are uncovered in the order in which they were covered.
UndoRow_SameOrder ==
  /\ mode = "return"
  /\ links' = FoldLeft(LAMBDA L, j : uncover(L, j[2]), links, ToTheRight(top.row))
  /\ calls' = [calls EXCEPT ![Len(calls)].row = links'.down[@]]
  /\ mode' = "loop"
  /\ UNCHANGED <<version, N, count>>

\* They are uncovered in the opposite order, and the next row is tried.
UndoRow ==
  /\ mode = "return"
  /\ links' = FoldLeft(LAMBDA L, j : uncover(L, j[2]), links, ToTheLeft(top.row))
  /\ calls' = [calls EXCEPT ![Len(calls)].row = links'.down[@]]
  /\ mode' = "loop"
  /\ UNCHANGED <<version, N, count>>

Leave ==
  /\ mode = "loop" /\ top.row = HeadOf(top.col)
  /\ links' = uncover(links, top.col)
  /\ calls' = Front(calls)
  /\ mode' = IF calls' = <<>> THEN "done" ELSE "return"
  /\ UNCHANGED <<version, N, count>>

Next == CountSolution \/ ChooseColumn \/ TryRow \/ UndoRow \/ Leave

Spec == Init /\ [][Next]_vars

-----------------------------------------------------------------------------

\* The rows whose columns are covered, and all covered columns.
Tried == {calls[i].row : i \in 1..Len(calls) - IF mode = "loop" THEN 1 ELSE 0}
Covered == {calls[i].col : i \in DOMAIN calls}
             \cup UNION {ToSet(Fills(j[1])) : j \in Tried}

TypeOK ==
  /\ mode \in {"enter", "loop", "return", "done"}
  /\ Len(calls) <= 2 * N
  /\ \A i \in DOMAIN calls : calls[i].col \in Columns

\* Whatever was covered and uncovered before, the links are those that the
\* rows on the stack account for: the heads in their order without the
\* covered ones, and in each column that is not covered, from above as from
\* below, the squares that fill no covered column (nqueens.h:226-248).
LinksRestored ==
  LET fit == {s \in Squares : ToSet(Fills(s)) \cap Covered = {}}
      heads == SelectSeq(Primary, LAMBDA n : n \notin Covered)
  IN  /\ Walk(links.right, Root) = [i \in DOMAIN heads |-> HeadOf(heads[i])]
      /\ Walk(links.left, Root) = Reverse(Walk(links.right, Root))
      /\ \A n \in Columns \ Covered :
           /\ Walk(links.down, HeadOf(n)) = NodesOf(n, fit)
           /\ Walk(links.up, HeadOf(n)) = Reverse(NodesOf(n, fit))
           /\ links.size[n] = Len(NodesOf(n, fit))

\* The queens of the stack attack nobody, and in the end every board was
\* counted once and the matrix is as it was built.
CountsBoards ==
  /\ \A i, j \in Tried : i # j => ToSet(Fills(i[1])) \cap ToSet(Fills(j[1])) = {}
  /\ mode = "done" => links = Built /\ count = Cardinality(Solutions(N))

CoverCorrect == TypeOK /\ LinksRestored /\ CountsBoards
=============================================================================
