---------------------------- MODULE SudokuSolver ----------------------------
(***************************************************************************)
(* sudoku.cpp: Knuth's dancing links.  What is still to be satisfied is a  *)
(* ring of columns (every empty cell is filled, every value is in every    *)
(* row, column and box); below each column hang the rows that would do it. *)
(* A pointer is the number of a node; the root is node 1.                  *)
(***************************************************************************)
EXTENDS Integers, Sequences, SequencesExt, FiniteSetsExt

CONSTANT Box     \* the side of a box, 3 in the code

Side   == Box * Box
kCells == Side * Side
kRow == 100  kCol == 200  kBox == 300
root == 1
NoSolution == <<>>

Cells == 0 .. kCells - 1
RowOf == [cell \in Cells |-> cell \div Side]
ColOf == [cell \in Cells |-> cell % Side]
BoxOf == [cell \in Cells |-> (RowOf[cell] \div Box) * Box + ColOf[cell] \div Box]

get_row_col(row, val) == kRow + row * 10 + val
get_col_col(col, val) == kCol + col * 10 + val
get_box_col(box, val) == kBox + box * 10 + val

\* All nodes but the node itself, on the ring that goes this way from it.
Around(nodes, way, from) ==
  LET onward[at \in DOMAIN nodes] == IF at = from THEN <<>> ELSE <<at>> \o onward[nodes[at][way]]
  IN  onward[nodes[from][way]]

\* put_left and put_up add at the end of a ring: its nodes are in the order of
\* their numbers, and the last is followed by the first.
After(ring, n)  == IF n = Max(ring) THEN Min(ring) ELSE Min({m \in ring : m > n})
Before(ring, n) == IF n = Min(ring) THEN Max(ring) ELSE Max({m \in ring : m < n})

\* The constructor: append_column for each empty cell and each value that a
\* row, a column or a box lacks, then four times new_row for each value that
\* may be put into an empty cell, chosen here as <<cell, value>>.
Given(board, houseOf, k) == {board[i + 1] : i \in {j \in Cells : houseOf[j] = k}}

Lacking(board, i, v) ==
  (IF v \in Given(board, RowOf, i) THEN <<>> ELSE <<get_row_col(i, v)>>)
    \o (IF v \in Given(board, ColOf, i) THEN <<>> ELSE <<get_col_col(i, v)>>)
    \o (IF v \in Given(board, BoxOf, i) THEN <<>> ELSE <<get_box_col(i, v)>>)

EmptyCells(board) == SelectSeq([i \in 1 .. kCells |-> i - 1], LAMBDA i : board[i + 1] = 0)

ColumnNames(board) ==
  EmptyCells(board)
    \o FlattenSeq([k \in 1 .. kCells |-> Lacking(board, (k - 1) \div Side, ((k - 1) % Side) + 1)])

Candidates(board) ==
  LET May(i, v) == v \notin Given(board, RowOf, RowOf[i]) \cup Given(board, ColOf, ColOf[i])
                              \cup Given(board, BoxOf, BoxOf[i])
      empty == EmptyCells(board)
  IN  FlattenSeq([e \in DOMAIN empty |->
        LET values == SelectSeq([v \in 1 .. Side |-> v], LAMBDA v : May(empty[e], v))
        IN  [f \in DOMAIN values |-> <<empty[e], values[f]>>]])

Links(board) ==
  LET choices == Candidates(board)
      header  == ColumnNames(board)
      rows    == FlattenSeq([k \in DOMAIN choices |->
                   LET i == choices[k][1]
                       v == choices[k][2]
                   IN  <<i, get_row_col(RowOf[i], v), get_col_col(ColOf[i], v), get_box_col(BoxOf[i], v)>>])
      names   == <<0>> \o header \o rows
      heads   == Len(header) + 1
      col     == [n \in DOMAIN names |-> CHOOSE c \in 1 .. heads : names[c] = names[n] /\ (c = root <=> n = root)]
      below   == [c \in 1 .. heads |-> {n \in DOMAIN names : col[n] = c}]
      beside  == [n \in DOMAIN names |->
                   IF n <= heads THEN 1 .. heads
                   ELSE LET first == n - ((n - heads - 1) % 4) IN first .. first + 3]
  IN  [n \in DOMAIN names |->
        [left |-> Before(beside[n], n), right |-> After(beside[n], n),
         up |-> Before(below[col[n]], n), down |-> After(below[col[n]], n),
         col |-> col[n], name |-> names[n],
         size |-> IF n <= heads THEN Cardinality(below[n]) - 1 ELSE 0]]

\* From two candidates on, the smaller; never beyond a column of size one.
get_min_column(nodes) ==
  LET columns == Around(nodes, "right", root)
  IN  FoldLeft(LAMBDA c, cc : IF nodes[c].size > 1 /\ nodes[c].size > nodes[cc].size THEN cc ELSE c,
               columns[1], columns)

\* The nodes beside those below (or, on the way back, above) a column.
Beside(nodes, c, way, side) ==
  LET column == Around(nodes, way, c)
  IN  FlattenSeq([i \in DOMAIN column |-> Around(nodes, side, column[i])])

cover(nodes, c) ==
  FoldLeft(LAMBDA m, j : [m EXCEPT ![m[j].down].up = m[j].up, ![m[j].up].down = m[j].down,
                                   ![m[j].col].size = @ - 1],
           [nodes EXCEPT ![nodes[c].right].left = nodes[c].left, ![nodes[c].left].right = nodes[c].right],
           Beside(nodes, c, "down", "right"))

uncover(nodes, c) ==
  LET m == FoldLeft(LAMBDA m, j : [m EXCEPT ![m[j].col].size = @ + 1, ![m[j].down].up = j, ![m[j].up].down = j],
                    nodes, Beside(nodes, c, "up", "left"))
  IN  [m EXCEPT ![m[c].right].left = c, ![m[c].left].right = c]

coverOthers(nodes, row) == FoldLeft(LAMBDA m, j : cover(m, m[j].col), nodes, Around(nodes, "right", row))

\* A defect: the columns are put back in the order in which they were taken out.
uncoverForward(nodes, row) == FoldLeft(LAMBDA m, j : uncover(m, m[j].col), nodes, Around(nodes, "right", row))

uncoverOthers(nodes, row) == FoldLeft(LAMBDA m, j : uncover(m, m[j].col), nodes, Around(nodes, "left", row))

(***************************************************************************)
(* solve() calls itself for what is left after a row has been chosen.  The *)
(* frames of its recursion are the rows on the stack: the column of a      *)
(* frame is that of its row.                                               *)
(***************************************************************************)
VARIABLES board,
          nodes,
          stack,    \* stack_
          at,       \* the row that the innermost solve() is at, or its column
          mode      \* what it does next

vars == <<board, nodes, stack, at, mode>>

\* solveSudoku: only a board of digits is solved.
Init ==
  /\ stack = <<>> /\ at = root
  /\ IF \A i \in DOMAIN board : board[i] \in 0 .. Side
     THEN mode = "descend" /\ nodes = Links(board)
     ELSE mode = "refused" /\ nodes = <<>>

Found ==
  /\ mode = "descend" /\ nodes[root].left = root
  /\ mode' = "solved"
  /\ UNCHANGED <<board, nodes, stack, at>>

Descend ==
  /\ mode = "descend" /\ nodes[root].left # root
  /\ LET c == get_min_column(nodes)
     IN  nodes' = cover(nodes, c) /\ at' = nodes'[c].down
  /\ mode' = "try"
  /\ UNCHANGED <<board, stack>>

TryRow ==
  /\ mode = "try" /\ at # nodes[at].col
  /\ stack' = Append(stack, at)
  /\ nodes' = coverOthers(nodes, at)
  /\ mode' = "descend"
  /\ UNCHANGED <<board, at>>

Exhausted ==
  /\ mode = "try" /\ at = nodes[at].col
  /\ nodes' = uncover(nodes, at)
  /\ mode' = IF stack = <<>> THEN "failed" ELSE "back"
  /\ UNCHANGED <<board, stack, at>>

Back ==
  /\ mode = "back"
  /\ nodes' = uncoverOthers(nodes, Last(stack))
  /\ at' = nodes'[Last(stack)].down
  /\ stack' = Front(stack)
  /\ mode' = "try"
  /\ UNCHANGED board

Next == Found \/ Descend \/ TryRow \/ Exhausted \/ Back

\* The cell and the value that a row of the stack stands for.
Chosen(row) ==
  LET names == {nodes[n].name : n \in ToSet(<<row>> \o Around(nodes, "right", row))}
  IN  [cell |-> CHOOSE n \in names : n < kRow, val |-> (CHOOSE n \in names : n >= kRow) % 10]

Ended  == mode \in {"solved", "failed", "refused"}
Result ==
  IF mode # "solved" THEN NoSolution
  ELSE LET chosen == {Chosen(row) : row \in ToSet(stack)}
       IN  [i \in DOMAIN board |->
             IF board[i] # 0 THEN board[i] ELSE (CHOOSE c \in chosen : c.cell = i - 1).val]

----------------------------------------------------------------------------
\* A grid in which every row, column and box has every value.
Proper(grid) ==
  \A houseOf \in {RowOf, ColOf, BoxOf}, k \in 0 .. Side - 1 : Given(grid, houseOf, k) = 1 .. Side

\* All of them, counted out by halves (for boxes of two by two).
Orders == {p \in [1 .. 4 -> 1 .. 4] : \A i, j \in 1 .. 4 : p[i] = p[j] => i = j}
Halves == {top \o bottom : top \in Orders, bottom \in Orders}
Completes(part, i, given) == \A j \in DOMAIN part : given[i + j] \in {0, part[j]}
Completions(given) ==
  {g \in {top \o bottom : top \in {p \in Halves : Completes(p, 0, given)},
                         bottom \in {p \in Halves : Completes(p, 8, given)}} : Proper(g)}

\* The solver ends with a grid that completes the board, or there is none,
\* also when the board's values contradict each other, which it never looks
\* for; whenever it has given up all its choices, or all of them below some
\* frame, the links are what they were (sudoku.cpp:95-133).
SolvedRight ==
  /\ mode = "solved" => Proper(Result) /\ Completes(Result, 0, board)
  /\ mode = "failed" => nodes = Links(board) /\ Completions(board) = {}
=============================================================================
