-------------------------- MODULE TopologicalGrid --------------------------
(***************************************************************************)
(* The board of a match and the functions of server.c that judge it,       *)
(* beside the client's own judge (TrisGame.java).                          *)
(*                                                                         *)
(* A grid maps the nine positions 1..9 (the numbers the players send, one  *)
(* more than 3 * row + column) to the descriptor that marked the cell, 0   *)
(* while the cell is free.                                                 *)
(***************************************************************************)
EXTENDS Integers, FiniteSets

CONSTANTS Node1, Node2   \* socket descriptors: participantPrimary, participantSecondary

ASSUME NodesAssumption == /\ Node1 \in Nat \ {0}
                          /\ Node2 \in Nat \ {0}
                          /\ Node1 # Node2

Positions == 1..9
Axis == 0..2

Grids(values) == [Positions -> values]

\* gridMatrix[r][c]
Cell(r, c) == 3 * r + c + 1

\* A grid as allocateGrid's callers leave it, and as a rematch wipes it.
wipe_topological_grid == [p \in Positions |-> 0]

\* gridMatrix[(cell - 1) / 3][(cell - 1) % 3] = mark
PutMark(grid, cell, mark) == [grid EXCEPT ![cell] = mark]

validate_horizontal_alignment(grid, target) ==
  \E r \in Axis : \A c \in Axis : grid[Cell(r, c)] = target

validate_vertical_alignment(grid, target) ==
  \E c \in Axis : \A r \in Axis : grid[Cell(r, c)] = target

\* Mutant: one diagonal is forgotten.
OneDiagonal(grid, target) == \A p \in Axis : grid[Cell(p, p)] = target
validate_diagonal_alignment(grid, target) ==
  \/ \A p \in Axis : grid[Cell(p, p)] = target
  \/ \A p \in Axis : grid[Cell(p, 2 - p)] = target

HasFreeCell(grid) == \E r, c \in Axis : grid[Cell(r, c)] = 0

Undecided == -2
Draw == -1

\* The kind of line is tried first, the player second.
\* Mutants: a column of the second player wins for the first; the victor is named
\* by rank and not by descriptor.
VictorOfColumnsMixed(grid, val1, val2) ==
  IF validate_horizontal_alignment(grid, val1) THEN val1
  ELSE IF validate_horizontal_alignment(grid, val2) THEN val2
  ELSE IF validate_vertical_alignment(grid, val1) THEN val1
  ELSE IF validate_vertical_alignment(grid, val2) THEN val1
  ELSE IF validate_diagonal_alignment(grid, val1) THEN val1
  ELSE IF validate_diagonal_alignment(grid, val2) THEN val2
  ELSE IF HasFreeCell(grid) THEN Undecided
  ELSE Draw
VictorByRank(grid, val1, val2) ==
  IF validate_horizontal_alignment(grid, val1) THEN 1
  ELSE IF validate_horizontal_alignment(grid, val2) THEN 2
  ELSE IF HasFreeCell(grid) THEN Undecided
  ELSE Draw
calculate_session_victor(grid, val1, val2) ==
  IF validate_horizontal_alignment(grid, val1) THEN val1
  ELSE IF validate_horizontal_alignment(grid, val2) THEN val2
  ELSE IF validate_vertical_alignment(grid, val1) THEN val1
  ELSE IF validate_vertical_alignment(grid, val2) THEN val2
  ELSE IF validate_diagonal_alignment(grid, val1) THEN val1
  ELSE IF validate_diagonal_alignment(grid, val2) THEN val2
  ELSE IF HasFreeCell(grid) THEN Undecided
  ELSE Draw

-----------------------------------------------------------------------------
(***************************************************************************)
(* The client's judge: the first line of the table in TrisGame.checkWinner *)
(* that one player fills, and 0 if there is none.                          *)
(***************************************************************************)
validation_matrix ==
  <<{1, 2, 3}, {4, 5, 6}, {7, 8, 9},
    {1, 4, 7}, {2, 5, 8}, {3, 6, 9},
    {1, 5, 9}, {3, 5, 7}>>

Fills(grid, line, mark) == \A p \in line : grid[p] = mark

checkWinner(grid) ==
  LET filled == {i \in DOMAIN validation_matrix :
                   \E mark \in {grid[p] : p \in validation_matrix[i]} \ {0} :
                     Fills(grid, validation_matrix[i], mark)}
      first == CHOOSE i \in filled : \A j \in filled : i <= j
  IN IF filled = {} THEN 0
     ELSE grid[CHOOSE p \in validation_matrix[first] : TRUE]

isBoardFull(grid) == \A p \in Positions : grid[p] # 0

\* The client's own record of the marks: makeMoveUI refuses a cell that is
\* taken, applyOpponentMove leaves it alone.
makeMoveUI(grid, cell) == grid[cell] = 0
applyOpponentMove(grid, cell, mark) ==
  [grid EXCEPT ![cell] = IF @ = 0 THEN mark ELSE @]

HasLine(grid, mark) ==
  \E i \in DOMAIN validation_matrix : Fills(grid, validation_matrix[i], mark)
=============================================================================
