------------------------------- MODULE Boards -------------------------------
(***************************************************************************)
(* Every board there is, legal or not, reached by marking its cells in any *)
(* order and by anybody, and both judges on each of them.                  *)
(***************************************************************************)
EXTENDS TopologicalGrid

VARIABLE board

Blank == board = wipe_topological_grid

MarkACell == \E mark \in {Node1, Node2}, cell \in Positions :
               /\ board[cell] = 0
               /\ board' = PutMark(board, cell, mark)

SpecBoards == Blank /\ [][MarkACell]_board

victor == calculate_session_victor(board, Node1, Node2)

\* The boards on which one player at most has a line: the others are out of
\* reach of a game that stops at the first.
OneWinner == ~ (HasLine(board, Node1) /\ HasLine(board, Node2))

\* The server (calculate_session_victor) and the client (checkWinner and
\* isBoardFull of TrisGame) judge every such board alike.
JudgesAgree ==
  OneWinner => victor = CASE checkWinner(board) # 0 -> checkWinner(board)
                          [] checkWinner(board) = 0 /\ isBoardFull(board) -> Draw
                          [] OTHER -> Undecided

\* A mark decides an undecided board for the player who made it or for nobody:
\* execute_core_loop may tell both players without asking who moved.
OnlyTheMoverWins ==
  [][victor = Undecided =>
       \A cell \in Positions :
         board'[cell] # board[cell] => victor' \in {board'[cell], Draw, Undecided}]_board
=============================================================================
