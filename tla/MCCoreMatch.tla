---------------------------- MODULE MCCoreMatch ----------------------------
(***************************************************************************)
(* Instances of CoreMatch for TLC.                                         *)
(***************************************************************************)
EXTENDS CoreMatch

\* Between them the users fill the board, contend for five of its cells, can
\* win by a row, a column or a diagonal, and can draw.
NineCells == [p \in Players |-> IF p = Node1 THEN {1, 2, 3, 5, 6, 7, 9}
                                             ELSE {1, 3, 4, 5, 7, 8}]

\* The first can win by a row, the second by a diagonal, each can take what the
\* other needs, and the second may have a cell left to click when it has lost.
FewCells == [p \in Players |-> IF p = Node1 THEN {1, 2, 3} ELSE {3, 5, 7, 9}]

\* With its polls, which mark cell 2, the first can win by the row.
PolledCells == [p \in Players |-> IF p = Node1 THEN {1, 3} ELSE {2, 5}]

Nobody == {}
Everybody == Players
TheHost == {Node1}
=============================================================================
