------------------------------ MODULE Referee ------------------------------
(***************************************************************************)
(* What a match promises its two players, with no server, stream or client *)
(* in sight: they mark free cells in turns, the round is settled by the    *)
(* rules of the game as soon as they decide it, and it may be followed by  *)
(* a round on an empty board.  A careless player may mark a cell that the  *)
(* other has.  CoreMatch implements this specification.                    *)
(***************************************************************************)
EXTENDS Integers, FiniteSets

CONSTANTS Players, Careless

Cells == 1..9
Free == 0
NoOne == 0
NoVictor == -2
Draw == -1

Lines == {{1, 2, 3}, {4, 5, 6}, {7, 8, 9}, {1, 4, 7}, {2, 5, 8}, {3, 6, 9},
          {1, 5, 9}, {3, 5, 7}}

Blank == [c \in Cells |-> Free]

VARIABLES board, mover, stage, victor

vars == <<board, mover, stage, victor>>

Wins(b, p) == \E line \in Lines : \A c \in line : b[c] = p

\* The result the rules give a board on which p has just moved.
Ruling(b, p) ==
  IF Wins(b, p) THEN p
  ELSE IF \E c \in Cells : b[c] = Free THEN NoVictor
  ELSE Draw

Init == /\ board = Blank
        /\ mover = NoOne
        /\ stage = "idle"
        /\ victor = NoVictor

Begin == /\ stage = "idle"
         /\ stage' = "playing"
         /\ mover' \in Players
         /\ UNCHANGED <<board, victor>>

Mark(p, c) ==
  /\ stage = "playing"
  /\ mover = p
  /\ board[c] = Free \/ p \in Careless
  /\ board' = [board EXCEPT ![c] = p]
  /\ victor' = Ruling(board', p)
  /\ IF victor' = NoVictor
     THEN /\ mover' \in Players \ {p}
          /\ UNCHANGED stage
     ELSE /\ mover' = NoOne
          /\ stage' = "settled"

Rematch == /\ stage = "settled"
           /\ stage' = "idle"
           /\ board' = Blank
           /\ victor' = NoVictor
           /\ UNCHANGED mover

\* The players part, in the middle of a round or after it.
Close == /\ stage # "closed"
         /\ stage' = "closed"
         /\ board' = Blank
         /\ mover' = NoOne
         /\ victor' = NoVictor

Next == \/ Begin
        \/ \E p \in Players, c \in Cells : Mark(p, c)
        \/ Rematch
        \/ Close

Spec == Init /\ [][Next]_vars
=============================================================================
