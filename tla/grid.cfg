\* The 3^9 boards.
SPECIFICATION SpecBoards
CONSTANTS
  Node1 = 4
  Node2 = 5
INVARIANTS
  JudgesAgree
PROPERTIES
  OnlyTheMoverWins
\* A full board is the end.
CHECK_DEADLOCK FALSE
