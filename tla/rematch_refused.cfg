\* Both users ask for a rematch and the server refuses it.
SPECIFICATION Spec
CONSTANTS
  Node1 = 4
  Node2 = 5
  MaxRounds = 2
  Playable <- NineCells
  Timeouts = FALSE
  Quitters <- Nobody
  Pollers <- Nobody
  MaxUnread = 0
PROPERTIES
  RematchWhenBothAgree
CHECK_DEADLOCK FALSE
