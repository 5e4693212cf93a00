\* Programs that stop, receives that time out and a rematch, in every order.
SPECIFICATION FairSpec
CONSTANTS
  Node1 = 4
  Node2 = 5
  MaxRounds = 2
  Playable <- FewCells
  Timeouts = TRUE
  Quitters <- Everybody
  Pollers <- Nobody
  MaxUnread = 0
INVARIANTS
  TypeOK
  StreamInStep
  TurnsAgree
  OnlyTheActingNodeSpeaks
  ViewsReconcile
  NoMoveRefused
PROPERTIES
  PlaysTheGame
  RoundEnds
