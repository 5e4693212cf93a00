\* The host's lobby keeps fetching the ledger on the connection of the match, as
\* the program of every host does; the guest's does not.
SPECIFICATION Spec
CONSTANTS
  Node1 = 4
  Node2 = 5
  MaxRounds = 2
  Playable <- PolledCells
  Timeouts = TRUE
  Quitters <- Nobody
  Pollers <- TheHost
  MaxUnread = 2
INVARIANTS
  StreamInStep
  TurnsAgree
  ViewsReconcile
PROPERTIES
  RematchNeedsBoth
  PlaysTheGame
