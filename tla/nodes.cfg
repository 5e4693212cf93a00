\* Three connections, one after the other or at once, and a SIGINT.  Nothing
\* happens once all have left or the server has ended.
SPECIFICATION FairShutdownSpec
CONSTANTS
  Connections = {c1, c2, c3}
  Null = Null
  Starter = 1
  MaxOpen = 1
INVARIANTS
  NoDanglingSlot
  ListedSocketsDiffer
PROPERTIES
  LeaversGo
  RoutineEnds
CHECK_DEADLOCK FALSE
