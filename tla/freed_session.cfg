\* Three players of names of seven letters, nothing fails: a second guest of a host is still waiting for
\* its streamLock when the match with the first ends.
SPECIFICATION Spec
CONSTANTS
  Players = {p1, p2, p3}
  Null = Null
  Starter = 2
  Hosts = {p1}
  MaxCreations = 2
  MaxRequests = 2
  NameLengths = {7}
  Cells = {5}
  Slow = {}
  Quitters = {}
  Pollers = {}
  Astray = {}
  MaxUnread = 4
  POOL_SIZE_FOR_IDS = 20
  MaxId = 2
INVARIANT
  NoUseAfterFree
CHECK_DEADLOCK FALSE
