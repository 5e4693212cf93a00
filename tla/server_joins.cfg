\* Two guests for one host, which may be silent for 30 seconds or for good, or
\* quit.  Where everybody has gone nothing happens any more.
SPECIFICATION FairSpec
CONSTANTS
  Players = {p1, p2, p3}
  Null = Null
  Starter = 2
  Hosts = {p1}
  MaxCreations = 1
  MaxRequests = 2
  NameLengths = {5}
  Cells = {5}
  Slow = {p1}
  Quitters = {p1}
  Pollers = {}
  Astray = {}
  MaxUnread = 4
  POOL_SIZE_FOR_IDS = 20
  MaxId = 2
PROPERTIES
  JoinsEnd
CHECK_DEADLOCK FALSE
