\* Two players of names of five letters, and a host that clicks create again.
SPECIFICATION Spec
CONSTANTS
  Players = {p1, p2}
  Null = Null
  Starter = 2
  Hosts = {p1}
  MaxCreations = 2
  MaxRequests = 2
  NameLengths = {5}
  Cells = {5}
  Slow = {}
  Quitters = {}
  Pollers = {}
  Astray = {}
  MaxUnread = 4
  POOL_SIZE_FOR_IDS = 20
  MaxId = 2
PROPERTY
  ConsentIsForMe
CHECK_DEADLOCK FALSE
