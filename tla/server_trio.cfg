\* Three players, two matches: two guests for one host, hosts that are guests
\* elsewhere or click create again, under names of five letters.  The third one's
\* lobby polls in a match too and, once it has lost its place in the stream, may
\* write anything.  The users stop when their requests are used up.
SPECIFICATION Spec
CONSTANTS
  Players = {p1, p2, p3}
  Null = Null
  Starter = 2
  Hosts = {p1, p2, p3}
  MaxCreations = 2
  MaxRequests = 2
  NameLengths = {5}
  Cells = {5}
  Slow = {}
  Quitters = {}
  Pollers = {p3}
  Astray = {p3}
  MaxUnread = 4
  POOL_SIZE_FOR_IDS = 20
  MaxId = 2
SYMMETRY AnyPlayer
INVARIANTS
  TypeOK
  OneMatchEach
  PlayersAreHeld
  NoCircularWait
  NoZombieSessions
CHECK_DEADLOCK FALSE
