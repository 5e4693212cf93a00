\* Two creations, two joins, a ledger and two challenges, in every order.  The
\* user may stop clicking at any time, and leave a dialog open.
SPECIFICATION FairSpec
CONSTANTS
  Daemons = {d1, d2}
  MaxCreations = 2
  MaxJoins = 2
  MaxReloads = 1
  MaxChallenges = 2
  Null = Null
INVARIANTS
  TypeOK
  OneListener
  PollsAlone
PROPERTIES
  JoinsComeBack
CHECK_DEADLOCK FALSE
