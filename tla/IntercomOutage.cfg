CONSTANTS
  c1 = c1  c2 = c2  c3 = c3  g1 = g1  g2 = g2
  NoGroup = NoGroup  Room = Room  NoOne = NoOne
  Client <- Pair
  Listener <- Pair
  Talker = {c2}
  Refused = {}
  Leaver = {}
  Unsteady <- Pair
  Group <- NoGroups
  MaxToServer = 1
  MaxToClient = 0
SPECIFICATION Spec
INVARIANTS NotLockedOut KnowsEverybody
CHECK_DEADLOCK FALSE
