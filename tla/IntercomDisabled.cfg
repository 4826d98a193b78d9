CONSTANTS
  c1 = c1  c2 = c2  c3 = c3  g1 = g1  g2 = g2
  NoGroup = NoGroup  Room = Room  NoOne = NoOne
  Client <- Pair
  Listener <- Pair
  Talker <- Pair
  Refused = {}
  Leaver = {}
  Unsteady = {}
  Group <- NoGroups
  MaxToServer = 1
  MaxToClient = 0
SPECIFICATION Spec
INVARIANT DisabledIsSilent
CHECK_DEADLOCK FALSE
