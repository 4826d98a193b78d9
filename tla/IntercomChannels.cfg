CONSTANTS
  c1 = c1  c2 = c2  c3 = c3  g1 = g1  g2 = g2
  NoGroup = NoGroup  Room = Room  NoOne = NoOne
  Client <- Pair
  Listener <- Pair
  Talker <- Pair
  Refused = {c2}
  Leaver = {c1}
  Unsteady = {}
  Group <- OneGroup
  MaxToServer = 2
  MaxToClient = 1
SPECIFICATION PromptSpec
INVARIANTS TalkerHoldsFloor HolderTalks UserListExact PromptInv NoOrphan
PROPERTY ImplementsFloor
CHECK_DEADLOCK FALSE
