CONSTANTS
  a = a  g = g  h = h
  Client = {a, g}
  Anchor = {a}
  HasVideo = {g}
  Refused = {g}
  MaxLogins = 2
  MaxToServer = 2
  MaxToClient = 0
SPECIFICATION FairSpec
INVARIANTS LinkMicInv AnchorHears GuestIsHeard NothingOutlivesManager
PROPERTIES LostByListOnly LogoutSilences
CHECK_DEADLOCK FALSE
