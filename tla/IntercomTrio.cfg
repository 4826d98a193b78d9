CONSTANTS
  c1 = c1  c2 = c2  c3 = c3  g1 = g1  g2 = g2
  NoGroup = NoGroup  Room = Room  NoOne = NoOne
  Client <- Trio
  Listener = {c1, c2}
  Talker = {c2, c3}
  Refused = {}
  Leaver = {}
  Unsteady = {}
  Group <- Hub
  MaxToServer = 1
  MaxToClient = 0
SPECIFICATION PromptSpec
INVARIANT SpeakerIsPlayed
CHECK_DEADLOCK FALSE
