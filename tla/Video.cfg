CONSTANTS
  m1 = m1  m2 = m2  u1 = u1
  NoMeeting = NoMeeting
  Meeting <- TwoMeetings
  User = {u1}
  MaxToServer = 2
  MaxToClient = 1
SPECIFICATION FairSpec
INVARIANTS VideoInv HearsTheMeeting TalksInTheMeeting ClosedOutside
PROPERTIES ImplementsHearing SilentAgain
CHECK_DEADLOCK FALSE
