CONSTANTS
  m1 = m1  m2 = m2  m3 = m3
  NULL = NULL
  Manager <- Managers
  ReloginWait = 6
  CallbackWait = 2
  Answer = 2
  Dispatch = 1
  Late = 1
SPECIFICATION FairSpec
INVARIANTS FacadeInv OwnEnd
PROPERTIES ImplementsSlot LoggedInAgain
CHECK_DEADLOCK FALSE
