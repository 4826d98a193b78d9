CONSTANTS
  m1 = m1  m2 = m2  m3 = m3
  NULL = NULL
  Manager <- Managers
  ReloginWait <- Relogin
  CloseWait <- Closing
  Patience <- Waits
  Answer = 1
  Dispatch = 1
  Late = 1
SPECIFICATION Spec
INVARIANTS MediaFacadesInv PatienceIsEnough OneManagerEach
CHECK_DEADLOCK FALSE
SYMMETRY Symmetry
