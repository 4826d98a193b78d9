-------------------------- MODULE MCIntercomFacade --------------------------
EXTENDS IntercomFacade

CONSTANTS m1, m2, m3

Managers == {m1, m2, m3}
=============================================================================
