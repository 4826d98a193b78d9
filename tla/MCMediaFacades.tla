--------------------------- MODULE MCMediaFacades ---------------------------
EXTENDS MediaFacades, TLC

CONSTANTS m1, m2, m3

Managers == {m1, m2, m3}

\* In eighths of a second: 1 s and 10 ms, half a second and 50 ms.
Relogin == [k \in Kind |-> IF k = "LinkMic" THEN 8 ELSE 0]
Closing == [k \in Kind |-> IF k = "LinkMic" THEN 4 ELSE 1]
Waits == [k \in Kind |-> IF k = "LinkMic" THEN 0 ELSE 4]

Symmetry == Permutations(Managers)
=============================================================================
