--------------------------- MODULE MCBackendInstall ---------------------------
EXTENDS BackendHalts

CONSTANTS p1, cuda, r1, r2, f1, f2, f3

\* The second release drops f1, keeps f2 and adds f3.
OnePayload ==
  [r \in Releases |-> [n \in Names |-> IF r = r1 THEN {f1, f2} ELSE {f2, f3}]]
=============================================================================
