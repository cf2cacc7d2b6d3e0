------------------------------ MODULE MCSignup ------------------------------
EXTENDS CommandLine
CONSTANTS c1, c2, g1, g2, k1, k2
TwoControllers == {c1, c2}
TwoOperations == {g1, g2}
TwoKeys == {k1, k2}
=============================================================================
