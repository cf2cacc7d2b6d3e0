------------------------------ MODULE MCCustody -----------------------------
EXTENDS Custody
CONSTANTS q1, q2, g1, g2
TwoCalls == {q1, q2}
TwoGrants == {g1, g2}
=============================================================================
