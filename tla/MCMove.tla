------------------------------- MODULE MCMove -------------------------------
EXTENDS AccountMove
CONSTANTS a, b
BothProviders == {a, b}
=============================================================================
