--------------------------- MODULE MCConnections ----------------------------
(* Two codes, one of each side, used for two requests.                     *)
EXTENDS ConnectionHistory

MCInviters == {[c \in Codes |-> IF c = 11 THEN "large" ELSE "small"]}
=============================================================================
