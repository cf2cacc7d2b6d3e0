------------------------------ MODULE MCStatus ------------------------------
(***************************************************************************)
(* One message between two providers, with one submission and two          *)
(* publishers at once.                                                     *)
(***************************************************************************)
EXTENDS StatusFlow
=============================================================================
