------------------------------ MODULE MCGrants ------------------------------
(* One grant of one pair and two versions of the sender's profile, the     *)
(* second offering more; clients select both categories or one.            *)
EXTENDS Grants

MCScopes == {{"news", "bills"}, {"bills"}}
MCOffers == << {"bills"}, {"news", "bills"} >>
=============================================================================
