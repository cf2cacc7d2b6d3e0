------------------------------- MODULE MCReply -------------------------------
(***************************************************************************)
(* Two replies of one remote sender compete for one reply capability of    *)
(* the local account alice; a second payload reuses the key of the second  *)
(* reply.  The account may be fenced, released, retired and closed, and    *)
(* workers may crash or outlive their lease of one tick.                   *)
(***************************************************************************)
EXTENDS Delivery

MCLocal == {"alice"}
MCRemote == {"bob"}
MCKeys == {"m1", "m2"}
MCPayloads == {"p1", "p2", "p2x"}
MCReplies == {"r"}
MCSender == [k \in MCKeys |-> "bob"]
MCKeyOf == [p \in MCPayloads |-> IF p = "p1" THEN "m1" ELSE "m2"]
MCTo == [p \in MCPayloads |-> "alice"]
MCCites == [p \in MCPayloads |-> "r"]
MCIntroduces == [p \in MCPayloads |-> NoConnection]
MCDeadline == [p \in MCPayloads |-> IF p = "p2x" THEN 1 ELSE 2]
MCOwner == [a \in MCReplies |-> "alice"]
MCPeers == [a \in MCReplies |-> {"bob"}]
MCUntil == [a \in MCReplies |-> 1]
=============================================================================
