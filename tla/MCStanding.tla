----------------------------- MODULE MCStanding -----------------------------
(***************************************************************************)
(* Messages under permissions that can be withdrawn after admission: m1    *)
(* cites a connection, m2 a conversation (once introduced by that          *)
(* connection, once not), both from carol; m3 and m4 cite a grant of a     *)
(* remote sender.  A run chooses the payloads that are sent, the accounts  *)
(* that may move, and the budgets.                                         *)
(***************************************************************************)
EXTENDS Delivery, TLC

MCLocal == {"alice", "carol"}
MCRemote == {"bob"}
KeyOfAll == [p1 |-> "m1", p2 |-> "m2", p2i |-> "m2", p3 |-> "m3", p4 |-> "m4"]
KeyOfHere == [p \in Payloads |-> KeyOfAll[p]]
ConnectedOrGranted == {"p1", "p3", "p4"}
ConnectedOrGrantedKeys == {"m1", "m3", "m4"}
Conversing == {"p2", "p2i"}
ConversingKeys == {"m2"}
MCSender == [k \in Keys |-> IF k \in {"m3", "m4"} THEN "bob" ELSE "carol"]
MCTo == [p \in Payloads |-> "alice"]
MCCites == [p \in Payloads |-> CASE p = "p1" -> "c" [] p \in {"p3", "p4"} -> "g" [] OTHER -> "v"]
MCIntroduces == [p \in Payloads |-> IF p = "p2i" THEN "c" ELSE NoConnection]
MCInScope == {"p3", "p4"} \cap Payloads
MCDeadline == [p \in Payloads |-> 1]
MCOwner == [a \in Authorities |-> "alice"]
MCPeers == [a \in Authorities |-> IF a = "g" THEN {"bob"} ELSE {"carol"}]
MCUntil == [a \in Authorities |-> 1]
WorkerSymmetry == Permutations(Workers)
=============================================================================
