------------------------- MODULE ConnectionHistory --------------------------
(***************************************************************************)
(* What an account that moves takes of a connection with it: the history   *)
(* its provider exports (migration/connection-history.ts), the authority   *)
(* pass the destination makes over it (connection-history-verification.ts) *)
(* and the frontier that mover and peer must agree on before the peer      *)
(* freezes the pair (connection-handover.ts).                              *)
(*                                                                         *)
(* Each is a check that refuses the move.  A refusal that nothing the      *)
(* account can still do would lift leaves it with its provider for good,   *)
(* so the checks are held against every history the federation can make.   *)
(***************************************************************************)
EXTENDS Connections

-----------------------------------------------------------------------------
(* validateConnectionHistory: the parts of a side's history fit together.  *)

PairFits(s) ==
    \/ pair[s] = Empty
    \/ pair[s].state \in {"active", "disconnected"} /\ pair[s].epoch > 0 /\ pair[s].cid # 0

(* Only the coordinator keeps events, one for each epoch up to its pair's, *)
(* and the pair's own is among them.                                       *)
EventsFit(s) ==
    s = "small" =>
        /\ Len(history) <= pair[s].epoch
        /\ pair[s] # Empty => pair[s].epoch \in DOMAIN history /\ EventSnapshot(pair[s].epoch) = pair[s]

ResultsFit(s) == s = "small" => \A r \in Requests : result[r] # 0 => result[r] \in DOMAIN history

(* A tombstone is not for a later epoch nor for the connection in use, and *)
(* a connection that has ended has one.                                    *)
TombstonesFit(s) ==
    /\ \A cid \in tomb[s] : cid <= pair[s].epoch /\ ~(pair[s].state = "active" /\ pair[s].cid = cid)
    /\ pair[s].state = "disconnected" => pair[s].cid \in tomb[s]

Answered(s, r) == attempt[s][r].at = "active" \/ (s = "small" /\ result[r] # 0)

(* Consent under way: a review that can still be confirmed, an attempt     *)
(* that is still tried, an admission whose outcome may be unknown.         *)
Undecided(s, r) ==
    \/ attempt[s][r].at = "draft" /\ r \notin lapsed
    \/ attempt[s][r].at = "pending"
    \/ attempt[s][r].at = "admitted" /\ ~Answered(s, r) /\ (r \notin lapsed \/ pair[s].state = "empty")

(* Work of the side's own queues.                                          *)
QueuesEmpty(s) == leaving[s] = {} /\ (s = "small" => outbox = {})

ValidHistory(s) ==
    /\ PairFits(s) /\ EventsFit(s) /\ ResultsFit(s) /\ TombstonesFit(s)
    /\ \A r \in Requests : ~Undecided(s, r)
    /\ QueuesEmpty(s)

(* verifyConnectionHistoryAuthority: what each retained result answers is  *)
(* the state that was reviewed.                                            *)
ResultsAnswer(s) ==
    \A r \in Requests : attempt[s][r].at = "active" =>
        LET reviewed == attempt[s][r].snap
        IN /\ attempt[s][r].admission
           /\ IF reviewed.state = "active" THEN attempt[s][r].cid = reviewed.cid
              ELSE attempt[s][r].cid = reviewed.epoch + 1

(* hail_assert_connection_source_drained: what the fence of the source     *)
(* asks for.  An admission nobody answered blocks it for ever.             *)
Drained(s) ==
    /\ QueuesEmpty(s)
    /\ \A r \in Requests :
         /\ ~(attempt[s][r].at = "draft" /\ r \notin lapsed)
         /\ attempt[s][r].at # "pending"
         /\ attempt[s][r].at = "admitted" => Answered(s, r)

-----------------------------------------------------------------------------
(* connectionFrontier: what the plan of the handover says of the pair.     *)
Frontier(s) ==
    IF pair[s] = Empty THEN None
    ELSE [cid |-> pair[s].cid, epoch |-> pair[s].epoch, state |-> pair[s].state, tombstones |-> tomb[s]]

ASSUME FrontierAssumption ==
    None \notin [cid: Epochs, epoch: Epochs, state: {"empty", "active", "disconnected"}, tombstones: SUBSET Epochs]

ValidFrontier(f) ==
    f # None =>
        /\ f.epoch >= 1 /\ f.cid # 0
        /\ \A cid \in f.tombstones : cid <= f.epoch /\ ~(f.state = "active" /\ cid = f.cid)
        /\ f.state = "disconnected" => f.cid \in f.tombstones

(* createConnectionHandoverPlan: there is something to hand over.          *)
Plannable(s) == Frontier(s) # None /\ ValidFrontier(Frontier(s))

(* sameConnectionFrontier: the peer freezes the pair only when its own     *)
(* frontier is the plan's.                                                 *)
SameFrontier == Frontier("small") = Frontier("large")

-----------------------------------------------------------------------------
(* Once a side has drained, its history passes every check of its export   *)
(* and of the destination, and the frontier of its plan is valid; and when *)
(* both sides have, the peer agrees with the plan.  No order of answers,   *)
(* probes, replications and losses leaves behind a history that could      *)
(* never be moved (connection-handover.ts, connection-snapshot.ts).        *)
HistoryMoves ==
    /\ \A s \in Sides : Drained(s) =>
         /\ ValidHistory(s) /\ ResultsAnswer(s)
         /\ pair[s] # Empty => Plannable(s)
    /\ Drained("small") /\ Drained("large") => SameFrontier
=============================================================================
