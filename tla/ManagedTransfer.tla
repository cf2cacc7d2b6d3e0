--------------------------- MODULE ManagedTransfer ---------------------------
(***************************************************************************)
(* The move of an account in managed custody (src/migration/managed-*.ts). *)
(* It runs the exchange of Transfer, with the owner's recovery key where   *)
(* the owner's identity key stood.  Here the provider holds the identity   *)
(* key, so the move also changes the key that signs the account's grants:  *)
(* the source drains its workers and has its active grants acknowledged    *)
(* before it fences, and the destination signs a successor of each.        *)
(*                                                                         *)
(* One grant stands for the account's authoritative grants; its grantee's  *)
(* provider verifies a revision under the identity key that PLC names.     *)
(***************************************************************************)
EXTENDS Transfer

CONSTANTS MaxRevisions      \* bound on the revisions of the grant

ASSUME RevisionAssumption == MaxRevisions \in Nat

VARIABLES
    grant,      \* per provider: grant_lineages with grant_publications
    signed,     \* the revisions signed, each with the provider that did
    held,       \* the revision the grantee's provider holds
    lease,      \* the revision leased by a worker (serving_worker_leases), or 0
    carried,    \* the grant and serving generation in an export
    lapsed      \* transfers whose owner approval is past its lifetime

grantVars == <<grant, signed, held, lease>>
managedVars == <<grantVars, carried, lapsed>>
allVars == <<vars, managedVars>>

NoGrant == [rev |-> 0, acked |-> 0, status |-> "active", blocked |-> FALSE]

ManagedInit ==
    /\ Init
    /\ grant = [p \in Providers |-> IF p = First THEN [NoGrant EXCEPT !.rev = 1] ELSE NoGrant]
    /\ signed = {<<1, First>>} /\ held = 0
    /\ lease = [p \in Providers |-> 0]
    /\ carried = [t \in Transfers |-> None] /\ lapsed = {}

-----------------------------------------------------------------------------
(* The grant while the account is served.                                  *)

(* createOrReuse and revoke sign the next revision with the identity key   *)
(* the provider holds, and queue it.                                       *)
Revise(p, status) ==
    /\ Writable(p) /\ home = p
    /\ grant[p].status = "active" /\ grant[p].rev < MaxRevisions
    /\ grant' = [grant EXCEPT ![p].rev = @ + 1, ![p].status = status]
    /\ signed' = signed \cup {<<grant[p].rev + 1, p>>}
    /\ UNCHANGED <<vars, held, lease, carried, lapsed>>

(* claimDuePublication: in the order of revisions, none past a blocked one.*)
ClaimRevision(p) ==
    /\ Writable(p) /\ lease[p] = 0
    /\ grant[p].acked < grant[p].rev /\ ~grant[p].blocked
    /\ lease' = [lease EXCEPT ![p] = grant[p].acked + 1]
    /\ UNCHANGED <<vars, grant, signed, held, carried, lapsed>>

(* receive: signed by the key PLC names, and what is held or its successor.*)
Receivable(n) == <<n, home>> \in signed /\ n \in {held, held + 1}

(* publishOne: the grantee takes the revision and the answer is recorded,  *)
(* or lost; a refusal ends the publication.                                *)
PublishRevision(p) ==
    /\ Writable(p) /\ lease[p] # 0
    /\ \/ /\ Receivable(lease[p])
          /\ held' = lease[p]
          /\ \/ grant' = [grant EXCEPT ![p].acked = lease[p]]
             \/ UNCHANGED grant
       \/ /\ ~Receivable(lease[p])
          /\ grant' = [grant EXCEPT ![p].blocked = TRUE]
          /\ UNCHANGED held
    /\ lease' = [lease EXCEPT ![p] = 0]
    /\ UNCHANGED <<vars, signed, carried, lapsed>>

-----------------------------------------------------------------------------
(* The handshake, on the owner's recovery key.                             *)

Authorize(p, t) == Issue(p, t) /\ UNCHANGED managedVars

(* validateManagedInvitation: PLC names the source, and the owner's grant  *)
(* and the source's acknowledgement are live.                              *)
Invited(t) == home = From(t) /\ t \notin expired

ReceiveManagedInvitation(t) == ReceiveInvitation(t) /\ Invited(t) /\ UNCHANGED managedVars

Deliver(p) == ConfirmOrigin(p) /\ home = p /\ UNCHANGED managedVars

ReserveManagedAddress(p) == ReserveAddress(p) /\ UNCHANGED managedVars

(* verifyManagedHandshakeChain: every artifact names the one before it,    *)
(* none has expired and PLC still names the source.                        *)
Chained(t) == t \notin expired /\ home = From(t)

(* The whole chain of artifacts must still be live when it is sent.        *)
PublishFence(p) ==
    /\ slot[p] # None /\ Chained(slot[p].t)
    /\ PublishFinal(p)
    /\ UNCHANGED managedVars

(* Every active authoritative grant has an acknowledged predecessor.       *)
Acknowledged(p) == grant[p].status = "active" => grant[p].acked = grant[p].rev

Drained(p) == lease[p] = 0

(* begin, before its locks: the source is the managed provider PLC names.  *)
InCustody(p) == home = p /\ period[p] > 0

BeginManagedFence(t) ==
    /\ BeginFence(t)
    /\ InCustody(From(t)) /\ Drained(From(t)) /\ Acknowledged(From(t))
    /\ UNCHANGED managedVars

-----------------------------------------------------------------------------
(* Snapshot, approval, staging and cutover.                                *)

(* collectManagedTables: the grant's rows and the serving generation.      *)
CollectedManaged(p) == [grant |-> grant[p], period |-> period[p]]

ExportManaged(p) ==
    /\ Export(p) /\ fence[p].t \notin expired
    /\ Drained(p) /\ Acknowledged(p)
    /\ carried' = [carried EXCEPT ![fence[p].t] = CollectedManaged(p)]
    /\ UNCHANGED <<grantVars, lapsed>>

(* sign_managed: the owner approves the snapshot and the operation, once   *)
(* and for a limited time, while the whole chain is still live.            *)
Approve(t) ==
    /\ SignCutover(t) /\ t \notin expired
    /\ UNCHANGED managedVars

ApprovalLapses(t) ==
    /\ t \notin lapsed /\ file[t].stage = "cutover" /\ Fault("approval")
    /\ lapsed' = lapsed \cup {t}
    /\ UNCHANGED <<plcVars, sourceVars, targetVars, peerVars, servingVars, route, expired, wire, file, grantVars, carried>>

(* validateManagedTransferManifest, of the grants: each active one comes   *)
(* with an acknowledged predecessor.                                       *)
GrantsWhole(t) == carried[t].grant.status = "active" => carried[t].grant.acked = carried[t].grant.rev

(* validateManagedTransferManifest, of the messages: as in a portable one. *)
MailWhole(b) == Manifest(b)

(* validateOperation: the approved operation follows the head.             *)
ApprovedFollows(b) == FollowsHead(b)

(* stage: as stageImport, but what a returning account must still hold is  *)
(* not looked at before activation.                                        *)
StageManaged(t) ==
    /\ AsksCompletion(t) /\ home = From(t) /\ t \notin lapsed
    /\ Occupies(To(t), t) /\ slot[To(t)].res = "submitted"
    /\ keys[t] = "prepared" /\ import[t].state = "none"
    /\ GrantsWhole(t)
    /\ \E b \in Consented(t) :
         /\ ApprovedFollows(b)
         /\ import' = [import EXCEPT ![t] = [NoImport EXCEPT !.state = "staged", !.snap = MailWhole(b), !.prev = b[4]]]
    /\ keys' = [keys EXCEPT ![t] = "staged"]
    /\ UNCHANGED <<plcVars, sourceVars, slot, tombs, peerVars, servingVars, route, expired, wire, file, faults, managedVars>>

(* The approval must be live before the write, not after it.               *)
SubmitManaged(t) == Submit(t) /\ t \notin lapsed /\ UNCHANGED managedVars

-----------------------------------------------------------------------------
(* Activation.                                                             *)

(* Mutant: the current revision is signed again under the new key.         *)
ResignedInPlace(g) == g

(* Mutant: the successor inherits its predecessor's acknowledgement.       *)
ResignedAcknowledged(g) == IF g.status = "active" THEN [g EXCEPT !.rev = @ + 1, !.acked = @ + 1] ELSE g

(* importGrants: an active grant gets an unchanged successor under the new *)
(* identity key, which waits to be published.                              *)
Resigned(g) == IF g.status = "active" THEN [g EXCEPT !.rev = @ + 1] ELSE g

(* confirmCurrent: the approved operation is the head of the log.          *)
ConfirmCurrent(t) == head = Cutover(t)

(* activate, with the generation after the source's.                       *)
ActivateManaged(t) ==
    LET p == To(t)
        next == Resigned(carried[t].grant)
    IN /\ Ready(t) /\ ConfirmCurrent(t)
       /\ KeepsHistory(p, import[t].snap) /\ period[p] <= carried[t].period
       /\ period' = [period EXCEPT ![p] = carried[t].period + 1]
       /\ data' = Materialised(t)
       /\ fence' = [fence EXCEPT ![p] = None]
       /\ auth' = [auth EXCEPT ![p] = None]
       /\ import' = [import EXCEPT ![t].state = "active"]
       /\ keys' = [keys EXCEPT ![t] = "active"]
       /\ slot' = [slot EXCEPT ![p].res = "active"]
       /\ era' = era + 1
       /\ grant' = [grant EXCEPT ![p] = next]
       /\ signed' = signed \cup (IF next.status = "active" THEN {<<next.rev, p>>} ELSE {})
       /\ UNCHANGED <<plcVars, aborts, tombs, peerVars, job, accepted, purged, route, expired, wire, file, faults,
                      held, lease, carried, lapsed>>

(* issueReceipt: the import is active, its peers committed.                *)
IssuesReceipt(t) == import[t].state = "active" /\ Phase(t, "committed") /\ ConfirmCurrent(t)

(* complete, after the write: what its exact retry still has to do.        *)
Complete(t) ==
    /\ AsksCompletion(t)
    /\ \/ ActivateManaged(t)
       \/ /\ \/ PeerMoves(t, "frozen", "committed") \/ AcceptTransition(t, "frozen", "committed")
             \/ Assess(t) /\ import' # import
             \/ /\ IssuesReceipt(t)
                /\ \/ PeerMoves(t, "committed", "completed") \/ AcceptTransition(t, "committed", "completed")
                   \/ Retire(t)
          /\ UNCHANGED managedVars

-----------------------------------------------------------------------------
(* What Transfer does in the same way.  Requests that write to the account *)
(* are left to it: here its state is the grant.  A cancellation before the *)
(* fence would have to be signed with the identity key, which the owner of *)
(* a managed account does not hold; the command line has no command for it.*)
Shared ==
    /\ \/ \E t \in Transfers : (\E p \in Providers : SignGrant(p, t)) \/ TakeOffer(t) \/ SignSelection(t)
       \/ \E t \in Transfers : TakeReservation(t) /\ ~Fenced(From(t))
       \/ \E p \in Providers : CleanTarget(p) \/ CleanSource(p)
       \/ \E t \in Transfers : GrantExpires(t)
       \/ \E t \in Transfers : SendFreeze(t) \/ FreezeUnseen(t) \/ AcceptFreeze(t) \/ MarkCancelled(t) \/ Undo(t)
       \/ \E t \in Transfers : PlcApplies(t)
       \/ CleanTombs
    /\ UNCHANGED managedVars

ManagedNext ==
    \/ Shared
    \/ \E p \in Providers : \E status \in {"active", "revoked"} : Revise(p, status)
    \/ \E p \in Providers : ClaimRevision(p) \/ PublishRevision(p)
    \/ \E p \in Providers, t \in Transfers : Authorize(p, t)
    \/ \E p \in Providers : Deliver(p) \/ ReserveManagedAddress(p) \/ PublishFence(p) \/ ExportManaged(p)
    \/ \E t \in Transfers : ReceiveManagedInvitation(t) \/ BeginManagedFence(t) \/ Approve(t) \/ ApprovalLapses(t)
    \/ \E t \in Transfers : StageManaged(t) \/ SubmitManaged(t) \/ Complete(t)

ManagedSpec == ManagedInit /\ [][ManagedNext]_allVars

-----------------------------------------------------------------------------
(* The properties.                                                         *)

(* No revision of a grant is ever signed by two providers, whatever moves, *)
(* aborts and returns came between (managed-activation.ts importGrants,    *)
(* managed-fence.ts).                                                      *)
OneSignerPerRevision == \A s, u \in signed : s[1] = u[1] => s[2] = u[2]

(* What the serving provider has not had acknowledged of an active grant,  *)
(* the grantee will take: its own signatures, following what is held       *)
(* (managed-activation.ts importGrants, managed-snapshot.ts).              *)
SuccessorFits ==
    \A p \in Providers :
        Writable(p) /\ home = p /\ grant[p].status = "active" =>
            /\ ~grant[p].blocked
            /\ grant[p].acked <= held
            /\ \A n \in (grant[p].acked + 1)..grant[p].rev : <<n, p>> \in signed
==============================================================================
