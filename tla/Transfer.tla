------------------------------ MODULE Transfer ------------------------------
(***************************************************************************)
(* The move of one account between providers (src/migration): the owner's  *)
(* grant and its invitation, the destination's offer and address, the      *)
(* fence, the export, the staged import, the PLC cutover, activation and   *)
(* retirement, cancellation before the fence and abort after it, and the   *)
(* return to a provider that served the account before.                    *)
(*                                                                         *)
(* Providers act on their own rows and on what the PLC directory says when *)
(* they read it.  Everything they send stays on the wire and may be taken  *)
(* any number of times, late, or never.  The owner's command line          *)
(* (apps/cli) keeps one state file for each move: it signs every intent    *)
(* once, saves it before it sends it, and from then on repeats it as it    *)
(* stands.  A grant, its nonce and the transfer ID prepared for it are one *)
(* number; one peer provider stands for those that hold the account's      *)
(* connections.                                                            *)
(***************************************************************************)
EXTENDS Naturals, FiniteSets

CONSTANTS Providers,
          First,         \* the provider that serves the account at the start
          Transfers,     \* the grants the owner may sign, in order
          Mail,          \* what the account may take in
          Faults,        \* what may happen: "own", "late", "lapse", "purge"
          MaxFaults,     \* bound on the owner's other PLC operations and deletions, delayed PLC writes and lapsed assessments
          None

ASSUME ProviderAssumption == First \in Providers /\ None \notin Providers
ASSUME TransferAssumption == Transfers \subseteq Nat /\ MaxFaults \in Nat
(* Nothing stored is mistaken for its absence.                             *)
ASSUME NoneAssumption ==
    /\ None \notin [t : Transfers, state : {"fenced", "exported", "retired"}, snap : SUBSET Mail]
    /\ None # <<"genesis", 0>>
    /\ \A n \in 0..MaxFaults : None # <<"own", n>>
    /\ \A t \in Transfers : None # <<"cutover", t>>

VARIABLES
    home,       \* the provider the PLC document names
    head,       \* the PLC operation at the head of the log
    period,     \* account_serving_generations; 0 where there is no account
    data,       \* what the provider's account holds
    auth,       \* provider_transfer_authorizations
    fence,      \* provider_migration_fences with the export
    slot,       \* received_transfer_invitations with the address reservation
    route,      \* source and destination of a granted transfer
    keys,       \* prepared_migration_target_keys.state
    import,     \* pending_migration_imports with the cutover observation
    hold,       \* the peer's connection_handover_barriers.state
    journal,    \* connection_import_handovers.state
    tombs,      \* cancelled_transfer_sessions
    aborts,     \* connection_transfer_aborts
    hasPeer,    \* the account has connections to hand over
    expired,    \* grants past their lifetime
    wire,       \* what has been sent
    file,       \* the owner's state file of each transfer
    delayed,    \* PLC writes with no answer
    job,        \* work admitted for the account, with its generation
    accepted,   \* everything the account ever took in
    purged,     \* what of it the owner deleted for good
    era,        \* how often the account has been activated
    faults

plcVars == <<home, head, delayed>>
sourceVars == <<auth, fence, aborts>>
targetVars == <<slot, keys, import, tombs>>
peerVars == <<hold, journal, hasPeer>>
servingVars == <<period, data, job, accepted, purged, era>>
vars == <<plcVars, sourceVars, targetVars, peerVars, servingVars, route, expired, wire, file, faults>>

NoImport == [state |-> "none", cancelled |-> FALSE, snap |-> {}, prev |-> None,
             eligible |-> FALSE, bound |-> FALSE]
Cutover(t) == <<"cutover", t>>
From(t) == route[t].from
To(t) == route[t].to
Send(kind, t) == wire' = wire \cup {<<kind, t>>}
Sent(kind, t) == <<kind, t>> \in wire
Fault(kind) == kind \in Faults /\ faults < MaxFaults /\ faults' = faults + 1

Fenced(p) == fence[p] # None
Retired(p) == fence[p] # None /\ fence[p].state = "retired"
Holds(p, t, state) == fence[p] # None /\ fence[p].t = t /\ fence[p].state = state
Occupies(p, t) == slot[p] # None /\ slot[p].t = t

(* hail_assert_unfenced_account lets a write through.                      *)
Writable(p) == period[p] > 0 /\ ~Fenced(p)

Init ==
    /\ home = First /\ head = <<"genesis", 0>> /\ delayed = {}
    /\ period = [p \in Providers |-> IF p = First THEN 1 ELSE 0]
    /\ data = [p \in Providers |-> {}]
    /\ auth = [p \in Providers |-> None]
    /\ fence = [p \in Providers |-> None]
    /\ slot = [p \in Providers |-> None]
    /\ route = [t \in Transfers |-> None]
    /\ keys = [t \in Transfers |-> "none"]
    /\ import = [t \in Transfers |-> NoImport]
    /\ hold = [t \in Transfers |-> "none"]
    /\ journal = [t \in Transfers |-> "none"]
    /\ tombs = {} /\ aborts = {} /\ expired = {} /\ wire = {}
    /\ hasPeer \in BOOLEAN
    /\ file = [t \in Transfers |-> [stage |-> "none", cancel |-> FALSE]]
    /\ job = [p \in Providers |-> None]
    /\ accepted = {} /\ purged = {} /\ era = 0 /\ faults = 0

-----------------------------------------------------------------------------
(* Serving the account.                                                    *)

(* A request or worker reads the serving generation when it is admitted,   *)
(* and its transaction checks it again.                                    *)
AdmitJob(p) ==
    /\ period[p] > 0 /\ job[p] = None
    /\ job' = [job EXCEPT ![p] = [period |-> period[p], era |-> era]]
    /\ UNCHANGED <<plcVars, sourceVars, targetVars, peerVars, period, data, accepted, purged, era, route, expired, wire, file, faults>>

(* Mutant: the fence is not looked at.                                     *)
PermitsFenced(p) == period[p] > 0 /\ job[p].period = period[p]

Permits(p) == Writable(p) /\ job[p].period = period[p]

RunJob(p) ==
    /\ job[p] # None
    /\ \/ /\ Permits(p)
          /\ \E m \in Mail \ accepted :
               /\ data' = [data EXCEPT ![p] = @ \cup {m}]
               /\ accepted' = accepted \cup {m}
       \/ ~Permits(p) /\ UNCHANGED <<data, accepted>>
    /\ job' = [job EXCEPT ![p] = None]
    /\ UNCHANGED <<plcVars, sourceVars, targetVars, peerVars, period, purged, era, route, expired, wire, file, faults>>

(* MessageTrash.remove with permanent: the delivered message and its body  *)
(* are deleted where the account is served.                                *)
Purge(p) ==
    /\ Writable(p) /\ Fault("purge")
    /\ \E m \in data[p] :
         /\ data' = [data EXCEPT ![p] = @ \ {m}]
         /\ purged' = purged \cup {m}
    /\ UNCHANGED <<plcVars, sourceVars, targetVars, peerVars, period, job, accepted, era, route, expired, wire, file>>

-----------------------------------------------------------------------------
(* The owner's command line.  A command that fails is run again with the   *)
(* same file; nothing in the file is ever signed again.                    *)

Saves(t, from, to) ==
    /\ file[t].stage = from /\ ~file[t].cancel
    /\ file' = [file EXCEPT ![t].stage = to]

(* offer: the grant names the provider and the destination.                *)
SignGrant(p, t) ==
    /\ route[t] = None /\ \A u \in Transfers : u < t => route[u] # None
    /\ Writable(p)
    /\ \E q \in Providers \ {p} : route' = [route EXCEPT ![t] = [from |-> p, to |-> q]]
    /\ Saves(t, "none", "grant")
    /\ UNCHANGED <<plcVars, sourceVars, targetVars, peerVars, servingVars, expired, wire, faults>>

(* status and review_offer: the source has confirmed the offer.            *)
OfferReady(t) ==
    /\ route[t] # None /\ t \notin expired
    /\ LET row == auth[From(t)]
       IN row # None /\ row.t = t /\ row.confirmed /\ ~row.cancelled

TakeOffer(t) ==
    /\ OfferReady(t) /\ ~Fenced(From(t))
    /\ Saves(t, "grant", "offer")
    /\ UNCHANGED <<plcVars, sourceVars, targetVars, peerVars, servingVars, route, expired, wire, faults>>

SignSelection(t) ==
    /\ OfferReady(t) /\ ~Fenced(From(t))
    /\ Saves(t, "offer", "selection")
    /\ UNCHANGED <<plcVars, sourceVars, targetVars, peerVars, servingVars, route, expired, wire, faults>>

(* target: what the destination answers to the selection.                  *)
Answered(t) == Occupies(To(t), t) /\ slot[To(t)].res # "none"

(* select, on that answer; a fence in between does no harm.                *)
TakeReservation(t) ==
    /\ OfferReady(t) /\ Answered(t)
    /\ Saves(t, "selection", "reservation")
    /\ UNCHANGED <<plcVars, sourceVars, targetVars, peerVars, servingVars, route, expired, wire, faults>>

(* cancel: once the cancellation is in the file, no command but cancel     *)
(* takes the file, whether or not the source accepts it.                   *)
SignCancellation(t) ==
    /\ file[t].stage # "none" /\ ~file[t].cancel
    /\ Writable(From(t))
    /\ file' = [file EXCEPT ![t].cancel = TRUE]
    /\ UNCHANGED <<plcVars, sourceVars, targetVars, peerVars, servingVars, route, expired, wire, faults>>

(* retained: the whole chain is in the file.                               *)
Retained(t) == file[t].stage \in {"reservation", "cutover"} /\ ~file[t].cancel

(* export and complete, as the owner's command line asks for them.         *)
AsksExport(p) == Fenced(p) /\ fence[p].state \in {"fenced", "exported"} /\ Retained(fence[p].t)
AsksCompletion(t) == Retained(t) /\ file[t].stage = "cutover"

-----------------------------------------------------------------------------
(* The handshake.                                                          *)

(* TransferHandshake.issue: the grant is kept in the account's one slot,   *)
(* which a grant leaves when it expired without an offer or was cancelled. *)
Replaceable(p) ==
    auth[p] # None =>
        /\ ~auth[p].consumed
        /\ auth[p].cancelled \/ (auth[p].t \in expired /\ ~auth[p].confirmed)

(* Only the first sending of a grant counts: a repeat is answered with the *)
(* stored invitation, and one that finds its row gone makes an invitation  *)
(* with another challenge, which nothing the owner kept fits.              *)
Issue(p, t) ==
    /\ route[t] # None /\ From(t) = p
    /\ file[t].stage = "grant" /\ ~file[t].cancel
    /\ ~Sent("invite", t) /\ t \notin expired
    /\ home = p /\ period[p] > 0
    /\ Replaceable(p)
    /\ auth' = [auth EXCEPT ![p] = [t |-> t, confirmed |-> FALSE, consumed |-> FALSE, cancelled |-> FALSE]]
    /\ Send("invite", t)
    /\ UNCHANGED <<plcVars, fence, aborts, targetVars, peerVars, servingVars, route, expired, file, faults>>

GrantExpires(t) ==
    /\ route[t] # None /\ t \notin expired
    /\ expired' = expired \cup {t}
    /\ UNCHANGED <<plcVars, sourceVars, targetVars, peerVars, servingVars, route, wire, file, faults>>

(* clearRetiredImportSlots: what a finished import left behind goes once   *)
(* the account it brought has moved on and been retired here.              *)
Recyclable(p) == slot[p] # None /\ Retired(p) /\ import[slot[p].t].state = "active"

(* TransferInvitationReceiver.receive with PreparedMigrationTarget.prepare *)
(* and createOffer; an exact retry is answered with the stored offer.      *)
ReceiveInvitation(t) ==
    LET p == To(t)
    IN /\ Sent("invite", t) /\ t \notin expired /\ home = From(t)
       /\ t \notin tombs
       /\ \/ /\ Occupies(p, t)
             /\ UNCHANGED <<slot, keys, import>>
          \/ /\ slot[p] = None \/ Recyclable(p)
             /\ period[p] = 0 \/ Retired(p)
             /\ slot' = [slot EXCEPT ![p] = [t |-> t, res |-> "none", final |-> FALSE]]
             /\ keys' = [u \in Transfers |-> IF u = t THEN "prepared"
                                             ELSE IF Occupies(p, u) THEN "none" ELSE keys[u]]
             /\ import' = [u \in Transfers |-> IF Occupies(p, u) THEN NoImport ELSE import[u]]
       /\ Send("offer", t)
       /\ UNCHANGED <<plcVars, sourceVars, tombs, peerVars, servingVars, route, expired, file, faults>>

(* TransferDeliveryWorker.runOnce: the invitations it still sends.  The    *)
(* final requests it sends again are on the wire for good.                 *)
InvitationDue(p) ==
    /\ auth[p] # None /\ auth[p].t \notin expired
    /\ ~auth[p].confirmed /\ ~auth[p].consumed /\ ~auth[p].cancelled

(* TransferInvitationDelivery.deliver takes the answer: the row is checked *)
(* again in the transaction that keeps the offer.                          *)
ConfirmOrigin(p) ==
    /\ InvitationDue(p)
    /\ Sent("offer", auth[p].t)
    /\ auth' = [auth EXCEPT ![p].confirmed = TRUE]
    /\ UNCHANGED <<plcVars, fence, aborts, targetVars, peerVars, servingVars, route, expired, wire, file, faults>>

(* assertOwnership, before the destination signs anything with the keys    *)
(* it prepared for the transfer.                                           *)
OwnsKeys(t) == keys[t] \in {"prepared", "staged"}

(* TransferAddressSelection.reserve, on the owner's signed selection.      *)
ReserveAddress(p) ==
    /\ slot[p] # None /\ slot[p].res = "none" /\ OwnsKeys(slot[p].t)
    /\ slot[p].t \notin expired /\ home = From(slot[p].t)
    /\ file[slot[p].t].stage = "selection" /\ ~file[slot[p].t].cancel
    /\ slot' = [slot EXCEPT ![p].res = "selected"]
    /\ UNCHANGED <<plcVars, sourceVars, keys, import, tombs, peerVars, servingVars, route, expired, wire, file, faults>>

(* FinalRequestPublisher.publish: the request is stored before it is sent, *)
(* and from then on an expiry no longer frees the address.                 *)
PublishFinal(p) ==
    /\ slot[p] # None /\ slot[p].res = "selected"
    /\ OwnsKeys(slot[p].t) /\ slot[p].t \notin expired
    /\ slot' = [slot EXCEPT ![p].res = "submitted", ![p].final = TRUE]
    /\ Send("final", slot[p].t)
    /\ UNCHANGED <<plcVars, sourceVars, keys, import, tombs, peerVars, servingVars, route, expired, file, faults>>

(* MigrationFenceService.begin: one live, confirmed, unconsumed grant.     *)
BeginFence(t) ==
    LET p == From(t)
    IN /\ Sent("final", t) /\ home = p /\ Writable(p)
       /\ auth[p] # None /\ auth[p].t = t
       /\ auth[p].confirmed /\ ~auth[p].consumed /\ ~auth[p].cancelled /\ t \notin expired
       /\ fence' = [fence EXCEPT ![p] = [t |-> t, state |-> "fenced", snap |-> {}]]
       /\ auth' = [auth EXCEPT ![p].consumed = TRUE]
       /\ UNCHANGED <<plcVars, aborts, targetVars, peerVars, servingVars, route, expired, wire, file, faults>>

(* TransferCancellationService.cancel, before the fence.                   *)
Cancel(p) ==
    /\ home = p /\ period[p] > 0
    /\ auth[p] # None /\ file[auth[p].t].cancel /\ ~auth[p].cancelled
    /\ ~auth[p].consumed /\ ~Fenced(p)
    /\ auth' = [auth EXCEPT ![p].cancelled = TRUE]
    /\ Send("cancel", auth[p].t)
    /\ UNCHANGED <<plcVars, fence, aborts, targetVars, peerVars, servingVars, route, expired, file, faults>>

Vacated(p, t) == IF Occupies(p, t) THEN [slot EXCEPT ![p] = None] ELSE slot

(* TransferCancellationReceiver.receive: only what is still reversible is  *)
(* undone, and never where the provider has a row for the account.         *)
ReceiveCancellation(t) ==
    LET p == To(t)
    IN /\ Sent("cancel", t) /\ home = From(t) /\ t \notin tombs
       /\ slot[p] # None => Occupies(p, t) /\ keys[t] = "prepared" /\ period[p] = 0
       /\ slot' = Vacated(p, t)
       /\ keys' = [keys EXCEPT ![t] = "none"]
       /\ tombs' = tombs \cup {t}
       /\ UNCHANGED <<plcVars, sourceVars, import, peerVars, servingVars, route, expired, wire, file, faults>>

(* TransferCleanup.runOnce, the destination's, the source's and the old    *)
(* tombstones.                                                             *)
CleanTarget(p) ==
    /\ slot[p] # None
    /\ LET t == slot[p].t
       IN /\ t \in expired /\ ~slot[p].final
          /\ keys[t] = "prepared" /\ slot[p].res \in {"none", "selected"}
          /\ slot' = [slot EXCEPT ![p] = None]
          /\ keys' = [keys EXCEPT ![t] = "none"]
    /\ UNCHANGED <<plcVars, sourceVars, import, tombs, peerVars, servingVars, route, expired, wire, file, faults>>

CleanSource(p) ==
    /\ auth[p] # None /\ auth[p].t \in expired
    /\ ~auth[p].consumed /\ ~auth[p].confirmed /\ ~auth[p].cancelled
    /\ auth' = [auth EXCEPT ![p] = None]
    /\ UNCHANGED <<plcVars, fence, aborts, targetVars, peerVars, servingVars, route, expired, wire, file, faults>>

CleanTombs ==
    /\ tombs \cap expired # {}
    /\ tombs' = tombs \ expired
    /\ UNCHANGED <<plcVars, sourceVars, slot, keys, import, peerVars, servingVars, route, expired, wire, file, faults>>

-----------------------------------------------------------------------------
(* Export and import.                                                      *)

(* collect: every table of the account, as it stands under the fence.      *)
Collected(p) == data[p]

(* MigrationTransferService.exportFenced: the snapshot is taken once.      *)
Export(p) ==
    /\ home = p /\ AsksExport(p) /\ fence[p].state = "fenced"
    /\ fence' = [fence EXCEPT ![p].state = "exported", ![p].snap = Collected(p)]
    /\ UNCHANGED <<plcVars, auth, aborts, targetVars, peerVars, servingVars, route, expired, wire, file, faults>>

(* plc_operation_evidence: the operation that brought the account here, as *)
(* far as the provider knows.                                              *)
Evidence(p) ==
    IF slot[p] # None /\ import[slot[p].t].state = "active" THEN Cutover(slot[p].t) ELSE <<"genesis", 0>>

(* sign: the operation follows the evidence in the snapshot, not the head; *)
(* operation, consent and binding are signed once.                         *)
SignCutover(t) ==
    /\ route[t] # None /\ Holds(From(t), t, "exported")
    /\ Saves(t, "reservation", "cutover")
    /\ wire' = wire \cup {<<"bundle", t, fence[From(t)].snap, Evidence(From(t))>>}
    /\ UNCHANGED <<plcVars, sourceVars, targetVars, peerVars, servingVars, route, expired, faults>>

(* validateReturningEvidence: a provider that served the account takes it  *)
(* back only with everything it handed over.                               *)
KeepsHistory(p, snap) == period[p] = 0 \/ (Retired(p) /\ fence[p].snap \subseteq snap)

(* verifyPortableMigrationConsent: the snapshot and the operation are the  *)
(* ones the owner signed for.                                              *)
Consented(t) == {w \in wire : w[1] = "bundle" /\ w[2] = t}

(* validateCutoverOperation: the bundle's operation follows the head.      *)
FollowsHead(b) == b[4] = head

(* The manifest the bundle carries.  That an honest export passes the      *)
(* checks of validateTransferManifest is not a matter of this module:      *)
(* Mailbox and ConnectionHistory state them of the rows they model.        *)
Manifest(b) == b[3]

(* stageImport: PLC still names the source and the operation follows its   *)
(* head; the address is submitted, the keys are still the prepared ones.   *)
StageImport(t) ==
    /\ AsksCompletion(t) /\ home = From(t)
    /\ Occupies(To(t), t) /\ slot[To(t)].res = "submitted"
    /\ keys[t] = "prepared" /\ import[t].state = "none"
    /\ \E b \in Consented(t) :
         /\ FollowsHead(b)
         /\ KeepsHistory(To(t), Manifest(b))
         /\ import' = [import EXCEPT ![t] = [NoImport EXCEPT !.state = "staged", !.snap = Manifest(b), !.prev = b[4]]]
    /\ keys' = [keys EXCEPT ![t] = "staged"]
    /\ UNCHANGED <<plcVars, sourceVars, slot, tombs, peerVars, servingVars, route, expired, wire, file, faults>>

-----------------------------------------------------------------------------
(* The peer's barrier: frozen, then committed and completed, or released.  *)

Staged(t) == import[t].state = "staged"
Rank(state) == CASE state = "frozen" -> 1 [] state = "committed" -> 2 [] state = "completed" -> 3 [] OTHER -> 0

(* requireConnectionImportPhase.                                           *)
Phase(t, state) == hasPeer => Rank(journal[t]) >= Rank(state)

(* imported: only an import that goes on sends its peers anything.         *)
Resumable(t) == import[t].state \in {"staged", "active"} /\ ~import[t].cancelled

(* sourceFreeze: the source signs for its exact export, while PLC names it.*)
SourceFreezes(t) == Holds(From(t), t, "exported") /\ home = From(t)

(* freeze: the command is persisted, then the source signs it.             *)
SendFreeze(t) ==
    /\ hasPeer /\ Resumable(t) /\ journal[t] = "none"
    /\ SourceFreezes(t)
    /\ Send("freeze", t)
    /\ UNCHANGED <<plcVars, sourceVars, targetVars, peerVars, servingVars, route, expired, file, faults>>

(* prepareHandover at the peer: one held handover per pair.                *)
Freezable(t) ==
    /\ home = From(t)
    /\ \A u \in Transfers : hold[u] \notin {"frozen", "committed"}

(* The peer takes the freeze and its answer is lost.                       *)
FreezeUnseen(t) ==
    /\ Sent("freeze", t) /\ hold[t] = "none" /\ Freezable(t)
    /\ hold' = [hold EXCEPT ![t] = "frozen"]
    /\ UNCHANGED <<plcVars, sourceVars, targetVars, journal, hasPeer, servingVars, route, expired, wire, file, faults>>

(* acceptFreeze: the exchange runs under the import row's lock.            *)
AcceptFreeze(t) ==
    /\ Sent("freeze", t) /\ Staged(t) /\ journal[t] = "none" /\ home = From(t)
    /\ hold[t] = "frozen" \/ (hold[t] = "none" /\ Freezable(t))
    /\ hold' = [hold EXCEPT ![t] = "frozen"]
    /\ journal' = [journal EXCEPT ![t] = "frozen"]
    /\ UNCHANGED <<plcVars, sourceVars, targetVars, hasPeer, servingVars, route, expired, wire, file, faults>>

(* transition: the peers still behind are told, and the completion has the *)
(* activation's receipt with it.                                           *)
Commands(t, from, to) ==
    /\ Resumable(t) /\ journal[t] = from
    /\ to = "completed" => import[t].state = "active"

(* transitionHandover at the peer, then acceptTransition: what the peer    *)
(* already did is never asked again, so a late command changes nothing.    *)
PeerMoves(t, from, to) ==
    /\ Commands(t, from, to)
    /\ hold[t] = from /\ home = To(t)
    /\ hold' = [hold EXCEPT ![t] = to]
    /\ UNCHANGED <<plcVars, sourceVars, targetVars, journal, hasPeer, servingVars, route, expired, wire, file, faults>>

AcceptTransition(t, from, to) ==
    /\ journal[t] = from /\ Rank(hold[t]) >= Rank(to) /\ home = To(t)
    /\ import[t].state \in (IF to = "completed" THEN {"active"} ELSE {"staged", "active"})
    /\ journal' = [journal EXCEPT ![t] = to]
    /\ UNCHANGED <<plcVars, sourceVars, targetVars, hold, hasPeer, servingVars, route, expired, wire, file, faults>>

-----------------------------------------------------------------------------
(* Cutover and activation.                                                 *)

(* Mutant: the sticky cancellation is not looked at.                       *)
SubmittableAnyway(t) == Staged(t) /\ Phase(t, "frozen") /\ import[t].prev = head

(* PortablePlcSubmission.submit under the import row's lock.  The write    *)
(* may be left without an answer, and the directory take it later.         *)
Submittable(t) ==
    /\ Staged(t) /\ ~import[t].cancelled /\ Phase(t, "frozen")
    /\ import[t].prev = head

Submit(t) ==
    /\ Submittable(t)
    /\ \/ home' = To(t) /\ head' = Cutover(t) /\ UNCHANGED <<delayed, faults>>
       \/ Fault("late") /\ delayed' = delayed \cup {t} /\ UNCHANGED <<home, head>>
    /\ UNCHANGED <<sourceVars, targetVars, peerVars, servingVars, route, expired, wire, file>>

(* External: the directory applies a write that still follows its head.    *)
PlcApplies(t) ==
    /\ t \in delayed /\ import[t].prev = head
    /\ home' = To(t) /\ head' = Cutover(t)
    /\ UNCHANGED <<delayed, sourceVars, targetVars, peerVars, servingVars, route, expired, wire, file, faults>>

(* External: the owner changes another part of the PLC document.           *)
OwnOperation ==
    /\ Fault("own")
    /\ head' = <<"own", faults>>
    /\ UNCHANGED <<home, delayed, sourceVars, targetVars, peerVars, servingVars, route, expired, wire, file>>

(* PortableAddressPublication.publish binds the reserved address.          *)
Bound(t) == import[t].bound \/ slot[To(t)].res = "submitted"

(* The cutover gate's assess: exactly the staged operation is the head.    *)
Assess(t) ==
    /\ Staged(t) /\ Phase(t, "committed") /\ ~import[t].cancelled
    /\ head = Cutover(t)
    /\ import' = [import EXCEPT ![t].eligible = TRUE, ![t].bound = Bound(t)]
    /\ UNCHANGED <<plcVars, sourceVars, slot, keys, tombs, peerVars, servingVars, route, expired, wire, file, faults>>

(* An observation holds for thirty seconds.                                *)
AssessmentLapses(t) ==
    /\ import[t].eligible /\ Staged(t) /\ Fault("lapse")
    /\ import' = [import EXCEPT ![t].eligible = FALSE]
    /\ UNCHANGED <<plcVars, sourceVars, slot, keys, tombs, peerVars, servingVars, route, expired, wire, file>>

(* Mutant: a returning account keeps its serving generation.               *)
NextPeriodSame(p) == IF period[p] = 0 THEN 1 ELSE period[p]

(* replaceRetiredProjection: the retired generation plus one.              *)
NextPeriod(p) == period[p] + 1

(* Mutant: the address is expected in the state before its submission.     *)
ReadyReserved(t) ==
    /\ Staged(t) /\ import[t].eligible /\ import[t].bound
    /\ Phase(t, "committed") /\ keys[t] = "staged"
    /\ Occupies(To(t), t) /\ slot[To(t)].res = "selected"

(* What activate checks, and checks again in its transaction: a current    *)
(* assessment, the prepared keys and the reserved address.                 *)
Ready(t) ==
    /\ Staged(t) /\ import[t].eligible /\ import[t].bound
    /\ Phase(t, "committed") /\ keys[t] = "staged"
    /\ Occupies(To(t), t) /\ slot[To(t)].res = "submitted"

(* importGrants and importEnvelopes: the snapshot becomes the account's    *)
(* rows, leases and retries reset.                                         *)
Materialised(t) == [data EXCEPT ![To(t)] = import[t].snap]

(* activate: one transaction replaces the retired projection, if there is  *)
(* one, materialises the snapshot and makes import, keys and address live. *)
Activate(t) ==
    LET p == To(t)
    IN /\ Ready(t) /\ ~import[t].cancelled /\ home = p
       /\ KeepsHistory(p, import[t].snap)
       /\ period' = [period EXCEPT ![p] = NextPeriod(p)]
       /\ data' = Materialised(t)
       /\ fence' = [fence EXCEPT ![p] = None]
       /\ auth' = [auth EXCEPT ![p] = None]
       /\ import' = [import EXCEPT ![t].state = "active"]
       /\ keys' = [keys EXCEPT ![t] = "active"]
       /\ slot' = [slot EXCEPT ![p].res = "active"]
       /\ era' = era + 1
       /\ UNCHANGED <<plcVars, aborts, tombs, peerVars, job, accepted, purged, route, expired, wire, file, faults>>

(* issueReceipt: the destination serves the account, and every peer knows. *)
Receipt(t) == import[t].state = "active" /\ home = To(t) /\ Phase(t, "completed")

(* Mutant: retirement removes the fence.                                   *)
RetireReleases(t) ==
    /\ Receipt(t)
    /\ Holds(From(t), t, "exported")
    /\ fence' = [fence EXCEPT ![From(t)] = None]
    /\ UNCHANGED <<plcVars, auth, aborts, targetVars, peerVars, servingVars, route, expired, wire, file, faults>>

(* finish, then MigrationFenceService.retire at the source, on the         *)
(* destination's receipt.                                                  *)
Retire(t) ==
    LET p == From(t)
    IN /\ Receipt(t)
       /\ Holds(p, t, "exported")
       /\ fence' = [fence EXCEPT ![p].state = "retired"]
       /\ UNCHANGED <<plcVars, auth, aborts, targetVars, peerVars, servingVars, route, expired, wire, file, faults>>

-----------------------------------------------------------------------------
(* Abort after the fence, on the owner's cancellation.                     *)

(* The sticky marker is set first, under the import row's lock.            *)
MarkCancelled(t) ==
    /\ Staged(t) /\ ~import[t].cancelled /\ home = From(t)
    /\ import' = [import EXCEPT ![t].cancelled = TRUE]
    /\ UNCHANGED <<plcVars, sourceVars, slot, keys, tombs, peerVars, servingVars, route, expired, wire, file, faults>>

Releasable(t) == hold[t] \in {"none", "frozen"}

(* sourceAbort and abortHandover: a plan the peer never saw is recorded as *)
(* released, so that a late freeze finds it so.                            *)
PeerReleases(t) ==
    /\ hasPeer /\ Staged(t) /\ import[t].cancelled
    /\ SourceFreezes(t) /\ Releasable(t)
    /\ hold' = [hold EXCEPT ![t] = "released"]
    /\ UNCHANGED <<plcVars, sourceVars, targetVars, journal, hasPeer, servingVars, route, expired, wire, file, faults>>

AcceptAbort(t) ==
    /\ hold[t] = "released" /\ journal[t] \in {"none", "frozen"}
    /\ Staged(t) /\ import[t].cancelled /\ home = From(t)
    /\ journal' = [journal EXCEPT ![t] = "released"]
    /\ UNCHANGED <<plcVars, sourceVars, targetVars, hold, hasPeer, servingVars, route, expired, wire, file, faults>>

Invalidate(t) ==
    /\ Staged(t) /\ import[t].cancelled
    /\ hasPeer => journal[t] = "released"
    /\ import' = [import EXCEPT ![t].state = "invalidated"]
    /\ UNCHANGED <<plcVars, sourceVars, slot, keys, tombs, peerVars, servingVars, route, expired, wire, file, faults>>

(* sourceRelease: the fence, its export and its grant are archived and     *)
(* removed while PLC still names the source.                               *)
SourceRelease(t) ==
    LET p == From(t)
    IN /\ import[t].state = "invalidated" /\ t \notin aborts
       /\ Holds(p, t, "exported") /\ home = p
       /\ fence' = [fence EXCEPT ![p] = None]
       /\ auth' = [auth EXCEPT ![p] = None]
       /\ aborts' = aborts \cup {t}
       /\ UNCHANGED <<plcVars, targetVars, peerVars, servingVars, route, expired, wire, file, faults>>

FreeSlots(t) ==
    /\ import[t].state = "invalidated" /\ t \in aborts /\ keys[t] = "staged"
    /\ slot' = Vacated(To(t), t)
    /\ tombs' = tombs \cup {t}
    /\ keys' = [keys EXCEPT ![t] = "invalidated"]
    /\ UNCHANGED <<plcVars, sourceVars, import, peerVars, servingVars, route, expired, wire, file, faults>>

-----------------------------------------------------------------------------
Serve == \E p \in Providers : AdmitJob(p) \/ RunJob(p) \/ Purge(p)

Client == \E t \in Transfers : (\E p \in Providers : SignGrant(p, t)) \/ TakeOffer(t) \/ SignSelection(t) \/ TakeReservation(t)
                                 \/ SignCancellation(t)

Handshake ==
    \/ \E p \in Providers : ConfirmOrigin(p) \/ ReserveAddress(p) \/ PublishFinal(p) \/ Cancel(p)
    \/ \E p \in Providers, t \in Transfers : Issue(p, t)
    \/ \E t \in Transfers : GrantExpires(t) \/ ReceiveInvitation(t) \/ BeginFence(t) \/ ReceiveCancellation(t)
    \/ \E p \in Providers : CleanTarget(p) \/ CleanSource(p)
    \/ CleanTombs

Move ==
    \/ \E p \in Providers : Export(p)
    \/ \E t \in Transfers : SignCutover(t) \/ StageImport(t) \/ SendFreeze(t) \/ FreezeUnseen(t) \/ AcceptFreeze(t)
    \/ \E t \in Transfers : Submit(t) \/ PlcApplies(t) \/ AssessmentLapses(t)

(* completion: what the exact retry of the completion request does once    *)
(* the PLC names the destination.                                          *)
Finish(t) ==
  /\ AsksCompletion(t)
  /\ \/ PeerMoves(t, "frozen", "committed") \/ AcceptTransition(t, "frozen", "committed")
     \/ Assess(t) /\ import' # import
     \/ Activate(t)
     \/ PeerMoves(t, "committed", "completed") \/ AcceptTransition(t, "committed", "completed")
     \/ Retire(t)

(* abort, once its marker is set.                                          *)
Undo(t) == route[t] # None /\ (PeerReleases(t) \/ AcceptAbort(t) \/ Invalidate(t) \/ SourceRelease(t) \/ FreeSlots(t))

Next ==
    \/ Serve \/ Client \/ Handshake \/ Move \/ OwnOperation
    \/ \E t \in Transfers : MarkCancelled(t) \/ Finish(t) \/ Undo(t)

Spec == Init /\ [][Next]_vars

-----------------------------------------------------------------------------
(* The properties.                                                         *)

(* At no moment do two providers let writes to the account through: the    *)
(* fence, the cutover, activation, abort and return are decided by         *)
(* different parties from different readings of the PLC (fence.ts,         *)
(* activation.ts, return.ts).                                              *)
SingleServer == \A p, q \in Providers : Writable(p) /\ Writable(q) => p = q

(* Whatever provider serves the account holds exactly what it ever took in *)
(* and the owner did not delete: a late final request, a repeated export,  *)
(* an abort or a return loses nothing and revives nothing (transfer.ts,    *)
(* fence.ts, activation.ts, return.ts).                                    *)
NothingLost == \A p \in Providers : Writable(p) => data[p] = accepted \ purged

(* Work admitted before the account left never writes once it came back    *)
(* (migration 0037_generation_admission.sql).                              *)
StaleJobNeverWrites ==
    [][\A p \in Providers :
         accepted' # accepted /\ data'[p] # data[p] /\ job[p] # None => job[p].era = era]_vars

(* A cancellation accepted while a PLC write has no answer: the write may  *)
(* still take effect (connection-orchestration.ts 184-198 asks the PLC     *)
(* once; poc-plc-submission.ts gives no bound for a write under way).      *)
Overtaken(t) == import[t].cancelled /\ t \in delayed

(* The owner's accepted cancellation is final: the PLC never names a       *)
(* destination whose import was cancelled, and the peers of a cancelled    *)
(* move stay with the source, unless a PLC write was still under way       *)
(* (connection-orchestration.ts, cutover.rs).                              *)
CancellationIsFinal ==
    \A t \in Transfers :
        import[t].cancelled /\ ~Overtaken(t)
          => head # Cutover(t) /\ hold[t] \notin {"committed", "completed"}

(* Once the PLC names the destination, or the owner has cancelled, the     *)
(* move ends: the destination serves and the source is retired, or the     *)
(* source serves again (transfers.rs and cutover.rs repeat what they       *)
(* saved; activation.ts, fence.ts retire).  There are two exceptions: a    *)
(* cancellation that a PLC write under way overtakes, and an operation of  *)
(* the owner from elsewhere on top of the cutover, after which the PLC     *)
(* names the destination by another operation than the approved one and    *)
(* the completion is refused (activation.ts).                              *)
Settles ==
    \A t \in Transfers :
        (Staged(t) /\ (head = Cutover(t) \/ import[t].cancelled)) ~>
            /\ route[t] # None
            /\ \/ import[t].state = "active" /\ Holds(From(t), t, "retired")
               \/ t \in aborts /\ keys[t] = "invalidated"
               \/ home = To(t) /\ head # Cutover(t)
               \/ Overtaken(t)
=============================================================================
