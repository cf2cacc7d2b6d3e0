------------------------------ MODULE Mailbox -------------------------------
(***************************************************************************)
(* What an account keeps of what it writes and receives, and how its       *)
(* message batches go out (src/accounts/drafts.ts, attachments.ts,         *)
(* publications.ts and message-trash.ts, src/bodies, and the two loops of  *)
(* src/index.ts that drive them).                                          *)
(*                                                                         *)
(* One account composes; every message carries one and the same body with  *)
(* one attached file, so that several batches and several received         *)
(* messages share their stored bytes.  The recipient Local keeps its       *)
(* mailbox on the same server, and so in the same tables.  A transaction   *)
(* holds the account's row and is one step; the collectors run beside it.  *)
(* Time enters as the age of what expires: an upload after a day, a        *)
(* trashed item after thirty, a batch at its deadline.  A change of the    *)
(* composing account's custody fences its rows while it is open.           *)
(***************************************************************************)
EXTENDS Naturals, FiniteSets

CONSTANTS Batches,
          Drafted,     \* the batch whose identifier is the draft's
          Recipients,
          Local,       \* the recipient with a mailbox on this server
          Audience,    \* the recipients of each batch
          Earlier,     \* a message with the same body that Local may have from before
          OpenLimit,   \* batches that may be open at once
          MaxStrays,   \* bound on the connections lost under the worker
          None

ASSUME MailboxAssumption ==
    /\ Drafted \in Batches /\ Local \in Recipients
    /\ Audience \in [Batches -> SUBSET Recipients]
    /\ OpenLimit \in Nat \ {0} /\ MaxStrays \in Nat

VARIABLES
    trashing,   \* account_message_preferences.trash_enabled
    upload,     \* the row of attachment_uploads and its age
    blob,       \* the file is in attachment_blobs
    body,       \* the body is in detached_bodies, with its body_attachment_refs
    draft,      \* the row of account_message_drafts
    form,       \* whether the open compose form carries no, the stored or an older revision
    batch,      \* the sealed batches and whether their deadline has passed
    target,     \* what became of each recipient of a batch
    envelope,   \* sent_envelopes, and whether the recipient admitted it
    inbox,      \* delivered_messages of Local
    received,   \* verified_body_provenance of Local, with its received_attachment_refs
    shared,     \* the body is in shared_content_blobs
    worker,     \* the fan-out worker's row and how far it is
    broken,     \* the connection that held the worker's lock has been lost
    strays,     \* targets that were sent to without the lock
    fenced      \* the account has a custody preparation that is not complete

vars == <<trashing, upload, blob, body, draft, form, batch, target, envelope, inbox, received, shared,
          worker, broken, strays, fenced>>
writingVars == <<upload, draft, form>>
lockVars == <<broken, strays, fenced>>
sendingVars == <<batch, target, envelope, worker, lockVars>>
keptVars == <<inbox, received, shared>>

\* subscribers, connectionTargets: the audience of a batch, as it was when it was accepted
Targets == {t \in Batches \X Recipients : t[2] \in Audience[t[1]]}
Messages == {t \in Targets : t[2] = Local} \cup {Earlier}
Kinds == {"category", "connections", "conversation"}
TrashLife == {"none", "kept", "trash", "old"}
NoDraft == [life |-> "none", filed |-> FALSE]
NoBatch == [open |-> FALSE, kind |-> "category", late |-> FALSE]
NoJob == [at |-> "idle", target |-> None, result |-> "none"]

TypeOK ==
    /\ trashing \in BOOLEAN /\ blob \in BOOLEAN /\ body \in BOOLEAN
    /\ upload \in {"none", "fresh", "old"}
    /\ draft \in [life : TrashLife, filed : BOOLEAN]
    /\ form \in {"new", "current", "stale"}
    /\ batch \in [Batches -> [open : BOOLEAN, kind : Kinds, late : BOOLEAN]]
    /\ target \in [Targets -> {"none", "pending", "submitted", "blocked", "cancelled", "expired",
                               "indeterminate"}]
    /\ envelope \in [Targets -> {"none", "made", "admitted"}]
    /\ inbox \in [Messages -> {"none", "kept", "trash", "old", "gone"}]
    /\ received \in BOOLEAN /\ shared \in BOOLEAN
    /\ worker \in [at : {"idle", "send", "submit", "record"}, target : Targets \cup {None},
                   result : {"none", "submitted", "blocked", "retry"}]
    /\ broken \in BOOLEAN /\ strays \subseteq Targets /\ fenced \in BOOLEAN

\* Local may have the body already, from a message of this account's
Init ==
    \E before \in BOOLEAN :
        /\ trashing = TRUE /\ upload = "none" /\ blob = before /\ body = before
        /\ draft = NoDraft /\ form = "new"
        /\ batch = [b \in Batches |-> NoBatch]
        /\ target = [t \in Targets |-> "none"]
        /\ envelope = [t \in Targets |-> "none"]
        /\ inbox = [m \in Messages |-> IF m = Earlier /\ before THEN "kept" ELSE "none"]
        /\ received = before /\ shared = before
        /\ worker = NoJob /\ broken = FALSE /\ strays = {} /\ fenced = FALSE

(***************************************************************************)
(* The custody fence (Custody models the transition itself).               *)
(***************************************************************************)
\* hail_assert_unfenced_account, in the triggers of every table the account writes to
Writable == ~fenced

Pending(b) == \E t \in Targets : t[1] = b /\ target[t] = "pending"
OpenBatches == {b \in Batches : Pending(b)}

Fence(on) ==
    /\ fenced' = on
    /\ UNCHANGED <<trashing, writingVars, blob, body, batch, target, envelope, keptVars, worker,
                   broken, strays>>

\* hail_assert_connection_source_drained: messages to connections must be through, but
\* nothing is asked of the publications to categories
PrepareCustody ==
    /\ ~fenced /\ \A b \in OpenBatches : batch[b].kind = "category"
    /\ Fence(TRUE)

\* hail_finish_publications_before_cutover: the generation advances when none is pending
CompleteCustody ==
    /\ fenced /\ OpenBatches = {}
    /\ Fence(FALSE)

(***************************************************************************)
(* Files.                                                                  *)
(***************************************************************************)
\* storeAttachment: the bytes, once, whoever has them
StoreAttachment == blob' = TRUE

\* upload: the bytes and the account's claim on them, renewed when repeated
Upload ==
    /\ Writable
    /\ StoreAttachment /\ upload' = "fresh"
    /\ UNCHANGED <<trashing, body, draft, form, sendingVars, keptVars>>

UploadAges ==
    /\ upload = "fresh" /\ upload' = "old"
    /\ UNCHANGED <<trashing, blob, body, draft, form, sendingVars, keptVars>>

\* retainBodyAttachments: the file is the account's own, or this body already holds it
Retainable == blob /\ (upload # "none" \/ body)

(***************************************************************************)
(* Drafts.                                                                 *)
(***************************************************************************)
\* account_sent_items knows the draft's identifier
DraftSent == batch[Drafted].open

\* Every change of the draft gives it another revision
Outdated == form' = IF form = "current" THEN "stale" ELSE form

\* save: refused once sent, in the trash, or at another revision
Stored == draft' = [life |-> "kept", filed |-> upload # "none"]

\* The open form saves; the answer may be lost, and then the form is behind
Save ==
    /\ ~DraftSent /\ Writable
    /\ \/ form = "new" /\ draft.life = "none"
       \/ form = "current" /\ draft.life = "kept"
    /\ Stored
    /\ form' = "current" \/ Outdated
    /\ UNCHANGED <<trashing, upload, blob, body, sendingVars, keptVars>>

\* Another device reads the current draft and saves over it
SaveElsewhere ==
    /\ ~DraftSent /\ draft.life = "kept" /\ Writable
    /\ Stored /\ Outdated
    /\ UNCHANGED <<trashing, upload, blob, body, sendingVars, keptVars>>

\* read: the form is opened on the stored draft
OpenDraft ==
    /\ draft.life = "kept" /\ ~DraftSent
    /\ form' = "current"
    /\ UNCHANGED <<trashing, upload, blob, body, draft, sendingVars, keptVars>>

DeleteDraft ==
    /\ ~DraftSent /\ draft.life = "kept" /\ Writable
    /\ draft' = IF trashing THEN [draft EXCEPT !.life = "trash"] ELSE NoDraft
    /\ Outdated
    /\ UNCHANGED <<trashing, upload, blob, body, sendingVars, keptVars>>

RestoreDraft ==
    /\ ~DraftSent /\ draft.life = "trash" /\ Writable
    /\ draft' = [draft EXCEPT !.life = "kept"]
    /\ UNCHANGED <<trashing, upload, blob, body, form, sendingVars, keptVars>>

(***************************************************************************)
(* Accepting a batch: one transaction freezes its body, its audience and   *)
(* its files, and consumes the draft it came from.                         *)
(***************************************************************************)
\* consumeDraft, with the revision the form sends (none for a form never saved)
Consumable(b) ==
    b = Drafted => \/ draft.life = "none" /\ form = "new"
                   \/ draft.life = "kept" /\ form = "current"

FreezeText == UNCHANGED body

\* publishAttachmentBody: the accepted body holds its files from now on
Freeze == body' = TRUE

Accept(b, kind) ==
    /\ ~batch[b].open /\ Writable
    /\ Retainable /\ Freeze
    /\ Consumable(b)
    /\ Cardinality(OpenBatches) < OpenLimit
    /\ batch' = [batch EXCEPT ![b] = [NoBatch EXCEPT !.open = TRUE, !.kind = kind]]
    /\ target' = [t \in Targets |-> IF t[1] = b THEN "pending" ELSE target[t]]
    /\ draft' = IF b = Drafted THEN NoDraft ELSE draft
    /\ form' = IF b = Drafted THEN "new" ELSE form
    /\ UNCHANGED <<trashing, upload, blob, envelope, keptVars, worker, lockVars>>

\* create: to the subscribers of a category
CreateCategory(b) == Accept(b, "category")

\* createConnections: private copies to chosen connections
CreateConnections(b) == Accept(b, "connections")

\* createSharedBatch: one conversation, which its creation opens
CreateSharedBatch(b) == Cardinality(Audience[b]) >= 2 /\ Accept(b, "conversation")

\* replyConversation: a reply to all, in a conversation that is open; it names no draft
ReplyConversation(b) ==
    Cardinality(Audience[b]) >= 2 /\ draft.life = "none" /\ Accept(b, "conversation")

\* publish: the compose form goes to one of them
Publish(b) == CreateCategory(b) \/ CreateConnections(b) \/ CreateSharedBatch(b) \/ ReplyConversation(b)

\* expires_at passes
BatchAges(b) ==
    /\ batch[b].open /\ ~batch[b].late /\ b \in OpenBatches
    /\ batch' = [batch EXCEPT ![b].late = TRUE]
    /\ UNCHANGED <<trashing, writingVars, blob, body, target, envelope, keptVars, worker, lockVars>>

(***************************************************************************)
(* The fan-out: one worker, one target at a time, under a lock that lives  *)
(* on a database connection of its own.                                    *)
(***************************************************************************)
LockFree == worker.at = "idle" \/ broken

\* workOne takes a row past its deadline first.  If its account is fenced the write raises,
\* and the row keeps its place.
Overdue == {b \in OpenBatches : batch[b].late}

Pick(t) ==
    /\ worker.at = "idle" /\ target[t] = "pending" /\ Overdue = {}
    /\ worker' = [at |-> "send", target |-> t, result |-> "none"] /\ broken' = FALSE
    /\ UNCHANGED <<strays, fenced, trashing, writingVars, blob, body, batch, target, envelope, keptVars>>

PastDeadlineWaits(t) == IF envelope[t] # "none" THEN "pending" ELSE "expired"

\* The batch is past its deadline: what has an envelope may have arrived
PastDeadline(t) == IF envelope[t] # "none" THEN "indeterminate" ELSE "expired"

Expire(b) ==
    /\ worker.at = "idle" /\ Writable /\ b \in Overdue
    /\ target' = [t \in Targets |-> IF t[1] = b /\ target[t] = "pending" THEN PastDeadline(t) ELSE target[t]]
    /\ UNCHANGED <<trashing, writingVars, blob, body, batch, envelope, keptVars, worker, lockVars>>

Result(result) == worker' = [worker EXCEPT !.at = "record", !.result = result]

\* publish: the body and what it names are stored, if an earlier call has not done it
PublishBody == Retainable /\ Writable /\ body' = TRUE

\* createSigned: the envelope is persisted before anything is sent
CreateSigned(t) == envelope' = [envelope EXCEPT ![t] = "made"]

\* create, createReply and createConnection: the permission is gone
Refused == Result("blocked")

\* send: only what has no envelope from an earlier attempt is composed; a failure, the
\* fence's too, is tried again
Compose ==
    /\ worker.at = "send"
    /\ LET t == worker.target IN
       \/ /\ IF envelope[t] = "none" THEN PublishBody /\ CreateSigned(t) ELSE UNCHANGED <<body, envelope>>
          /\ worker' = [worker EXCEPT !.at = "submit"]
       \/ /\ envelope[t] = "none"
          /\ Refused \/ (Retainable /\ Result("retry"))
          /\ UNCHANGED <<envelope, body>>
    /\ UNCHANGED <<trashing, writingVars, blob, batch, target, keptVars, lockVars>>

\* submit: the recipient admits it or not, and the answer may be lost; the permission is
\* looked at again first, and may be gone.  In a conversation only an authenticated status
\* counts as submitted
Submitted(t) == batch[t[1]].kind = "conversation" => envelope'[t] = "admitted"

Submit ==
    /\ worker.at = "submit"
    /\ \/ \E admitted \in {envelope[worker.target], "admitted"} :
            /\ envelope' = [envelope EXCEPT ![worker.target] = admitted]
            /\ (Submitted(worker.target) /\ Result("submitted")) \/ Result("retry")
       \/ Result("blocked") /\ UNCHANGED envelope
    /\ UNCHANGED <<trashing, writingVars, blob, body, batch, target, keptVars, lockVars>>

\* The outcome is written only over a target that is still pending, and not under the fence
Recordable(t) == target[t] = "pending" /\ Writable

Record ==
    /\ worker.at = "record"
    /\ target' = IF worker.result # "retry" /\ Recordable(worker.target)
                 THEN [target EXCEPT ![worker.target] = worker.result] ELSE target
    /\ worker' = NoJob /\ broken' = FALSE
    /\ UNCHANGED <<strays, fenced, trashing, writingVars, blob, body, batch, envelope, keptVars>>

\* The process stops; the lock goes with its connection
Crash ==
    /\ worker.at # "idle"
    /\ worker' = NoJob /\ broken' = FALSE
    /\ UNCHANGED <<strays, fenced, trashing, writingVars, blob, body, batch, target, envelope, keptVars>>

\* Only the connection with the lock is lost: the worker goes on without it
LoseLock ==
    /\ worker.at # "idle" /\ ~broken /\ Cardinality(strays) < MaxStrays
    /\ broken' = TRUE /\ strays' = strays \cup {worker.target}
    /\ UNCHANGED <<fenced, trashing, writingVars, blob, body, batch, target, envelope, keptVars, worker>>

CancellableBlindly(t) == target[t] = "pending"

\* cancel: under the same lock, or "in progress"; what has an envelope goes on.  (Closing
\* the account cancels its targets too; nobody can ask for their status afterwards.)
Cancellable(t) == target[t] = "pending" /\ envelope[t] = "none"

Cancel(b) ==
    /\ LockFree /\ Writable
    /\ \E t \in Targets : t[1] = b /\ Cancellable(t)
    /\ target' = [t \in Targets |-> IF t[1] = b /\ Cancellable(t) THEN "cancelled" ELSE target[t]]
    /\ UNCHANGED <<trashing, writingVars, blob, body, batch, envelope, keptVars, worker, lockVars>>

(***************************************************************************)
(* Receiving: the delivery worker fetches body and file from the sender    *)
(* and stores them with the message.                                       *)
(***************************************************************************)
\* retrieve and retrieveAttachment
Fetchable == body /\ blob

Deliver(m) ==
    /\ m \in Targets /\ envelope[m] = "admitted" /\ inbox[m] = "none" /\ Fetchable
    /\ received' = TRUE /\ shared' = TRUE /\ StoreAttachment
    /\ inbox' = [inbox EXCEPT ![m] = "kept"]
    /\ UNCHANGED <<trashing, writingVars, body, sendingVars>>

(***************************************************************************)
(* The trash.                                                              *)
(***************************************************************************)
Carried(m) == inbox[m] \in {"kept", "trash", "old"}

\* read and download: the message's body and its file are found
Readable == received /\ shared /\ blob

Gone(doomed) == [m \in Messages |-> IF m \in doomed THEN "gone" ELSE inbox[m]]
Trashed == {m \in Messages : inbox[m] \in {"trash", "old"}}

CleanBodiesOutright ==
    received' = (received /\ inbox' = inbox)

\* cleanBodies: the body goes with the last message that has it
CleanBodies ==
    received' = (received /\ \E m \in Messages : Carried(m)')

\* remove: into the trash, or at once
Remove(m, permanent) ==
    /\ Carried(m)
    /\ IF permanent \/ ~trashing
         THEN inbox' = Gone({m}) /\ CleanBodies
         ELSE inbox[m] = "kept" /\ inbox' = [inbox EXCEPT ![m] = "trash"] /\ UNCHANGED received
    /\ UNCHANGED <<trashing, writingVars, blob, body, sendingVars, shared>>

Restore(m) ==
    /\ inbox[m] = "trash"
    /\ inbox' = [inbox EXCEPT ![m] = "kept"]
    /\ UNCHANGED <<trashing, writingVars, blob, body, sendingVars, received, shared>>

\* Local's messages, and the draft of the composing account unless it is fenced
NoTrash ==
    /\ inbox' = Gone(Trashed) /\ CleanBodies
    /\ draft' = IF draft.life \in {"trash", "old"} /\ Writable THEN NoDraft ELSE draft

\* saveSettings: turning the trash off empties it
SaveSettings ==
    /\ trashing' = ~trashing
    /\ IF trashing THEN NoTrash ELSE UNCHANGED <<inbox, received, draft>>
    /\ UNCHANGED <<upload, form, blob, body, sendingVars, shared>>

Empty ==
    /\ NoTrash /\ (inbox' # inbox \/ draft' # draft)
    /\ UNCHANGED <<trashing, upload, form, blob, body, sendingVars, shared>>

\* Thirty days in the trash: the item waits for the purge
TrashAges ==
    /\ \/ /\ draft.life = "trash" /\ draft' = [draft EXCEPT !.life = "old"] /\ UNCHANGED inbox
       \/ \E m \in Messages : /\ inbox[m] = "trash" /\ inbox' = [inbox EXCEPT ![m] = "old"]
                              /\ UNCHANGED draft
    /\ UNCHANGED <<trashing, upload, form, blob, body, sendingVars, received, shared>>

(***************************************************************************)
(* The collectors of purgeExpired.                                         *)
(***************************************************************************)
\* An upload is kept for a day, and as long as a draft names its file
Forgotten == upload = "old" /\ ~(draft'.life # "none" /\ draft'.filed)

\* Account by account; the composing account's turn raises if it is fenced
Purge ==
    /\ inbox' = Gone({m \in Messages : inbox[m] = "old"}) /\ CleanBodies
    /\ draft' = IF draft.life = "old" /\ Writable THEN NoDraft ELSE draft
    /\ upload' = IF Forgotten /\ Writable THEN "none" ELSE upload
    /\ inbox' # inbox \/ draft' # draft \/ upload' # upload
    /\ UNCHANGED <<trashing, form, blob, body, sendingVars, shared>>

\* What is collected provider-wide comes after the last account's turn
PurgeStops ==
    ~Writable /\ (draft.life = "old" \/ (upload = "old" /\ (draft.life = "none" \/ ~draft.filed)))

\* hail_collect_received_blobs
CollectShared ==
    /\ shared /\ ~received /\ ~PurgeStops
    /\ shared' = FALSE
    /\ UNCHANGED <<trashing, writingVars, blob, body, sendingVars, inbox, received>>

\* a file no upload, no body and no received message refers to
Unreferenced == upload = "none" /\ ~body /\ ~received

CollectBlob ==
    /\ blob /\ Unreferenced /\ ~PurgeStops
    /\ blob' = FALSE
    /\ UNCHANGED <<trashing, writingVars, body, sendingVars, keptVars>>

Next ==
    \/ PrepareCustody \/ CompleteCustody
    \/ Upload \/ UploadAges
    \/ Save \/ SaveElsewhere \/ OpenDraft \/ DeleteDraft \/ RestoreDraft
    \/ \E b \in Batches : Publish(b) \/ BatchAges(b) \/ Expire(b) \/ Cancel(b)
    \/ \E t \in Targets : Pick(t)
    \/ Compose \/ Submit \/ Record \/ Crash \/ LoseLock
    \/ \E m \in Messages : Deliver(m) \/ Restore(m) \/ \E permanent \in BOOLEAN : Remove(m, permanent)
    \/ SaveSettings \/ Empty \/ TrashAges
    \/ Purge \/ CollectShared \/ CollectBlob

Spec == Init /\ [][Next]_vars

(***************************************************************************)
(* The interval loop of the fan-out takes the row that is due first, and   *)
(* deadlines pass.  The queue is the server's: this assumes that no other  *)
(* account is fenced with a publication past its deadline, whose row would *)
(* raise and keep its place before all the others.  Nothing is assumed of  *)
(* the owner, of recipients or of the collectors.                          *)
(***************************************************************************)
Fairness ==
    /\ WF_vars(Compose) /\ WF_vars(Submit) /\ WF_vars(Record)
    /\ \A b \in Batches : WF_vars(BatchAges(b)) /\ WF_vars(Expire(b))

LiveSpec == Spec /\ Fairness

(***************************************************************************)
(* What the export of the account is checked for, by the source and again  *)
(* by the destination.                                                     *)
(***************************************************************************)
\* validateTransferManifest: a message that was sent or is kept has its body
BodiesFit ==
    /\ (\E t \in Targets : envelope[t] # "none") => body
    /\ (\E m \in Messages : Carried(m)) => received /\ shared

\* validateAttachmentHistory: a claim on a file and a body that names one have the file
AttachmentsFit == upload # "none" \/ body \/ (received /\ shared) => blob

\* validateSnapshotConnections: what was submitted has its envelope
TargetsFit == \A t \in Targets : target[t] = "submitted" => envelope[t] # "none"

(***************************************************************************)
(* Properties.                                                             *)
(***************************************************************************)
\* Every stored message, in the trash or not, can be read with its file, whichever other
\* messages with the same body were deleted and whatever the collectors (message-trash.ts
\* cleanBodies and purgeExpired) removed in between.
ReadableStays == \A m \in Messages : Carried(m) => Readable

\* What was accepted stays sendable and retrievable: the file of a draft that was saved with
\* it survives the purge of old uploads, and the body of an accepted batch holds its file
\* until the last recipient has fetched it (publications.ts createConnections, attachments.ts
\* retainBodyAttachments, message-trash.ts purgeExpired).
AcceptedStaysSendable ==
    /\ draft.life # "none" /\ draft.filed => upload # "none" /\ blob
    /\ \A t \in Targets : /\ target[t] = "pending" => Retainable
                          /\ envelope[t] # "none" => Fetchable

\* The mailbox is whole: every stored message can be read, and at any time that no batch is
\* open the account can be moved to another provider.  However bodies and files were shared,
\* trashed, purged and collected, the manifest of the export (migration/transfer.ts
\* validateTransferManifest, attachment-history.ts) is complete.
MailboxIsWhole ==
    /\ ReadableStays
    /\ OpenBatches = {} => BodiesFit /\ AttachmentsFit /\ TargetsFit

\* What the batch's status reports of a recipient is true: cancelled or expired was sent
\* nothing, unless the worker lost the connection that held its lock while it was sending,
\* and submitted to a conversation was admitted (publications.ts cancel and workOne,
\* messaging.ts sendConversation).
OutcomeIsTruthful ==
    \A t \in Targets :
        /\ target[t] \in {"cancelled", "expired"} /\ envelope[t] # "none" => t \in strays
        /\ target[t] = "submitted" /\ batch[t[1]].kind = "conversation" => envelope[t] = "admitted"

\* Every recipient of an accepted batch ends in a reported outcome, through crashes, lost
\* answers and cancellation (publications.ts workOne, the fan-out loop of index.ts), unless
\* the account's custody starts to change while a publication to a category is pending.
\* Then neither the sweep nor the record nor a cancellation may write its targets, and the
\* transition cannot complete over them.
FanoutEnds ==
    \A t \in Targets :
        target[t] = "pending" ~> \/ target[t] \notin {"none", "pending"}
                                 \/ fenced /\ batch[t[1]].kind = "category"
=============================================================================
