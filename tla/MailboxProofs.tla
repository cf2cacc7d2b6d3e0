---------------------------- MODULE MailboxProofs ----------------------------
(***************************************************************************)
(* Proofs about Mailbox for every number of batches, recipients and lost   *)
(* connections, and every audience.                                        *)
(***************************************************************************)
EXTENDS Mailbox, TLAPS

\* What refers to stored bytes has them: a claim, an accepted body and a received
\* one hold the file, a signed envelope and a pending target their body, a stored
\* message what it was received with, and a draft the upload it names.
StoredInv ==
    /\ upload # "none" \/ body \/ received => blob
    /\ received => shared
    /\ \A m \in Messages : Carried(m) => received
    /\ \A t \in Targets : envelope[t] # "none" \/ target[t] = "pending" => body
    /\ draft.life # "none" /\ draft.filed => upload # "none"

\* The worker's row: it works for an accepted batch, it has an envelope once it
\* composed one, what it will record is true, and a target that was settled under
\* its hands was settled without its lock.
WorkInv ==
    /\ \A t \in Targets : target[t] # "none" => batch[t[1]].open
    /\ worker.at # "idle" =>
         /\ worker.target \in Targets
         /\ batch[worker.target[1]].open
         /\ broken => worker.target \in strays
         /\ target[worker.target] \in {"cancelled", "expired"} => worker.target \in strays
    /\ worker.at = "submit" => envelope[worker.target] # "none"
    /\ worker.at = "record" /\ worker.result = "submitted" =>
         /\ envelope[worker.target] # "none"
         /\ batch[worker.target[1]].kind = "conversation" => envelope[worker.target] = "admitted"
    /\ worker.at = "record" => worker.result # "none"

IndInv ==
    /\ TypeOK
    /\ StoredInv
    /\ WorkInv
    /\ TargetsFit
    /\ OutcomeIsTruthful

-----------------------------------------------------------------------------

\* A target is a recipient of its batch.
LEMMA TargetFact == \A t \in Targets : t[1] \in Batches
BY DEF Targets

BatchRows == [open : BOOLEAN, kind : Kinds, late : BOOLEAN]
DraftRows == [life : TrashLife, filed : BOOLEAN]
JobRows == [at : {"idle", "send", "submit", "record"}, target : Targets \cup {None},
            result : {"none", "submitted", "blocked", "retry"}]

\* The rows stay rows when one field of them changes.
LEMMA RowFacts ==
    /\ NoDraft \in DraftRows /\ NoBatch \in BatchRows /\ NoJob \in JobRows
    /\ \A x \in Kinds : [NoBatch EXCEPT !.open = TRUE, !.kind = x] \in BatchRows
    /\ \A r \in BatchRows : [r EXCEPT !.late = TRUE] \in BatchRows
    /\ \A r \in DraftRows, l \in TrashLife : [r EXCEPT !.life = l] \in DraftRows
    /\ \A r \in JobRows, x \in {"submitted", "blocked", "retry"} :
          [r EXCEPT !.at = "record", !.result = x] \in JobRows
    /\ \A r \in JobRows : [r EXCEPT !.at = "submit"] \in JobRows
<1> USE DEF NoDraft, NoBatch, NoJob, TrashLife, Kinds
<1>1. NoDraft \in DraftRows /\ NoBatch \in BatchRows BY DEF DraftRows, BatchRows
<1>2. NoJob \in JobRows BY DEF JobRows
<1>3. \A x \in Kinds : [NoBatch EXCEPT !.open = TRUE, !.kind = x] \in BatchRows BY DEF BatchRows
<1>4. \A r \in BatchRows : [r EXCEPT !.late = TRUE] \in BatchRows BY DEF BatchRows
<1>6. \A r \in DraftRows, l \in TrashLife : [r EXCEPT !.life = l] \in DraftRows BY DEF DraftRows
<1>7. \A r \in JobRows, x \in {"submitted", "blocked", "retry"} :
          [r EXCEPT !.at = "record", !.result = x] \in JobRows
  BY DEF JobRows
<1>8. \A r \in JobRows : [r EXCEPT !.at = "submit"] \in JobRows BY DEF JobRows
<1> QED BY <1>1, <1>2, <1>3, <1>4, <1>6, <1>7, <1>8

\* Every step keeps the types.
LEMMA TypeStep ==
    ASSUME TypeOK, WorkInv, [Next]_vars
    PROVE  TypeOK'
<1> DEFINE Typed ==
      /\ trashing \in BOOLEAN /\ blob \in BOOLEAN /\ body \in BOOLEAN
      /\ upload \in {"none", "fresh", "old"}
      /\ draft \in DraftRows
      /\ form \in {"new", "current", "stale"}
      /\ batch \in [Batches -> BatchRows]
      /\ target \in [Targets -> {"none", "pending", "submitted", "blocked", "cancelled", "expired",
                                 "indeterminate"}]
      /\ envelope \in [Targets -> {"none", "made", "admitted"}]
      /\ inbox \in [Messages -> {"none", "kept", "trash", "old", "gone"}]
      /\ received \in BOOLEAN /\ shared \in BOOLEAN
      /\ worker \in JobRows
      /\ broken \in BOOLEAN /\ strays \subseteq Targets /\ fenced \in BOOLEAN
<1>0. TypeOK <=> Typed BY DEF TypeOK, DraftRows, BatchRows, JobRows
<1>a. Typed' => TypeOK' BY DEF TypeOK, DraftRows, BatchRows, JobRows
<1>b. /\ NoDraft \in DraftRows /\ NoBatch \in BatchRows /\ NoJob \in JobRows
      /\ "kept" \in TrashLife /\ "trash" \in TrashLife /\ "old" \in TrashLife
  BY RowFacts DEF TrashLife
<1>c. worker.at # "idle" => worker.target \in Targets BY DEF WorkInv
<1>d. \A t \in Targets : t[1] \in Batches BY TargetFact
<1>e. Typed BY <1>0
<1> SUFFICES Typed' BY <1>a
<1> USE DEF writingVars, lockVars, sendingVars, keptVars
<1>1. CASE Upload \/ UploadAges BY ZenonT(60), <1>1, <1>e DEF Upload, StoreAttachment, UploadAges
<1>2. CASE Save \/ SaveElsewhere
  <2>1. [life |-> "kept", filed |-> upload # "none"] \in DraftRows BY DEF DraftRows, TrashLife
  <2> QED BY <1>2, <1>e, <2>1 DEF Save, SaveElsewhere, Stored, Outdated
<1>4. CASE OpenDraft \/ DeleteDraft \/ RestoreDraft
  <2>0. /\ draft \in DraftRows
        /\ [draft EXCEPT !.life = "trash"] \in DraftRows
        /\ [draft EXCEPT !.life = "kept"] \in DraftRows
    BY <1>b, <1>e, RowFacts
  <2>1. \/ draft' = draft \/ draft' = NoDraft
        \/ draft' = [draft EXCEPT !.life = "trash"] \/ draft' = [draft EXCEPT !.life = "kept"]
    BY <1>4 DEF OpenDraft, DeleteDraft, RestoreDraft
  <2>2. draft' \in DraftRows BY <1>b, <2>0, <2>1
  <2> QED BY <1>4, <1>e, <2>2 DEF OpenDraft, DeleteDraft, RestoreDraft, Outdated
<1>5. ASSUME NEW b \in Batches, NEW kind \in Kinds, Accept(b, kind) PROVE Typed'
  <2> DEFINE row == [NoBatch EXCEPT !.open = TRUE, !.kind = kind]
  <2>1. row \in BatchRows BY RowFacts
  <2>2. batch' = [batch EXCEPT ![b] = row] BY <1>5 DEF Accept
  <2> HIDE DEF row
  <2>3. batch' \in [Batches -> BatchRows] BY <1>e, <2>1, <2>2
  <2>4. draft' \in DraftRows BY <1>5, <1>b, <1>e DEF Accept
  <2> QED BY SMTT(40), <1>5, <1>e, <2>3, <2>4 DEF Accept, Freeze
<1>7. ASSUME NEW b \in Batches, BatchAges(b) PROVE Typed'
  <2> DEFINE row == [batch[b] EXCEPT !.late = TRUE]
  <2>1. row \in BatchRows BY <1>e, RowFacts
  <2>2. batch' = [batch EXCEPT ![b] = row] BY <1>7 DEF BatchAges
  <2> HIDE DEF row
  <2>3. batch' \in [Batches -> BatchRows] BY <1>e, <2>1, <2>2
  <2> QED BY <1>7, <1>e, <2>3 DEF BatchAges
<1>8. ASSUME NEW b \in Batches, Expire(b) PROVE Typed' BY <1>8, <1>e DEF Expire, PastDeadline
<1>9. ASSUME NEW b \in Batches, Cancel(b) PROVE Typed' BY <1>9, <1>e DEF Cancel
<1>10. ASSUME NEW t \in Targets, Pick(t) PROVE Typed'
  <2>1. [at |-> "send", target |-> t, result |-> "none"] \in JobRows BY DEF JobRows
  <2> QED BY <1>10, <1>e, <2>1 DEF Pick
<1>11. CASE Compose
  <2>1. worker' \in JobRows BY ZenonT(60), <1>11, <1>e, RowFacts DEF Compose, PublishBody, CreateSigned, Refused, Result
  <2>2. envelope' \in [Targets -> {"none", "made", "admitted"}] BY <1>11, <1>e DEF Compose, PublishBody, CreateSigned, Refused
  <2> QED BY ZenonT(60), <1>11, <1>e, <2>1, <2>2 DEF Compose, PublishBody, CreateSigned, Refused
<1>12. CASE Submit
  <2>1. worker' \in JobRows BY <1>12, <1>e, RowFacts DEF Submit, Result
  <2>2. envelope' \in [Targets -> {"none", "made", "admitted"}] BY <1>12, <1>c, <1>e DEF Submit
  <2> QED BY <1>12, <1>e, <2>1, <2>2 DEF Submit
<1>13. CASE Record
  <2>1. worker.result \in {"none", "submitted", "blocked", "retry"} BY <1>e DEF JobRows
  <2>2. worker.result # "none"
    BY <1>13 DEF Record, WorkInv
  <2> QED BY ZenonT(60), <1>13, <1>b, <1>c, <1>e, <2>1, <2>2 DEF Record
<1>14. CASE Crash BY <1>14, <1>b, <1>e DEF Crash
<1>15. CASE LoseLock BY <1>15, <1>c, <1>e DEF LoseLock
<1>16. ASSUME NEW m \in Messages, Deliver(m) PROVE Typed' BY <1>16, <1>e DEF Deliver, StoreAttachment
<1>17. ASSUME NEW m \in Messages, Restore(m) PROVE Typed' BY <1>17, <1>e DEF Restore
<1>18. ASSUME NEW doomed, inbox' = Gone(doomed), CleanBodies
       PROVE  /\ inbox' \in [Messages -> {"none", "kept", "trash", "old", "gone"}]
              /\ received' \in BOOLEAN
  BY <1>18, <1>e DEF Gone, CleanBodies
<1>19. ASSUME NEW m \in Messages, NEW permanent \in BOOLEAN, Remove(m, permanent) PROVE Typed'
  <2>1. /\ inbox' \in [Messages -> {"none", "kept", "trash", "old", "gone"}]
        /\ received' \in BOOLEAN
    <3>1. CASE permanent \/ ~trashing BY <1>18, <1>19, <3>1 DEF Remove
    <3>2. CASE ~(permanent \/ ~trashing) BY <1>19, <1>e, <3>2 DEF Remove
    <3> QED BY <3>1, <3>2
  <2> QED BY <1>19, <1>e, <2>1 DEF Remove
<1>20. ASSUME NoTrash
       PROVE  /\ inbox' \in [Messages -> {"none", "kept", "trash", "old", "gone"}]
              /\ received' \in BOOLEAN /\ draft' \in DraftRows
  <2>1. draft' \in DraftRows BY SMTT(40), <1>20, <1>b, <1>e DEF NoTrash
  <2> QED BY <1>18, <1>20, <2>1 DEF NoTrash
<1>21. CASE SaveSettings \/ Empty BY ZenonT(60), <1>20, <1>21, <1>e DEF SaveSettings, Empty
<1>22. CASE TrashAges
  <2>0. [draft EXCEPT !.life = "old"] \in DraftRows BY <1>b, <1>e, RowFacts
  <2>1. draft' \in DraftRows BY <1>22, <1>e, <2>0 DEF TrashAges
  <2>2. inbox' \in [Messages -> {"none", "kept", "trash", "old", "gone"}] BY <1>22, <1>e DEF TrashAges
  <2> QED BY <1>22, <1>e, <2>1, <2>2 DEF TrashAges
<1>23. CASE Purge
  <2>1. draft' \in DraftRows BY <1>23, <1>b, <1>e DEF Purge
  <2>2. upload' \in {"none", "fresh", "old"} BY <1>23, <1>e DEF Purge
  <2> QED BY <1>18, <1>23, <1>e, <2>1, <2>2 DEF Purge
<1>24. CASE CollectShared \/ CollectBlob BY <1>24, <1>e DEF CollectShared, CollectBlob
<1>25. CASE UNCHANGED vars BY <1>25, <1>e DEF vars
<1>26. ASSUME NEW b \in Batches, Publish(b) PROVE Typed'
  BY <1>5, <1>26 DEF Publish, CreateCategory, CreateConnections, CreateSharedBatch,
    ReplyConversation, Kinds
<1>27. CASE PrepareCustody \/ CompleteCustody BY <1>27, <1>e DEF PrepareCustody, CompleteCustody, Fence
<1> HIDE DEF Typed
<1> QED BY <1>27, <1>1, <1>2, <1>4, <1>7, <1>8, <1>9, <1>10, <1>11, <1>12, <1>13, <1>14, <1>15, <1>16, <1>17,
           <1>19, <1>21, <1>22, <1>23, <1>24, <1>25, <1>26 DEF Next

\* Every step keeps what is stored whole.
LEMMA StoredStep ==
    ASSUME TypeOK, StoredInv, WorkInv, [Next]_vars
    PROVE  StoredInv'
<1> USE DEF writingVars, lockVars, sendingVars, keptVars, Carried
<1>a. /\ trashing \in BOOLEAN /\ blob \in BOOLEAN /\ body \in BOOLEAN
      /\ received \in BOOLEAN /\ shared \in BOOLEAN
      /\ target \in [Targets -> {"none", "pending", "submitted", "blocked", "cancelled", "expired",
                                 "indeterminate"}]
      /\ envelope \in [Targets -> {"none", "made", "admitted"}]
      /\ inbox \in [Messages -> {"none", "kept", "trash", "old", "gone"}]
  BY DEF TypeOK
<1>b. worker.at # "idle" => worker.target \in Targets BY DEF WorkInv
<1>c. draft \in [life : TrashLife, filed : BOOLEAN] BY DEF TypeOK
<1>d. NoDraft.life = "none" BY DEF NoDraft
<1>1. CASE Upload \/ UploadAges BY <1>1 DEF Upload, StoreAttachment, UploadAges, StoredInv
<1>2. CASE Save \/ SaveElsewhere
  <2>0. draft' = [life |-> "kept", filed |-> upload # "none"] /\ upload' = upload
    BY <1>2 DEF Save, SaveElsewhere, Stored
  <2>1. draft'.filed => upload' # "none"
    <3>1. CASE upload = "none"
      <4>1. (upload # "none") = FALSE BY <3>1
      <4> QED BY <2>0, <4>1
    <3>2. CASE upload # "none" BY <2>0, <3>2
    <3> QED BY <3>1, <3>2
  <2> QED BY <1>2, <2>1 DEF Save, SaveElsewhere, StoredInv
<1>3. CASE OpenDraft \/ DeleteDraft \/ RestoreDraft
  <2>1. draft'.life # "none" /\ draft'.filed => draft.life # "none" /\ draft.filed
    BY <1>3, <1>c, <1>d DEF OpenDraft, DeleteDraft, RestoreDraft
  <2> QED BY <1>3, <2>1 DEF OpenDraft, DeleteDraft, RestoreDraft, StoredInv
<1>4. ASSUME NEW b \in Batches, NEW kind \in Kinds, Accept(b, kind) PROVE StoredInv'
  <2>1. blob /\ blob' = blob /\ body' = TRUE /\ upload' = upload
    BY <1>4 DEF Accept, Retainable, Freeze
  <2>2. draft'.life # "none" /\ draft'.filed => draft.life # "none" /\ draft.filed
    BY <1>4, <1>c, <1>d DEF Accept
  <2> QED BY <1>4, <2>1, <2>2 DEF Accept, StoredInv
<1>5. ASSUME NEW b \in Batches, Publish(b) PROVE StoredInv'
  BY <1>4, <1>5 DEF Publish, CreateCategory, CreateConnections, CreateSharedBatch,
    ReplyConversation, Kinds
<1>6. ASSUME NEW b \in Batches, BatchAges(b) PROVE StoredInv' BY <1>6 DEF BatchAges, StoredInv
<1>7. ASSUME NEW b \in Batches, Expire(b) \/ Cancel(b) PROVE StoredInv'
  <2>1. \A t \in Targets : target'[t] = "pending" => target[t] = "pending"
    BY <1>7, <1>a DEF Expire, Cancel, PastDeadline
  <2> QED BY <1>7, <2>1 DEF Expire, Cancel, StoredInv
<1>8. ASSUME NEW t \in Targets, Pick(t) PROVE StoredInv' BY <1>8 DEF Pick, StoredInv
<1>9. CASE Compose
  <2>1. CASE UNCHANGED <<body, envelope>> BY <1>9, <2>1 DEF Compose, PublishBody, CreateSigned, Refused, StoredInv
  <2>2. CASE body' = TRUE /\ (envelope[worker.target] # "none" \/ Retainable)
    <3>1. blob BY <1>9, <1>b, <2>2 DEF Compose, PublishBody, CreateSigned, Refused, Retainable, StoredInv
    <3> QED BY <1>9, <2>2, <3>1 DEF Compose, PublishBody, CreateSigned, Refused, StoredInv
  <2> QED BY <1>9, <2>1, <2>2 DEF Compose, PublishBody, CreateSigned, Refused
<1>10. CASE Submit
  <2>1. \A t \in Targets : envelope'[t] # "none" => body
    BY <1>10, <1>a, <1>b DEF Submit, StoredInv, WorkInv
  <2> QED BY <1>10, <2>1 DEF Submit, StoredInv
<1>11. CASE Record
  <2>1. worker.result # "pending" BY DEF TypeOK
  <2>2. \A t \in Targets : target'[t] = "pending" => target[t] = "pending"
    BY <1>11, <1>a, <1>b, <2>1 DEF Record
  <2> QED BY <1>11, <2>2 DEF Record, StoredInv
<1>12. CASE Crash \/ LoseLock BY <1>12 DEF Crash, LoseLock, StoredInv
<1>13. ASSUME NEW m \in Messages, Deliver(m) PROVE StoredInv' BY <1>13 DEF Deliver, StoreAttachment, StoredInv
<1>14. ASSUME NEW m \in Messages, Restore(m) PROVE StoredInv' BY <1>14, <1>a DEF Restore, StoredInv
<1>15. ASSUME NEW doomed, inbox' = Gone(doomed), CleanBodies, shared' = shared
       PROVE  /\ received' => received /\ shared'
              /\ \A m \in Messages : Carried(m)' => received'
  BY <1>15, <1>a DEF Gone, CleanBodies, StoredInv
<1>16. ASSUME NEW m \in Messages, NEW permanent \in BOOLEAN, Remove(m, permanent) PROVE StoredInv'
  <2>1. /\ received' => received /\ shared'
        /\ \A x \in Messages : Carried(x)' => received'
    <3>1. CASE permanent \/ ~trashing BY <1>15, <1>16, <3>1 DEF Remove
    <3>2. CASE ~(permanent \/ ~trashing) BY <1>16, <1>a, <3>2 DEF Remove, StoredInv
    <3> QED BY <3>1, <3>2
  <2> QED BY <1>16, <2>1 DEF Remove, StoredInv
<1>17. CASE SaveSettings \/ Empty
  <2>1. /\ received' => received /\ shared'
        /\ \A m \in Messages : Carried(m)' => received'
    <3>1. CASE NoTrash BY <1>15, <1>17, <3>1 DEF NoTrash, SaveSettings, Empty
    <3>2. CASE UNCHANGED <<inbox, received>> BY <1>17, <3>2 DEF SaveSettings, Empty, StoredInv
    <3> QED BY <1>17, <3>1, <3>2 DEF SaveSettings, Empty
  <2>2. draft'.life # "none" /\ draft'.filed => draft.life # "none" /\ draft.filed
    BY <1>17, <1>c, <1>d DEF SaveSettings, Empty, NoTrash
  <2> QED BY <1>17, <2>1, <2>2 DEF SaveSettings, Empty, StoredInv
<1>18. CASE TrashAges
  <2>1. draft'.life # "none" /\ draft'.filed => draft.life # "none" /\ draft.filed
    BY <1>18, <1>c DEF TrashAges
  <2>2. \A m \in Messages : Carried(m)' => Carried(m) BY <1>18, <1>a DEF TrashAges
  <2> QED BY <1>18, <2>1, <2>2 DEF TrashAges, StoredInv
<1>19. CASE Purge
  <2>1. /\ received' => received /\ shared'
        /\ \A m \in Messages : Carried(m)' => received'
    BY <1>15, <1>19 DEF Purge
  <2>2. draft'.life # "none" /\ draft'.filed => draft.life # "none" /\ draft.filed
    BY <1>19, <1>c, <1>d DEF Purge
  <2>3. draft'.life # "none" /\ draft'.filed => upload' # "none"
    BY <1>19, <2>2 DEF Purge, Forgotten, StoredInv
  <2>4. upload' # "none" => upload # "none" BY <1>19 DEF Purge
  <2> QED BY <1>19, <2>1, <2>3, <2>4 DEF Purge, StoredInv
<1>20. CASE CollectShared \/ CollectBlob
  BY <1>20, <1>a DEF CollectShared, CollectBlob, Unreferenced, StoredInv
<1>21. CASE UNCHANGED vars BY <1>21 DEF vars, StoredInv
<1>22. CASE PrepareCustody \/ CompleteCustody BY <1>22 DEF PrepareCustody, CompleteCustody, Fence, StoredInv
<1> QED BY <1>22, <1>1, <1>2, <1>3, <1>5, <1>6, <1>7, <1>8, <1>9, <1>10, <1>11, <1>12, <1>13, <1>14, <1>16, <1>17,
           <1>18, <1>19, <1>20, <1>21 DEF Next

\* A batch that is open stays open and of the kind it was accepted as.
LEMMA BatchesStay ==
    ASSUME TypeOK, [Next]_vars, NEW b \in Batches, batch[b].open
    PROVE  batch'[b].open /\ batch'[b].kind = batch[b].kind
<1> USE DEF writingVars, lockVars, sendingVars, keptVars
<1>a. batch \in [Batches -> BatchRows] BY DEF TypeOK, BatchRows
<1>b. batch[b] \in BatchRows BY <1>a
<1>1. ASSUME NEW c \in Batches, NEW kind \in Kinds, Accept(c, kind) PROVE batch'[b] = batch[b]
  BY <1>1, <1>a DEF Accept
<1>2. ASSUME NEW c \in Batches, Publish(c) PROVE batch'[b] = batch[b]
  BY <1>1, <1>2 DEF Publish, CreateCategory, CreateConnections, CreateSharedBatch,
    ReplyConversation, Kinds
<1>3. ASSUME NEW c \in Batches, BatchAges(c)
      PROVE  batch'[b] = batch[b] \/ batch'[b] = [batch[b] EXCEPT !.late = TRUE]
  BY <1>3, <1>a DEF BatchAges
<1>4. CASE batch' = batch BY <1>4
<1>5. ASSUME batch' # batch PROVE \E c \in Batches : Publish(c) \/ BatchAges(c)
  <2>1. CASE Upload \/ UploadAges \/ Save \/ SaveElsewhere \/ OpenDraft \/ DeleteDraft \/ RestoreDraft
    BY <1>5, <2>1 DEF Upload, StoreAttachment, UploadAges, Save, SaveElsewhere, OpenDraft, DeleteDraft, RestoreDraft
  <2>2. ASSUME NEW c \in Batches, Expire(c) \/ Cancel(c) PROVE FALSE BY <1>5, <2>2 DEF Expire, Cancel
  <2>3. ASSUME NEW t \in Targets, Pick(t) PROVE FALSE BY <1>5, <2>3 DEF Pick
  <2>4. CASE Compose \/ Submit \/ Record \/ Crash \/ LoseLock
    BY <1>5, <2>4 DEF Compose, PublishBody, CreateSigned, Refused, Submit, Record, Crash, LoseLock
  <2>5. ASSUME NEW m \in Messages, Deliver(m) \/ Restore(m) PROVE FALSE BY <1>5, <2>5 DEF Deliver, StoreAttachment, Restore
  <2>6. ASSUME NEW m \in Messages, NEW permanent \in BOOLEAN, Remove(m, permanent) PROVE FALSE
    BY <1>5, <2>6 DEF Remove
  <2>7. CASE SaveSettings \/ Empty \/ TrashAges BY <1>5, <2>7 DEF SaveSettings, Empty, TrashAges
  <2>8. CASE Purge \/ CollectShared \/ CollectBlob BY <1>5, <2>8 DEF Purge, CollectShared, CollectBlob
  <2>9. CASE PrepareCustody \/ CompleteCustody BY <1>5, <2>9 DEF PrepareCustody, CompleteCustody, Fence
  <2>10. CASE UNCHANGED vars BY <1>5, <2>10 DEF vars
  <2> QED BY <2>1, <2>2, <2>3, <2>4, <2>5, <2>6, <2>7, <2>8, <2>9, <2>10 DEF Next
<1>6. ASSUME batch'[b] = batch[b] \/ batch'[b] = [batch[b] EXCEPT !.late = TRUE]
      PROVE  batch'[b].open /\ batch'[b].kind = batch[b].kind
  BY <1>6, <1>b DEF BatchRows
<1> QED BY <1>2, <1>3, <1>4, <1>5, <1>6

\* Every step keeps the worker's row and the truth of what is reported.
LEMMA WorkStep ==
    ASSUME TypeOK, WorkInv, TargetsFit, OutcomeIsTruthful, [Next]_vars
    PROVE  WorkInv' /\ TargetsFit' /\ OutcomeIsTruthful'
<1> DEFINE Kept == WorkInv /\ TargetsFit /\ OutcomeIsTruthful
<1> SUFFICES Kept' OBVIOUS
<1> USE DEF writingVars, lockVars, sendingVars, keptVars
<1>a. /\ target \in [Targets -> {"none", "pending", "submitted", "blocked", "cancelled", "expired",
                                 "indeterminate"}]
      /\ envelope \in [Targets -> {"none", "made", "admitted"}]
      /\ worker \in JobRows /\ strays \subseteq Targets
  BY DEF TypeOK, JobRows
<1>h. /\ DOMAIN target = Targets /\ target = [t \in Targets |-> target[t]]
      /\ DOMAIN envelope = Targets /\ envelope = [t \in Targets |-> envelope[t]]
  BY <1>a
<1>b. worker.at # "idle" => worker.target \in Targets BY DEF WorkInv
<1>c. \A b \in Batches : batch[b].open => batch'[b].open /\ batch'[b].kind = batch[b].kind
  BY BatchesStay
<1>d. \A t \in Targets : t[1] \in Batches BY TargetFact
<1>e. NoJob.at = "idle" BY DEF NoJob
<1>f. \A t \in Targets : target[t] # "none" =>
          batch'[t[1]].open /\ batch'[t[1]].kind = batch[t[1]].kind
  BY <1>c, <1>d DEF WorkInv
<1>g. worker.at # "idle" => /\ batch[worker.target[1]].open /\ batch'[worker.target[1]].open
                            /\ batch'[worker.target[1]].kind = batch[worker.target[1]].kind
  BY <1>b, <1>c, <1>d DEF WorkInv
<1>1. CASE UNCHANGED <<target, envelope, worker, broken, strays>>
  <2>1. WorkInv' BY <1>1, <1>f, <1>g DEF WorkInv
  <2>2. TargetsFit' BY <1>1 DEF TargetsFit
  <2>3. OutcomeIsTruthful' BY <1>1, <1>f DEF OutcomeIsTruthful
  <2> QED BY <2>1, <2>2, <2>3
<1>2. ASSUME NEW b \in Batches, NEW kind \in Kinds, Accept(b, kind) PROVE Kept'
  <2>1. /\ ~batch[b].open
        /\ target' = [t \in Targets |-> IF t[1] = b THEN "pending" ELSE target[t]]
        /\ UNCHANGED <<envelope, worker, broken, strays>>
    BY <1>2 DEF Accept
  <2>2. batch'[b].open
    <3>1. batch' = [batch EXCEPT ![b] = [NoBatch EXCEPT !.open = TRUE, !.kind = kind]]
      BY <1>2 DEF Accept
    <3> QED BY <3>1 DEF TypeOK, NoBatch
  <2>3. \A t \in Targets : target'[t] # "none" => batch'[t[1]].open BY <1>f, <2>1, <2>2
  <2>4. worker.at # "idle" => target'[worker.target] = target[worker.target] BY <1>b, <1>g, <2>1
  <2>5. WorkInv' BY <1>g, <2>1, <2>3, <2>4 DEF WorkInv
  <2>6. TargetsFit' BY <2>1 DEF TargetsFit
  <2>7. OutcomeIsTruthful' BY <1>f, <2>1 DEF OutcomeIsTruthful
  <2> QED BY <2>5, <2>6, <2>7
<1>3. ASSUME NEW b \in Batches, Publish(b) PROVE Kept'
  BY <1>2, <1>3 DEF Publish, CreateCategory, CreateConnections, CreateSharedBatch,
    ReplyConversation, Kinds
<1>4. ASSUME NEW b \in Batches, Expire(b) PROVE Kept'
  <2>1. /\ worker.at = "idle"
        /\ target' = [t \in Targets |-> IF t[1] = b /\ target[t] = "pending" THEN PastDeadline(t)
                                        ELSE target[t]]
        /\ UNCHANGED <<batch, envelope, worker, broken, strays>>
    BY <1>4 DEF Expire
  <2>2. \A t \in Targets :
          \/ target'[t] = target[t]
          \/ /\ target[t] = "pending" /\ target'[t] \in {"indeterminate", "expired"}
             /\ target'[t] = "expired" => envelope[t] = "none"
    BY <2>1 DEF PastDeadline
  <2>3. WorkInv' BY <2>1, <2>2 DEF WorkInv
  <2>4. TargetsFit' BY <2>1, <2>2 DEF TargetsFit
  <2>5. OutcomeIsTruthful' BY <2>1, <2>2 DEF OutcomeIsTruthful
  <2> QED BY <2>3, <2>4, <2>5
<1>5. ASSUME NEW b \in Batches, Cancel(b) PROVE Kept'
  <2>1. /\ worker.at = "idle" \/ broken
        /\ target' = [t \in Targets |-> IF t[1] = b /\ Cancellable(t) THEN "cancelled" ELSE target[t]]
        /\ UNCHANGED <<batch, envelope, worker, broken, strays>>
    BY <1>5 DEF Cancel, LockFree
  <2>2. \A t \in Targets :
          \/ target'[t] = target[t]
          \/ target[t] = "pending" /\ target'[t] = "cancelled" /\ envelope[t] = "none"
    BY <2>1 DEF Cancellable
  <2>3. WorkInv' BY <1>b, <2>1, <2>2 DEF WorkInv
  <2>4. TargetsFit' BY <2>1, <2>2 DEF TargetsFit
  <2>5. OutcomeIsTruthful' BY <2>1, <2>2 DEF OutcomeIsTruthful
  <2> QED BY <2>3, <2>4, <2>5
<1>6. ASSUME NEW t \in Targets, Pick(t) PROVE Kept'
  <2>1. /\ target[t] = "pending" /\ worker' = [at |-> "send", target |-> t, result |-> "none"]
        /\ broken' = FALSE /\ UNCHANGED <<strays, batch, target, envelope>>
    BY <1>6 DEF Pick
  <2>2. WorkInv' BY <2>1 DEF WorkInv
  <2>3. TargetsFit' /\ OutcomeIsTruthful' BY <2>1 DEF TargetsFit, OutcomeIsTruthful
  <2> QED BY <2>2, <2>3
<1>7. CASE Compose
  <2> DEFINE t == worker.target
  <2>1. /\ worker.at = "send" /\ t \in Targets /\ UNCHANGED <<batch, target, broken, strays>>
    BY <1>7, <1>b DEF Compose, PublishBody, CreateSigned, Refused
  <2>2. CASE /\ worker' = [worker EXCEPT !.at = "submit"]
             /\ envelope' = IF envelope[t] = "none" THEN [envelope EXCEPT ![t] = "made"] ELSE envelope
    <3>1. worker'.at = "submit" /\ worker'.target = t BY <1>a, <2>2 DEF JobRows
    <3>2. /\ envelope'[t] # "none"
          /\ \A x \in Targets : x # t => envelope'[x] = envelope[x]
          /\ envelope[t] # "none" => envelope'[t] = envelope[t]
      BY <1>a, <2>1, <2>2
    <3>3. WorkInv' BY <2>1, <3>1, <3>2 DEF WorkInv
    <3>4. TargetsFit' BY <2>1, <3>2 DEF TargetsFit
    <3>5. OutcomeIsTruthful'
      <4>1. target[t] \in {"cancelled", "expired"} => t \in strays BY <2>1 DEF WorkInv
      <4>2. target[t] = "submitted" => envelope[t] # "none" BY <2>1 DEF TargetsFit
      <4> QED BY <2>1, <3>2, <4>1, <4>2 DEF OutcomeIsTruthful
    <3> QED BY <3>3, <3>4, <3>5
  <2>3. CASE /\ envelope' = envelope
             /\ \E result \in {"blocked", "retry"} : Result(result)
    <3>1. worker'.at = "record" /\ worker'.target = t /\ worker'.result \in {"blocked", "retry"}
      BY <1>a, <2>3 DEF Result, JobRows
    <3>2. WorkInv' BY <2>1, <2>3, <3>1 DEF WorkInv
    <3>3. TargetsFit' /\ OutcomeIsTruthful' BY <2>1, <2>3 DEF TargetsFit, OutcomeIsTruthful
    <3> QED BY <3>2, <3>3
  <2> QED BY <1>7, <2>2, <2>3 DEF Compose, PublishBody, CreateSigned, Refused
<1>8. CASE Submit
  <2> DEFINE t == worker.target
  <2>1. /\ worker.at = "submit" /\ t \in Targets /\ UNCHANGED <<batch, target, broken, strays>>
        /\ envelope[t] # "none"
    BY <1>8, <1>b DEF Submit, WorkInv
  <2>2. PICK result \in {"submitted", "blocked", "retry"} :
            /\ Result(result)
            /\ result = "submitted" => Submitted(t)
            /\ envelope' = envelope \/ envelope' = [envelope EXCEPT ![t] = "admitted"]
    BY <1>8, <1>a, <2>1 DEF Submit
  <2>3. worker'.at = "record" /\ worker'.target = t /\ worker'.result = result
    BY <1>a, <2>2 DEF Result, JobRows
  <2>4. /\ envelope'[t] # "none"
        /\ \A x \in Targets : envelope'[x] = envelope[x] \/ (x = t /\ envelope'[x] = "admitted")
    BY <1>h, <2>1, <2>2
  <2>5. WorkInv' BY <2>1, <2>2, <2>3, <2>4 DEF WorkInv, Submitted
  <2>6. TargetsFit' BY <2>1, <2>4 DEF TargetsFit
  <2>7. OutcomeIsTruthful' BY <2>1, <2>4 DEF OutcomeIsTruthful
  <2> QED BY <2>5, <2>6, <2>7
<1>9. CASE Record
  <2> DEFINE t == worker.target
  <2>1. /\ worker.at = "record" /\ t \in Targets /\ worker' = NoJob
        /\ UNCHANGED <<batch, envelope, strays>>
    BY <1>9, <1>b DEF Record
  <2>2. CASE target' = target
    <3>1. WorkInv' BY <1>e, <2>1, <2>2 DEF WorkInv
    <3> QED BY <2>1, <2>2, <3>1 DEF TargetsFit, OutcomeIsTruthful
  <2>3. CASE /\ target[t] = "pending" /\ worker.result # "retry"
             /\ target' = [target EXCEPT ![t] = worker.result]
    <3>1. worker.result \in {"submitted", "blocked"} BY <1>a, <2>1, <2>3 DEF WorkInv, JobRows
    <3>2. \A x \in Targets : target'[x] = target[x] \/ (x = t /\ target'[x] = worker.result)
      BY <1>h, <2>1, <2>3
    <3>3. WorkInv' BY <1>e, <1>g, <2>1, <3>2 DEF WorkInv
    <3>4. worker.result = "submitted" =>
             envelope[t] # "none" /\ (batch[t[1]].kind = "conversation" => envelope[t] = "admitted")
      BY <2>1 DEF WorkInv
    <3>5. TargetsFit' BY <2>1, <3>2, <3>4 DEF TargetsFit
    <3>6. OutcomeIsTruthful' BY <2>1, <3>1, <3>2, <3>4 DEF OutcomeIsTruthful
    <3> QED BY <3>3, <3>5, <3>6
  <2> QED BY <1>9, <2>2, <2>3 DEF Record, Recordable
<1>10. CASE Crash
  <2>1. worker' = NoJob /\ UNCHANGED <<strays, batch, target, envelope>> BY <1>10 DEF Crash
  <2>2. WorkInv' BY <1>e, <2>1 DEF WorkInv
  <2> QED BY <2>1, <2>2 DEF TargetsFit, OutcomeIsTruthful
<1>11. CASE LoseLock
  <2>1. /\ worker.at # "idle" /\ strays' = strays \cup {worker.target}
        /\ UNCHANGED <<batch, target, envelope, worker>>
    BY <1>11 DEF LoseLock
  <2>2. WorkInv' BY <2>1 DEF WorkInv
  <2>3. TargetsFit' /\ OutcomeIsTruthful' BY <2>1 DEF TargetsFit, OutcomeIsTruthful
  <2> QED BY <2>2, <2>3
<1>12. ASSUME NEW m \in Messages, Deliver(m) \/ Restore(m) \/ \E permanent \in BOOLEAN : Remove(m, permanent)
       PROVE  Kept'
  BY <1>1, <1>12 DEF Deliver, StoreAttachment, Restore, Remove
<1>13. ASSUME NEW b \in Batches, BatchAges(b) PROVE Kept' BY <1>1, <1>13 DEF BatchAges
<1>14. CASE Upload \/ UploadAges \/ Save \/ SaveElsewhere \/ OpenDraft \/ DeleteDraft \/ RestoreDraft
  BY <1>1, <1>14 DEF Upload, StoreAttachment, UploadAges, Save, SaveElsewhere, OpenDraft, DeleteDraft, RestoreDraft
<1>15. CASE SaveSettings \/ Empty \/ TrashAges BY <1>1, <1>15 DEF SaveSettings, Empty, TrashAges
<1>16. CASE Purge \/ CollectShared \/ CollectBlob BY <1>1, <1>16 DEF Purge, CollectShared, CollectBlob
<1>17. CASE UNCHANGED vars BY <1>1, <1>17 DEF vars
<1>18. CASE PrepareCustody \/ CompleteCustody BY <1>1, <1>18 DEF PrepareCustody, CompleteCustody, Fence
<1> HIDE DEF Kept
<1> QED BY <1>18, <1>3, <1>4, <1>5, <1>6, <1>7, <1>8, <1>9, <1>10, <1>11, <1>12, <1>13, <1>14, <1>15, <1>16, <1>17
           DEF Next

-----------------------------------------------------------------------------

\* The inductive invariant holds at the start.
LEMMA Begins == Init => IndInv
<1> SUFFICES ASSUME Init PROVE IndInv OBVIOUS
<1>1. PICK before \in BOOLEAN :
        /\ trashing = TRUE /\ upload = "none" /\ blob = before /\ body = before
        /\ draft = NoDraft /\ form = "new"
        /\ batch = [b \in Batches |-> NoBatch]
        /\ target = [t \in Targets |-> "none"]
        /\ envelope = [t \in Targets |-> "none"]
        /\ inbox = [m \in Messages |-> IF m = Earlier /\ before THEN "kept" ELSE "none"]
        /\ received = before /\ shared = before
        /\ worker = NoJob /\ broken = FALSE /\ strays = {} /\ fenced = FALSE
  BY DEF Init
<1>2. TypeOK
  <2>1. NoDraft \in DraftRows /\ NoBatch \in BatchRows /\ NoJob \in JobRows BY RowFacts
  <2> QED BY ZenonT(60), <1>1, <2>1 DEF TypeOK, DraftRows, BatchRows, JobRows
<1>3. StoredInv
  <2>1. NoDraft.life = "none" BY DEF NoDraft
  <2>2. \A m \in Messages : Carried(m) => received BY <1>1 DEF Carried
  <2> QED BY <1>1, <2>1, <2>2 DEF StoredInv
<1>4. WorkInv BY <1>1 DEF WorkInv, NoJob
<1>5. TargetsFit /\ OutcomeIsTruthful BY <1>1 DEF TargetsFit, OutcomeIsTruthful
<1> QED BY <1>2, <1>3, <1>4, <1>5 DEF IndInv

\* The inductive invariant of the mailbox: nothing that refers to a body or a file is ever
\* left without it (drafts.ts, attachments.ts, message-trash.ts), and the fan-out worker's
\* row agrees with what it has sent (publications.ts).
THEOREM Invariance == Spec => []IndInv
<1>1. Init => IndInv BY Begins
<1>2. IndInv /\ [Next]_vars => IndInv' BY TypeStep, StoredStep, WorkStep DEF IndInv
<1> QED BY <1>1, <1>2, PTL DEF Spec

\* The rows of drafts, uploads, batches, targets and messages keep their types, whatever the
\* owner, the worker and the collectors do (publications.ts, drafts.ts, message-trash.ts).
THEOREM MailboxTypes == Spec => []TypeOK
<1>1. IndInv => TypeOK BY DEF IndInv
<1> QED BY <1>1, Invariance, PTL

\* Every stored message can be read with its file, and the export of the account is complete
\* whenever no batch is open (message-trash.ts cleanBodies and purgeExpired, transfer.ts
\* validateTransferManifest).
THEOREM TheMailboxIsWhole == Spec => []MailboxIsWhole
<1>1. IndInv => MailboxIsWhole
  <2> SUFFICES ASSUME IndInv PROVE MailboxIsWhole OBVIOUS
  <2> USE DEF IndInv
  <2>1. ReadableStays BY DEF StoredInv, ReadableStays, Readable
  <2>2. BodiesFit BY DEF StoredInv, BodiesFit
  <2>3. AttachmentsFit BY DEF StoredInv, AttachmentsFit
  <2> QED BY <2>1, <2>2, <2>3 DEF MailboxIsWhole
<1> QED BY <1>1, Invariance, PTL

\* An accepted batch keeps its body and its file until its last recipient fetched them, and
\* a draft its upload (publications.ts createConnections, attachments.ts
\* retainBodyAttachments).
THEOREM AcceptedCanBeSent == Spec => []AcceptedStaysSendable
<1>1. IndInv => AcceptedStaysSendable
  BY DEF IndInv, StoredInv, AcceptedStaysSendable, Retainable, Fetchable
<1> QED BY <1>1, Invariance, PTL

\* Cancelled or expired was sent nothing unless the lock was lost, and submitted to a
\* conversation was admitted (publications.ts cancel and workOne).
THEOREM ReportedOutcomesAreTrue == Spec => []OutcomeIsTruthful
<1>1. IndInv => OutcomeIsTruthful BY DEF IndInv
<1> QED BY <1>1, Invariance, PTL

\* What has been reported of a recipient stands.
OutcomesStand ==
    \A t \in Targets : target[t] \notin {"none", "pending"} => target'[t] = target[t]

\* Once a target is settled it stays settled: the worker that lost its lock records over
\* nothing but a pending one, and a batch is accepted once (publications.ts workOne, the
\* update that names the pending outcome).
THEOREM SettledStaysSettled == Spec => [][OutcomesStand]_vars
<1>1. IndInv /\ [Next]_vars => [OutcomesStand]_vars
  <2> SUFFICES ASSUME IndInv, Next PROVE OutcomesStand
    BY DEF IndInv
  <2> USE DEF writingVars, lockVars, sendingVars, keptVars
  <2>a. target = [t \in Targets |-> target[t]] /\ DOMAIN target = Targets BY DEF IndInv, TypeOK
  <2>1. CASE target' = target BY <2>1 DEF OutcomesStand
  <2>2. ASSUME NEW b \in Batches, NEW kind \in Kinds, Accept(b, kind)
        PROVE  OutcomesStand
    <3>1. \A t \in Targets : t[1] = b => target[t] = "none"
      BY <2>2 DEF Accept, IndInv, WorkInv
    <3> QED BY <2>2, <3>1 DEF Accept, OutcomesStand
  <2>3. ASSUME NEW b \in Batches, Publish(b) PROVE OutcomesStand
    BY <2>2, <2>3 DEF Publish, CreateCategory, CreateConnections, CreateSharedBatch,
    ReplyConversation, Kinds
  <2>4. ASSUME NEW b \in Batches, Expire(b) \/ Cancel(b) PROVE OutcomesStand
    BY <2>4 DEF Expire, Cancel, Cancellable, OutcomesStand
  <2>5. CASE Record BY <2>1, <2>5, <2>a DEF Record, Recordable, OutcomesStand
  <2>6. ASSUME NEW t \in Targets, Pick(t) PROVE OutcomesStand BY <2>1, <2>6 DEF Pick
  <2>7. CASE Compose \/ Submit \/ Crash \/ LoseLock BY <2>1, <2>7 DEF Compose, PublishBody, CreateSigned, Refused, Submit, Crash, LoseLock
  <2>8. ASSUME NEW m \in Messages, Deliver(m) \/ Restore(m) \/ \E permanent \in BOOLEAN : Remove(m, permanent)
        PROVE  OutcomesStand
    BY <2>1, <2>8 DEF Deliver, StoreAttachment, Restore, Remove
  <2>9. ASSUME NEW b \in Batches, BatchAges(b) PROVE OutcomesStand BY <2>1, <2>9 DEF BatchAges
  <2>10. CASE Upload \/ UploadAges \/ Save \/ SaveElsewhere \/ OpenDraft \/ DeleteDraft \/ RestoreDraft
    BY <2>1, <2>10 DEF Upload, StoreAttachment, UploadAges, Save, SaveElsewhere, OpenDraft, DeleteDraft, RestoreDraft
  <2>11. CASE SaveSettings \/ Empty \/ TrashAges BY <2>1, <2>11 DEF SaveSettings, Empty, TrashAges
  <2>12. CASE Purge \/ CollectShared \/ CollectBlob BY <2>1, <2>12 DEF Purge, CollectShared, CollectBlob
  <2>13. CASE PrepareCustody \/ CompleteCustody BY <2>1, <2>13 DEF PrepareCustody, CompleteCustody, Fence
  <2> QED BY <2>3, <2>4, <2>5, <2>6, <2>7, <2>8, <2>9, <2>10, <2>11, <2>12, <2>13 DEF Next
<1> QED BY <1>1, Invariance, PTL DEF Spec
==============================================================================
