------------------------------ MODULE Delivery ------------------------------
(***************************************************************************)
(* The recipient provider's message path: an authenticated envelope is     *)
(* admitted (envelopes/repository.ts), becomes a row of delivery_work, is  *)
(* claimed under a lease by one of several workers (delivery/worker.ts),   *)
(* its body is retrieved, and a transaction of delivery/repository.ts      *)
(* moves it to delivered, failed or on-hold.  Beside it run the operations *)
(* it races with: revocation, disconnection, leaving a conversation,       *)
(* the migration fence, account closure, and the passage of time.          *)
(*                                                                         *)
(* One database transaction is one atomic step.  A worker's memory         *)
(* between two transactions is pc[w], job[w] and token[w]; a crash loses   *)
(* it and keeps the database.                                              *)
(***************************************************************************)
EXTENDS Naturals, FiniteSets

CONSTANTS
    Local,           \* DIDs whose accounts live at this provider
    Remote,          \* DIDs served elsewhere
    Keys,            \* (sender_did, message_id): the replay key
    Payloads,        \* signed envelope payloads; two may carry one key
    Grants, Replies, Connections, Conversations,   \* what an envelope may cite
    Workers,         \* the delivery worker slots of all processes
    Sender,          \* [Keys -> DIDs]
    KeyOf, To,       \* [Payloads -> Keys], [Payloads -> Local]
    Cites,           \* [Payloads -> Authorities]
    Introduces,      \* [Payloads -> Connections \cup {NoConnection}]
    InScope,         \* payloads whose category the cited grant covers
    Deadline,        \* [Payloads -> Nat]: deliveryDeadline
    Owner, Peers,    \* [Authorities -> Local], [Authorities -> SUBSET DIDs]
    Until,           \* [Authorities -> Nat]: the last instant it can be used
    LeaseLength,     \* the lease of claimDue
    RecipientLeases, \* live leases one recipient may have
    PendingSender, PendingRecipient, PendingProvider,
    RejectedSender, RejectedProvider,
    Movable,         \* bound: local accounts that may be fenced or closed
    LastDisturbance, \* bound: fences, barriers and crashes start up to this time
    MaxTime,         \* bound: the clock stops here
    NoKey, NoPayload, NoConnection, NoReply

Dids == Local \cup Remote
Standing == Grants \cup Connections \cup Conversations
Authorities == Standing \cup Replies

ASSUME SetsAssumption ==
    /\ Local \cap Remote = {}
    /\ NoKey \notin Keys /\ NoPayload \notin Payloads
    /\ NoConnection \notin Connections /\ NoReply \notin Replies
    /\ Movable \subseteq Local
    /\ Grants \cap Connections = {} /\ Grants \cap Conversations = {}
    /\ Connections \cap Conversations = {} /\ Replies \cap Standing = {}
    /\ IsFiniteSet(Keys)

ASSUME AttributesAssumption ==
    /\ Sender \in [Keys -> Dids]
    /\ KeyOf \in [Payloads -> Keys]
    /\ To \in [Payloads -> Local]
    /\ Cites \in [Payloads -> Authorities]
    /\ Introduces \in [Payloads -> Connections \cup {NoConnection}]
    /\ InScope \subseteq Payloads
    /\ Deadline \in [Payloads -> Nat]
    /\ Owner \in [Authorities -> Local]
    /\ Peers \in [Authorities -> SUBSET Dids]
    /\ Until \in [Authorities -> Nat]

ASSUME LimitsAssumption ==
    /\ LeaseLength \in Nat \ {0} /\ RecipientLeases \in Nat \ {0}
    /\ {PendingSender, PendingRecipient, PendingProvider} \subseteq Nat
    /\ {RejectedSender, RejectedProvider} \subseteq Nat
    /\ MaxTime \in Nat /\ LastDisturbance \in Nat

VARIABLES
    now,          \* clock_timestamp()
    account,      \* provider_accounts and provider_migration_fences, by DID
    standing,     \* grant, connection and membership state
    paused,       \* connections behind a handover barrier
    capability,   \* reply_capabilities.state
    claimant,     \* reply_capabilities.claimed_*
    inbox,        \* requests between candidate() and accept()
    env,          \* received_envelopes: the payload that holds the key
    outcome,      \* received_envelopes.outcome
    state, reason, revision,            \* delivery_work
    attempts, leaseToken, leaseUntil, nextAttempt,
    visible,      \* delivered_messages
    published,    \* terminal_status_publications
    pc, job, token                      \* one worker's processOne

work == <<state, reason, revision, attempts, leaseToken, leaseUntil, nextAttempt>>
received == <<env, outcome>>
replies == <<capability, claimant>>
rights == <<account, standing, paused>>
worker == <<pc, job, token>>
vars == <<now, rights, replies, inbox, received, work, visible, published, worker>>

Pending == {"accepted", "on-hold"}
Terminal == {"delivered", "failed", "cancelled"}
Reasons == {"none", "account-closed", "delivery-expired", "receiver-policy-rejected",
            "body", "retry"}
Stages == {"idle", "checking", "retrieving", "authorizing", "delivering", "denied",
           "expiring", "rejecting", "failing", "holding"}

Init ==
    /\ now = 0
    /\ account = [d \in Local |-> "active"]
    /\ standing = [a \in Standing |-> IF a \in Conversations THEN "none" ELSE "active"]
    /\ paused = {}
    /\ capability = [r \in Replies |-> "none"]
    /\ claimant = [r \in Replies |-> NoKey]
    /\ inbox = {}
    /\ env = [k \in Keys |-> NoPayload]
    /\ outcome = [k \in Keys |-> "none"]
    /\ state = [k \in Keys |-> "none"]
    /\ reason = [k \in Keys |-> "none"]
    /\ revision = [k \in Keys |-> 0]
    /\ attempts = [k \in Keys |-> 0]
    /\ leaseToken = [k \in Keys |-> 0]
    /\ leaseUntil = [k \in Keys |-> 0]
    /\ nextAttempt = [k \in Keys |-> 0]
    /\ visible = {} /\ published = {}
    /\ pc = [w \in Workers |-> "idle"]
    /\ job = [w \in Workers |-> NoKey]
    /\ token = [w \in Workers |-> 0]

-----------------------------------------------------------------------------
(* Accounts and standing permission.                                        *)

\* hail_assert_unfenced_account does not raise: the account may be written.
Serving(d) == account[d] = "active"

Fenced(d) == account[d] \in {"fenced", "retired"}

\* hail_connection_message_permission without locks.  A retired peer counts as
\* remote; a closed account is not looked at here.
ConnectionAllowed(c) ==
    /\ standing[c] \in {"active", "ending"}
    /\ ~Fenced(Owner[c])
    /\ \A d \in Peers[c] \cap Local : account[d] # "fenced"

\* The locking form raises for an owner or a local, unretired peer that is
\* fenced or closed.
ConnectionLockable(c) ==
    /\ Serving(Owner[c])
    /\ \A d \in Peers[c] \cap Local : account[d] \in {"active", "retired"}

ConversationAllowed(v) ==
    /\ Serving(Owner[v])
    /\ standing[v] = "active"

\* What ConnectionMessagingAuthority.live can answer.  "ending" is a
\* disconnection the coordinator has recorded and this provider has not.
LiveAnswers(c) ==
    IF ~ConnectionAllowed(c) THEN {"no"}
    ELSE IF c \in paused \/ ~Serving(Owner[c]) THEN {"unavailable"}
    ELSE {"unavailable", IF standing[c] = "active" THEN "yes" ELSE "no"}

\* authorizeConnection: grants and replies are settled at admission.
AuthorityAnswers(a) ==
    IF a \in Connections THEN LiveAnswers(a)
    ELSE {IF a \in Conversations /\ ~ConversationAllowed(a) THEN "no" ELSE "yes"}

\* The coordinator's disconnected snapshot is stored while answering "no".
ApplySnapshot(a, answer) ==
    standing' = IF a \in Connections /\ answer = "no" /\ ConnectionAllowed(a)
                THEN [standing EXCEPT ![a] = "ended"] ELSE standing

-----------------------------------------------------------------------------
(* Admission: EnvelopeReceiver.receive, then EnvelopeRepository.accept.     *)

Active(k) == state[k] \in Pending
Recipient(k) == To[env[k]]
Rejected(k) == outcome[k] \in {"unauthorized", "message-expired"}

\* candidate(): the relationship the payload cites exists between the parties.
Candidate(p) ==
    LET a == Cites[p]
        c == Introduces[p]
    IN  /\ Owner[a] = To[p] /\ Sender[KeyOf[p]] \in Peers[a]
        /\ a \in Replies => capability[a] # "none"
        /\ a \in Connections => ConnectionAllowed(a)
        /\ a \in Conversations =>
             \/ ConversationAllowed(a) /\ c = NoConnection
             \/ /\ c # NoConnection
                /\ Owner[c] = To[p] /\ Sender[KeyOf[p]] \in Peers[c]
                /\ "yes" \in LiveAnswers(c)

Receive(p) ==
    /\ p \notin inbox
    /\ account[To[p]] \notin {"closed", "retired"}
    /\ Candidate(p)
    /\ inbox' = inbox \cup {p}
    /\ UNCHANGED <<now, rights, replies, received, work, visible, published, worker>>

\* Every path of accept that commits no row: an aborted request, a duplicate or
\* a conflict, an exhausted budget, an unknown membership, a raised fence.
Discard(p) ==
    /\ p \in inbox
    /\ inbox' = inbox \ {p}
    /\ UNCHANGED <<now, rights, replies, received, work, visible, published, worker>>

\* Mutation: the comparison admits one too many.
PendingRoomOffByOne(p) ==
    LET queued == {k \in Keys : Active(k)}
    IN  /\ Cardinality(queued) <= PendingProvider
        /\ Cardinality({k \in queued : Sender[k] = Sender[KeyOf[p]]}) < PendingSender
        /\ Cardinality({k \in queued : Recipient(k) = To[p]}) < PendingRecipient

\* admitEnvelope for an envelope that will be accepted.
PendingRoom(p) ==
    LET queued == {k \in Keys : Active(k)}
    IN  /\ Cardinality(queued) < PendingProvider
        /\ Cardinality({k \in queued : Sender[k] = Sender[KeyOf[p]]}) < PendingSender
        /\ Cardinality({k \in queued : Recipient(k) = To[p]}) < PendingRecipient

\* admitEnvelope for one that is refused but whose key is reserved.
RejectedRoom(p) ==
    LET refused == {k \in Keys : Rejected(k)}
    IN  /\ Cardinality(refused) < RejectedProvider
        /\ Cardinality({k \in refused : Sender[k] = Sender[KeyOf[p]]}) < RejectedSender

\* The transaction reaches insertReceived: no earlier row holds the key
\* (previousOutcome) and no trigger raises.
Reservable(p) ==
    /\ p \in inbox
    /\ env[KeyOf[p]] = NoPayload
    /\ Serving(To[p])

Decision(p, permitted) ==
    IF now > Deadline[p] THEN "message-expired"
    ELSE IF permitted THEN "accepted" ELSE "unauthorized"

\* insertReceived
Reserve(p, o) ==
    LET k == KeyOf[p]
    IN  /\ IF o = "accepted" THEN PendingRoom(p) ELSE RejectedRoom(p)
        /\ inbox' = inbox \ {p}
        /\ env' = [env EXCEPT ![k] = p]
        /\ outcome' = [outcome EXCEPT ![k] = o]
        /\ IF o = "accepted"
           THEN /\ state' = [state EXCEPT ![k] = "accepted"]
                /\ revision' = [revision EXCEPT ![k] = 1]
                /\ nextAttempt' = [nextAttempt EXCEPT ![k] = now]
           ELSE UNCHANGED <<state, revision, nextAttempt>>
        /\ UNCHANGED <<now, account, paused, reason, attempts, leaseToken, leaseUntil,
                       visible, published, worker>>

AcceptGrant(p) ==
    LET g == Cites[p]
    IN  /\ g \in Grants
        /\ Reservable(p)
        /\ Reserve(p, Decision(p, /\ standing[g] = "active"
                                  /\ now <= Until[g]
                                  /\ p \in InScope))
        /\ UNCHANGED <<standing, replies>>

\* Mutation: the capability's state is not looked at.
ReplyPermittedStale(r) == capability[r] # "none" /\ now <= Until[r]

\* The capability row is locked, so its state is the state claimed.
ReplyPermitted(r) == capability[r] = "available" /\ now <= Until[r]

AcceptReply(p) ==
    LET r == Cites[p]
        o == Decision(p, ReplyPermitted(r))
    IN  /\ r \in Replies
        /\ Reservable(p)
        /\ Reserve(p, o)
        /\ IF o = "accepted"
           THEN /\ capability' = [capability EXCEPT ![r] = "claimed"]
                /\ claimant' = [claimant EXCEPT ![r] = KeyOf[p]]
           ELSE UNCHANGED replies
        /\ UNCHANGED standing

\* Accepted while paused: the barrier holds delivery, not admission.
AcceptConnection(p) ==
    LET c == Cites[p]
    IN  /\ c \in Connections
        /\ ConnectionLockable(c)
        /\ Reservable(p)
        /\ Reserve(p, Decision(p, ConnectionAllowed(c)))
        /\ UNCHANGED <<standing, replies>>

\* admitConversation creates a membership where there is none; one that was
\* left stays left.  It raises while the introducing connection is paused.
Admits(p) ==
    /\ Introduces[p] # NoConnection
    /\ standing[Cites[p]] = "none"
    /\ now <= Until[Cites[p]]
    /\ ConnectionAllowed(Introduces[p])

AcceptConversation(p) ==
    LET v == Cites[p]
        c == Introduces[p]
    IN  /\ v \in Conversations
        /\ Reservable(p)
        /\ c # NoConnection => /\ PendingRoom(p)
                               /\ ConnectionLockable(c)
                               /\ ConnectionAllowed(c) => c \notin paused
        /\ standing[v] = "active" \/ Admits(p)
        /\ Reserve(p, Decision(p, TRUE))
        /\ standing' = [standing EXCEPT ![v] = "active"]
        /\ UNCHANGED replies

-----------------------------------------------------------------------------
(* The other operations of the accounts involved.                           *)

\* createSent of an envelope that allows a reply.
CreateSent(r) ==
    /\ Serving(Owner[r])
    /\ capability[r] = "none"
    /\ capability' = [capability EXCEPT ![r] = "available"]
    /\ UNCHANGED <<now, rights, claimant, inbox, received, work, visible, published, worker>>

Restand(a, s) ==
    /\ standing' = [standing EXCEPT ![a] = s]
    /\ UNCHANGED <<now, account, paused, replies, inbox, received, work, visible,
                   published, worker>>

\* appendAuthoritativeUpdate with status "revoked".
Revoke(g) ==
    /\ Serving(Owner[g])
    /\ standing[g] = "active"
    /\ Restand(g, "ended")

\* The owner's own disconnection writes the tombstone at once.
Disconnect(c) ==
    /\ Serving(Owner[c])
    /\ standing[c] \in {"active", "ending"}
    /\ Restand(c, "ended")

\* The peer disconnects.  The tombstone of a peer that lives here denies at once;
\* a remote peer's is at the coordinator until a live check stores it here.
PeerDisconnects(c) ==
    LET here == {d \in Peers[c] \cap Local : account[d] # "retired"}
    IN  /\ standing[c] = "active"
        /\ \A d \in here : Serving(d)
        /\ Restand(c, IF here = {} THEN "ending" ELSE "ended")

\* A check of an envelope being received or submitted finds the disconnection.
Learn(c) ==
    /\ standing[c] = "ending"
    /\ "no" \in LiveAnswers(c)
    /\ Restand(c, "ended")

\* changeConversationMembership: leave.
Leave(v) ==
    /\ Serving(Owner[v])
    /\ standing[v] \in {"active", "lapsed"}
    /\ Restand(v, "ended")

\* A membership expires 24 months after it was last renewed.
Lapse(v) ==
    /\ standing[v] = "active"
    /\ Restand(v, "lapsed")

\* Rejoining undoes leaving; only a revival renews an expired membership.
Renew(v) ==
    /\ Serving(Owner[v])
    /\ standing[v] \in {"ended", "lapsed"}
    /\ Restand(v, "active")

Repause(s) ==
    /\ paused' = s
    /\ UNCHANGED <<now, account, standing, replies, inbox, received, work, visible,
                   published, worker>>

\* A handover barrier of the connection's owner is frozen, then released.
Pause(c) ==
    /\ Serving(Owner[c])
    /\ c \notin paused /\ now <= LastDisturbance
    /\ Repause(paused \cup {c})

Resume(c) ==
    /\ Serving(Owner[c])
    /\ c \in paused
    /\ Repause(paused \ {c})

SetAccount(d, s) ==
    /\ account' = [account EXCEPT ![d] = s]
    /\ UNCHANGED <<now, standing, paused, replies, inbox, received, published, worker>>

\* MigrationFenceRepository.begin: a frozen barrier must be finished first.
Fence(d) ==
    /\ Serving(d)
    /\ now <= LastDisturbance
    /\ \A c \in paused : Owner[c] # d
    /\ SetAccount(d, "fenced")
    /\ UNCHANGED <<work, visible>>

Release(d) ==
    /\ account[d] = "fenced"
    /\ SetAccount(d, "active")
    /\ UNCHANGED <<work, visible>>

Retire(d) ==
    /\ account[d] = "fenced"
    /\ SetAccount(d, "retired")
    /\ UNCHANGED <<work, visible>>

\* AccountLifecycle.close: cancels the account's unfinished work and removes its
\* inbox.  It writes no publication row and leaves reply capabilities alone.
Close(d) ==
    LET mine == {k \in Keys : env[k] # NoPayload /\ Recipient(k) = d}
        cancelled == {k \in mine : Active(k)}
    IN  /\ Serving(d)
        /\ \A c \in paused : Owner[c] # d
        /\ SetAccount(d, "closed")
        /\ state' = [k \in Keys |-> IF k \in cancelled THEN "cancelled" ELSE state[k]]
        /\ reason' = [k \in Keys |-> IF k \in cancelled THEN "account-closed" ELSE reason[k]]
        /\ revision' = [k \in Keys |-> IF k \in cancelled THEN revision[k] + 1 ELSE revision[k]]
        /\ leaseToken' = [k \in Keys |-> IF k \in cancelled THEN 0 ELSE leaseToken[k]]
        /\ leaseUntil' = [k \in Keys |-> IF k \in cancelled THEN 0 ELSE leaseUntil[k]]
        /\ visible' = visible \ mine
        /\ UNCHANGED <<attempts, nextAttempt>>

\* Permanent deletion from the trash: the row goes, the replay key stays.
Remove(k) ==
    /\ k \in visible
    /\ Serving(Recipient(k))
    /\ visible' = visible \ {k}
    /\ UNCHANGED <<now, rights, replies, inbox, received, work, published, worker>>

Tick ==
    /\ now < MaxTime
    /\ now' = now + 1
    /\ UNCHANGED <<rights, replies, inbox, received, work, visible, published, worker>>

-----------------------------------------------------------------------------
(* DeliveryWorker.processOne over DeliveryRepository.                       *)

Leased(k) == Active(k) /\ leaseUntil[k] > now

\* Mutation: a lease that ran out is not taken over.
DueOnceLeased(k) ==
    /\ Active(k)
    /\ nextAttempt[k] <= now
    /\ leaseUntil[k] = 0
    /\ ~Fenced(Recipient(k))
    /\ \A j \in Keys : Leased(j) => Sender[j] # Sender[k]
    /\ Cardinality({j \in Keys : Leased(j) /\ Recipient(j) = Recipient(k)}) < RecipientLeases

\* The WHERE clause of claimDue; its ORDER BY is left open.
Due(k) ==
    /\ Active(k)
    /\ nextAttempt[k] <= now
    /\ leaseUntil[k] <= now
    /\ ~Fenced(Recipient(k))
    /\ \A j \in Keys : Leased(j) => Sender[j] # Sender[k]
    /\ Cardinality({j \in Keys : Leased(j) /\ Recipient(j) = Recipient(k)}) < RecipientLeases

\* The lease token is fresh, as the random UUID is: the attempt's number.
Claim(w, k) ==
    /\ pc[w] = "idle"
    /\ Due(k)
    /\ attempts' = [attempts EXCEPT ![k] = attempts[k] + 1]
    /\ leaseToken' = [leaseToken EXCEPT ![k] = attempts[k] + 1]
    /\ leaseUntil' = [leaseUntil EXCEPT ![k] = now + LeaseLength]
    /\ pc' = [pc EXCEPT ![w] = "checking"]
    /\ job' = [job EXCEPT ![w] = k]
    /\ token' = [token EXCEPT ![w] = attempts[k] + 1]
    /\ UNCHANGED <<now, rights, replies, inbox, received, state, reason, revision,
                   nextAttempt, visible, published>>

Expired(k) == now > Deadline[env[k]]

\* A worker's step that touches no row of the message.
Move(w, stage) ==
    /\ pc' = [pc EXCEPT ![w] = stage]
    /\ UNCHANGED <<now, account, paused, replies, inbox, received, work, visible,
                   published, job, token>>

\* Mutation: a check that could not be made counts as a denial.
AfterDenying(answer, granted, refused) == IF answer = "yes" THEN granted ELSE refused

\* The stage after an authority check; an exception puts the message on hold.
After(answer, granted, refused) ==
    IF answer = "yes" THEN granted ELSE IF answer = "no" THEN refused ELSE "holding"

CheckExpired(w) ==
    /\ pc[w] = "checking" /\ Expired(job[w])
    /\ Move(w, "expiring")
    /\ UNCHANGED standing

\* The check before retrieval.
CheckAuthority(w) ==
    /\ pc[w] = "checking" /\ ~Expired(job[w])
    /\ LET a == Cites[env[job[w]]]
       IN  \E answer \in AuthorityAnswers(a) :
             /\ Move(w, After(answer, "retrieving", "rejecting"))
             /\ ApplySnapshot(a, answer)

\* BodyRetriever.retrieve: success, a permanent failure or a retry.
Retrieve(w) ==
    /\ pc[w] = "retrieving"
    /\ \E stage \in {"authorizing", "failing", "holding"} : Move(w, stage)
    /\ UNCHANGED standing

\* deliver asks again before it opens its transaction.
Authorize(w) ==
    /\ pc[w] = "authorizing"
    /\ LET a == Cites[env[job[w]]]
       IN  \E answer \in AuthorityAnswers(a) :
             /\ Move(w, After(answer, "delivering", "denied"))
             /\ ApplySnapshot(a, answer)

Stop(w) ==
    /\ pc' = [pc EXCEPT ![w] = "idle"]
    /\ job' = [job EXCEPT ![w] = NoKey]
    /\ token' = [token EXCEPT ![w] = 0]

Committing == {"delivering", "denied", "expiring", "rejecting", "failing", "holding"}

\* lockClaim
OwnsClaim(w) == leaseToken[job[w]] = token[w] /\ Active(job[w])

\* deliver returns "lost-lease"; fail and hold return without a write.
LoseLease(w) ==
    /\ pc[w] \in Committing
    /\ ~OwnsClaim(w)
    /\ Stop(w)
    /\ UNCHANGED <<now, rights, replies, inbox, received, work, visible, published>>

OwnsCapability(k) ==
    LET r == Cites[env[k]]
    IN  r \in Replies => capability[r] = "claimed" /\ claimant[r] = k

\* A write to the message's rows raises for a fenced or closed recipient.
Writable(k) == Serving(Recipient(k)) /\ OwnsCapability(k)

\* Mutation: the capability is returned on every outcome.
FinishReleasing(k, s, why) ==
    LET r == Cites[env[k]]
    IN  /\ Writable(k)
        /\ IF r \in Replies
           THEN /\ capability' = [capability EXCEPT ![r] = "available"]
                /\ claimant' = [claimant EXCEPT ![r] = NoKey]
           ELSE UNCHANGED replies
        /\ state' = [state EXCEPT ![k] = s]
        /\ reason' = [reason EXCEPT ![k] = why]
        /\ revision' = [revision EXCEPT ![k] = revision[k] + 1]
        /\ leaseToken' = [leaseToken EXCEPT ![k] = 0]
        /\ leaseUntil' = [leaseUntil EXCEPT ![k] = 0]
        /\ published' = published \cup {k}
        /\ UNCHANGED <<now, rights, inbox, received, attempts, nextAttempt>>

\* finish: settle the reply capability, close the work, queue the status.
Finish(k, s, why) ==
    LET r == Cites[env[k]]
    IN  /\ Writable(k)
        /\ IF r \in Replies
           THEN /\ capability' = [capability EXCEPT ![r] =
                                    IF s = "delivered" THEN "consumed" ELSE "available"]
                /\ claimant' = [claimant EXCEPT ![r] =
                                    IF s = "delivered" THEN k ELSE NoKey]
           ELSE UNCHANGED replies
        /\ state' = [state EXCEPT ![k] = s]
        /\ reason' = [reason EXCEPT ![k] = why]
        /\ revision' = [revision EXCEPT ![k] = revision[k] + 1]
        /\ leaseToken' = [leaseToken EXCEPT ![k] = 0]
        /\ leaseUntil' = [leaseUntil EXCEPT ![k] = 0]
        /\ published' = published \cup {k}
        /\ UNCHANGED <<now, rights, inbox, received, attempts, nextAttempt>>

\* Mutation: the answer obtained before the transaction is trusted.
StillPermittedTrusting(a) == a \in Authorities

\* The standing permission under the locks of deliver's transaction.
StillPermitted(a) ==
    /\ a \in Connections => ConnectionAllowed(a)
    /\ a \in Conversations => ConversationAllowed(a)

\* The locks raise, or the barrier does: deliver throws and the worker holds.
DeliverRaises(w) ==
    LET k == job[w]
        a == Cites[env[k]]
    IN  \/ ~Writable(k)
        \/ /\ ~Expired(k) /\ a \in Connections /\ pc[w] = "delivering"
           /\ ~ConnectionLockable(a) \/ (ConnectionAllowed(a) /\ a \in paused)

DeliverThrows(w) ==
    /\ pc[w] \in {"delivering", "denied"}
    /\ OwnsClaim(w) /\ DeliverRaises(w)
    /\ Move(w, "holding")
    /\ UNCHANGED standing

DeliverFails(w) ==
    LET k == job[w]
    IN  /\ pc[w] \in {"delivering", "denied"}
        /\ OwnsClaim(w) /\ ~DeliverRaises(w)
        /\ \/ Expired(k) /\ Finish(k, "failed", "delivery-expired")
           \/ /\ ~Expired(k)
              /\ pc[w] = "denied" \/ ~StillPermitted(Cites[env[k]])
              /\ Finish(k, "failed", "receiver-policy-rejected")
        /\ Stop(w)
        /\ UNCHANGED visible

Deliver(w) ==
    LET k == job[w]
    IN  /\ pc[w] = "delivering"
        /\ OwnsClaim(w) /\ ~DeliverRaises(w) /\ ~Expired(k)
        /\ StillPermitted(Cites[env[k]])
        /\ visible' = visible \cup {k}
        /\ Finish(k, "delivered", "none")
        /\ Stop(w)

FailureReason(w) ==
    IF Expired(job[w]) \/ pc[w] = "expiring" THEN "delivery-expired"
    ELSE IF pc[w] = "rejecting" THEN "receiver-policy-rejected" ELSE "body"

Fail(w) ==
    /\ pc[w] \in {"expiring", "rejecting", "failing"}
    /\ OwnsClaim(w)
    /\ Finish(job[w], "failed", FailureReason(w))
    /\ Stop(w)
    /\ UNCHANGED visible

\* nextAttempt() is after now and at most one past the deadline.
Hold(w) ==
    LET k == job[w]
    IN  /\ pc[w] = "holding"
        /\ OwnsClaim(w)
        /\ \/ Expired(k) /\ Finish(k, "failed", "delivery-expired")
           \/ /\ ~Expired(k) /\ Serving(Recipient(k))
              /\ state' = [state EXCEPT ![k] = "on-hold"]
              /\ reason' = [reason EXCEPT ![k] = "retry"]
              /\ revision' = [revision EXCEPT ![k] = revision[k] + 1]
              /\ \E t \in (now + 1) .. (Deadline[env[k]] + 1) :
                   nextAttempt' = [nextAttempt EXCEPT ![k] = t]
              /\ leaseToken' = [leaseToken EXCEPT ![k] = 0]
              /\ leaseUntil' = [leaseUntil EXCEPT ![k] = 0]
              /\ UNCHANGED <<now, rights, replies, inbox, received, attempts, published>>
        /\ Stop(w)
        /\ UNCHANGED visible

\* fail or hold raises.  The rejection of the first check is inside a try whose
\* handler holds; every other raise ends processOne with the lease in place.
Raise(w) ==
    /\ pc[w] \in {"expiring", "rejecting", "failing", "holding"}
    /\ OwnsClaim(w) /\ ~Writable(job[w])
    /\ IF pc[w] = "rejecting"
       THEN Move(w, "holding") /\ UNCHANGED standing
       ELSE /\ Stop(w)
            /\ UNCHANGED <<now, rights, replies, inbox, received, work, visible, published>>

Crash(w) ==
    /\ pc[w] # "idle" /\ now <= LastDisturbance
    /\ Stop(w)
    /\ UNCHANGED <<now, rights, replies, inbox, received, work, visible, published>>

-----------------------------------------------------------------------------
Admit(p) ==
    \/ Receive(p) \/ Discard(p)
    \/ AcceptGrant(p) \/ AcceptReply(p) \/ AcceptConnection(p) \/ AcceptConversation(p)

Relate ==
    \/ \E r \in Replies : CreateSent(r)
    \/ \E g \in Grants : Revoke(g)
    \/ \E c \in Connections : \/ Disconnect(c) \/ PeerDisconnects(c) \/ Learn(c)
                              \/ Pause(c) \/ Resume(c)
    \/ \E v \in Conversations : Leave(v) \/ Lapse(v) \/ Renew(v)

Manage(d) == Fence(d) \/ Release(d) \/ Retire(d) \/ Close(d)

Step(w) ==
    \/ CheckExpired(w) \/ CheckAuthority(w) \/ Retrieve(w) \/ Authorize(w)
    \/ LoseLease(w) \/ DeliverThrows(w) \/ DeliverFails(w) \/ Deliver(w)
    \/ Fail(w) \/ Hold(w) \/ Raise(w)

Next ==
    \/ \E p \in Payloads : Admit(p)
    \/ Relate
    \/ \E d \in Movable : Manage(d)
    \/ \E k \in Keys : Remove(k)
    \/ Tick
    \/ \E w \in Workers : Step(w) \/ Crash(w) \/ \E k \in Keys : Claim(w, k)

Spec == Init /\ [][Next]_vars

-----------------------------------------------------------------------------
(* Properties.                                                              *)

TypeOK ==
    /\ now \in Nat
    /\ account \in [Local -> {"active", "fenced", "retired", "closed"}]
    /\ standing \in [Standing -> {"none", "active", "ending", "ended", "lapsed"}]
    /\ paused \subseteq Connections
    /\ capability \in [Replies -> {"none", "available", "claimed", "consumed"}]
    /\ claimant \in [Replies -> Keys \cup {NoKey}]
    /\ inbox \subseteq Payloads
    /\ env \in [Keys -> Payloads \cup {NoPayload}]
    /\ outcome \in [Keys -> {"none", "accepted", "unauthorized", "message-expired"}]
    /\ state \in [Keys -> {"none"} \cup Pending \cup Terminal]
    /\ reason \in [Keys -> Reasons]
    /\ revision \in [Keys -> Nat]
    /\ attempts \in [Keys -> Nat]
    /\ leaseToken \in [Keys -> Nat]
    /\ leaseUntil \in [Keys -> Nat]
    /\ nextAttempt \in [Keys -> Nat]
    /\ visible \subseteq Keys /\ published \subseteq Keys
    /\ pc \in [Workers -> Stages]
    /\ job \in [Workers -> Keys \cup {NoKey}]
    /\ token \in [Workers -> Nat]

\* The reply capability the message took, if it is an accepted reply.
Uses(k) ==
    IF outcome[k] = "accepted" /\ Cites[env[k]] \in Replies THEN Cites[env[k]] ELSE NoReply

\* A reply capability is spent by at most one delivery, whatever replies were
\* accepted, held, failed and resubmitted on it (acceptWithinBudget, finish).
SingleUse ==
    \A j, k \in Keys : /\ state[j] = "delivered" /\ state[k] = "delivered"
                       /\ Uses(j) = Uses(k) /\ Uses(k) # NoReply
                       => j = k

\* An unfinished reply holds its capability, so finish never throws for want
\* of it and no second reply is accepted meanwhile; a capability that is
\* claimed belongs to an unfinished reply, unless its owner closed the account.
CapabilityHeld ==
    /\ \A k \in Keys : Active(k) /\ Uses(k) # NoReply =>
         capability[Uses(k)] = "claimed" /\ claimant[Uses(k)] = k
    /\ \A r \in Replies : capability[r] = "claimed" =>
         /\ claimant[r] \in Keys /\ Uses(claimant[r]) = r
         /\ Active(claimant[r]) \/ account[Owner[r]] = "closed"

\* A message is readable only when its work says delivered, and every delivery
\* and failure has its status queued for the sender (deliver, finish).
VisibleAndPublished ==
    /\ \A k \in visible : state[k] = "delivered"
    /\ \A k \in Keys : state[k] \in {"delivered", "failed"} => k \in published
    /\ \A k \in published : state[k] \in {"delivered", "failed"}

\* A reply that overtakes the introduction of its conversation does not use up
\* its message ID: the exact retry can still be accepted
\* (envelopes/repository.ts accept).
UnknownMembershipUnreserved ==
    \A k \in Keys : outcome[k] = "unauthorized" => Cites[env[k]] \notin Conversations

\* The outstanding and the rejected budgets hold across concurrent admissions
\* (admission.ts, acceptWithinBudget).
WithinBudgets ==
    LET queued == {k \in Keys : Active(k)}
        refused == {k \in Keys : Rejected(k)}
    IN  /\ Cardinality(queued) <= PendingProvider
        /\ Cardinality(refused) <= RejectedProvider
        /\ \A d \in Dids :
             /\ Cardinality({k \in queued : Sender[k] = d}) <= PendingSender
             /\ Cardinality({k \in queued : Recipient(k) = d}) <= PendingRecipient
             /\ Cardinality({k \in refused : Sender[k] = d}) <= RejectedSender

\* No sender occupies more than one worker, no recipient more than two.
LeaseCaps ==
    \A d \in Dids :
        /\ Cardinality({k \in Keys : Leased(k) /\ Sender[k] = d}) <= 1
        /\ Cardinality({k \in Keys : Leased(k) /\ Recipient(k) = d}) <= RecipientLeases

\* Every limit the provider sets for the number of rows it keeps and of leases it gives
\* out holds at once, whichever admissions and claims overlap (admission.ts, claimDue).
\* The limits in bytes beside them are not modelled.
WithinLimits == WithinBudgets /\ LeaseCaps

\* A finished message keeps its state, reason and revision, and one that is not
\* readable then never becomes so: retries, late workers and resubmissions
\* neither redeliver nor resurrect it.  The payload that took a key keeps it.
FinalStays ==
    [][\A k \in Keys :
         /\ state[k] \in Terminal =>
              /\ state'[k] = state[k] /\ reason'[k] = reason[k]
              /\ revision'[k] = revision[k]
              /\ k \in visible' => k \in visible
         /\ env[k] # NoPayload => env'[k] = env[k] /\ outcome'[k] = outcome[k]]_vars

\* A worker whose lease was taken over by a later claim ends without a change
\* to the message, however late it comes back (lockClaim).
LateWorkerHarmless ==
    [][\A w \in Workers :
         /\ pc[w] \in Committing /\ pc'[w] = "idle"
         /\ token[w] < attempts[job[w]]
         => UNCHANGED <<work, replies, visible, published>>]_vars

\* A message becomes readable only at or before its deadline, for an account
\* that serves, and while the standing permission it cites is in force and not
\* paused at that very step, whatever the earlier checks answered (deliver).
DeliveredUnderAuthority ==
    [][\A k \in Keys : k \in visible' \ visible =>
         LET a == Cites[env[k]]
         IN  /\ now <= Deadline[env[k]]
             /\ account[Recipient(k)] = "active"
             /\ a \in Connections => standing[a] \in {"active", "ending"} /\ a \notin paused
             /\ a \in Conversations => standing[a] = "active"]_vars

\* What the provider promises of each key (DeliveryContract).
Contract == INSTANCE DeliveryContract WITH uses <- [k \in Keys |-> Uses(k)]

\* Admission, worker and fence implement what DeliveryContract promises a sender
\* (envelopes/repository.ts, delivery/repository.ts).
ImplementsContract == Contract!Spec

\* An accepted message is refused by policy only for a definite reason: the grant
\* or the reply capability it cites was settled at admission and is not asked again,
\* whatever was revoked since, and a connection message is refused only after its
\* connection ended; a pause or an unanswered check only holds it (worker.ts processOne).
RejectionIsDefinite ==
    \A k \in Keys : reason[k] = "receiver-policy-rejected" =>
        LET a == Cites[env[k]]
        IN  a \in Connections \cup Conversations
            /\ (a \in Connections => standing[a] \in {"ending", "ended"})

-----------------------------------------------------------------------------
(* Liveness.  Time passes; the polling loop of index.ts claims due work and *)
(* runs every claim to its end; nothing else is assumed to happen.          *)

Fairness ==
    /\ WF_vars(Tick)
    /\ \A k \in Keys : WF_vars(\E w \in Workers : Claim(w, k))
    /\ \A w \in Workers : WF_vars(Step(w))

LiveSpec == Spec /\ Fairness

\* Every accepted message is finished, or its account is being moved away:
\* crashes, lost leases, holds and raised fences only delay it (claimDue, finish).
AcceptedFinishes ==
    \A k \in Keys : Active(k) ~> (~Active(k) \/ Fenced(Recipient(k)))

=============================================================================
