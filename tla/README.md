# A verification project for Hail

Hail is a federated messaging protocol; this repository holds its reference
provider (`apps/server`, TypeScript on Bun and PostgreSQL), a command line
(`apps/cli`, Rust), a web client, a PLC monitor with its alert worker and the
codecs. The modules here model the provider's core logic, the monitor, and the
parts of the command line that keep a state file of their own: what is correct there depends on orderings no unit test
writes down. Several worker processes share tables through leases; permissions
are withdrawn while a message waits; accounts move, close or change their key
under running work; peers and the PLC directory answer late, twice or never.

## Inventory of the system

Paths are relative to `src/apps/server/src` unless they begin with `apps/`.

| Part | State it keeps | Operations | What it must guarantee | Module |
|---|---|---|---|---|
| Envelope admission (`envelopes/`) | `received_envelopes`, `sent_envelopes`, `reply_capabilities` | `receive`, `accept` per authorization type, `createSent`, `submitEnvelope` | a key is decided once; budgets hold across processes; a reply capability is claimed once | `Delivery` |
| Delivery worker (`delivery/worker.ts`, `repository.ts`, `retriever.ts`) | `delivery_work`, `delivered_messages`, `delivery_scheduling` | `claimDue`, `deliver`, `fail`, `hold` | one terminal state; nothing readable without permission at the commit; late workers harmless; everything ends | `Delivery` |
| Status flow (`delivery/status*.ts`) | `delivery_status_payloads`, `terminal_status_publications`, `sent_delivery_status` | `signCurrent`, `publishOne`, `receive`, `apply` | one payload per revision; the sender's view is authentic and never goes back; it converges | `StatusFlow` |
| Grants (`grants/`, `apps/cli/src/grants.rs`) | `grant_lineages`, `grant_revisions`, `grant_publications`, on both sides | review, approve, commit, publish, accept | one chain of revisions on both sides; consent for what is permitted; revocation arrives | `Grants` |
| Connections (`accounts/connection-*.ts`, `connections.ts`) | pairs, events, attempts, tombstones, outbox, codes | create code, review, confirm, admit, connect, replicate, disconnect | both sides agree per epoch; no connection without fresh consent; a disconnection arrives | `Connections` |
| Connection history (`migration/connection-*.ts`) | exported history, frontier, handover plan | export, verify, freeze, commit, complete, abort | every history the federation can make can be moved | `ConnectionHistory`, `Transfer` |
| Transfer between providers (`migration/`, `apps/cli/src/transfers.rs`, `cutover.rs`) | authorizations, fences, exports, staged imports, receipts, the owner's state file | offer, fence, export, import, cut over, activate, retire, cancel, abort, return | one provider serves an account; nothing is lost; a move ends | `Transfer`, `AccountMove` |
| Transfer in managed custody (`migration/managed-*.ts`) | the same, with approvals and worker leases | the same, with drained workers and re-signed grants | a grant's lineage never forks between two signers | `ManagedTransfer`, `AccountMove` |
| Signup and access (`onboarding/`, `accounts/passkeys.ts`, `access.ts`) | admissions, ceremonies, accounts, passkeys, sessions | advance, register, activate, enroll, revoke, authenticate | one genesis; setup authority ends with its use; the owner is not locked out | `Signup` |
| Command line: create, login, credentials (`apps/cli/src/account_create.rs`, `account_access.rs`, `credentials.rs`) | state files, vault, API credentials | create, login, rotate | an interrupted command can be run again; rotation leaves a working credential | `CommandLine` |
| Custody (`accounts/custody-transition.ts`, `plc/`, `apps/cli/src/custody.rs`) | preparations, account keys, resolution evidence, vault | review, prepare, record, send, confirm, materialize | the key PLC names is held by the right party; grants follow it; a recorded change ends | `Custody` |
| Mailbox (`accounts/drafts.ts`, `attachments.ts`, `publications.ts`, `message-trash.ts`, `bodies/`) | drafts, uploads, blobs, bodies, batches and targets, trash | save, publish, fan out, cancel, deliver, trash, purge, collect | a kept message can be read and moved; a batch's report is true and complete | `Mailbox` |
| Conversations (`accounts/conversation-*.ts`) | descriptors, memberships, revival receipts | admit, leave, rejoin, revive, prune | leaving is respected; expiry is not undone by traffic | as `Delivery` meets them |
| Account closure (`accounts/lifecycle.ts`) | account rows | close | nothing is delivered to a closed account | as `Delivery`, `StatusFlow`, `Grants` meet it |
| Domains (`accounts/custom-domains.ts`, `standalone-domains.ts`) | domain claims | claim, withdraw | - | - |
| HTTP guards (`http/`) | in-flight counters, rate windows | `run`, `take` | bounded occupancy | - |
| PLC monitor (`apps/plc-monitor/src`, `apps/plc-monitor/deploy/cloudflare-alert-worker/worker.ts`, `migration/monitor-attestation.ts`) | followed identities, retained log, reports, approvals, the worker's claims | enroll, poll, approve, notify, mail, attest | every operation is reported; an attestation means what it says | `Monitor` |
| Security email (`apps/plc-monitor/deploy/cloudflare-alert-worker/signup-email.ts`, `onboarding/email.ts`) | the code of a signup, the bound address | send, verify, bind, prune | notices go to an address its owner has read mail at | `SecurityEmail` |
| Discovery, profiles, operator views, web client, codecs | caches, signed documents | - | mostly pure functions and I/O | - |

Interaction: a sender's provider POSTs a signed envelope; the recipient's
provider authenticates it, decides it in one transaction under a global advisory
lock, and queues `delivery_work`. Worker slots of every process poll the table.
A terminal state queues a publication, which another polling loop PUTs to the
sender's provider. Grants, connections and memberships are read by admission and
delivery and changed by their own handlers, which keep a copy at the peer's
provider by at-least-once exchanges. A batch an account publishes becomes one
envelope per recipient through a fan-out worker. The migration fence, the
custody fence and account closure act on everything through row locks on
`provider_accounts` and triggers (`hail_assert_unfenced_account`) that make any
later write raise. The PLC directory is the one arbiter between providers: which
of them serves an account and which key signs for it is what its log says.

What is hard: workers act across three or four transactions with network calls
between them; claims are leases; permissions are checked outside and again
inside the committing transaction; a raised trigger turns into different
outcomes depending on where it is raised; publications and replications may be
lost, duplicated or overtaken; moves and custody changes are decided by parties
that read the directory at different times, from a reader that may lag, after a
write whose answer was lost; and the command line may be interrupted between any
two of its files and calls. `PROJECT.json` lists these hazards at their lines.

## Modules

| Module | Role |
|---|---|
| `Delivery` | admission, reply capabilities, the delivery worker, and the permission, fence and closure operations they race with |
| `DeliveryContract` | what the provider promises about a replay key, with no workers, clocks or permissions; `Delivery` implements it |
| `DeliveryProofs` | TLAPS proofs about `Delivery` |
| `StatusFlow`, `StatusProofs` | how the sender learns the outcome: signer, submission answers, publishers with leases, the channel, the receiver; its proofs |
| `Grants`, `GrantsProofs` | the lineage of a grant at both providers; its proofs |
| `Connections` | one pair of accounts at two providers |
| `ConnectionHistory` | extends `Connections` with the checks a moving account's history must pass |
| `ConnectionProofs` | TLAPS proofs about `Connections` and `ConnectionHistory` |
| `Transfer` | the move of one account between providers, with the owner's state file and the peer's handover barrier |
| `ManagedTransfer` | extends `Transfer`: the same exchange when the provider holds the identity key |
| `AccountMove` | an account's move under either custody: `Transfer` or `ManagedTransfer`, and the fairness of both |
| `MoveProofs` | its proofs |
| `Signup` | an account from its first request to its passkeys |
| `CommandLine` | extends `Signup` with the owner's command line as a second client of the same provider |
| `Custody`, `CustodyProofs` | the identity key between owner and provider, with the directory's log; its proofs |
| `Mailbox`, `MailboxProofs` | drafts, files, batches, the fan-out, a local mailbox, the trash and the collectors; its proofs |
| `SecurityEmail` | the proof of the address that receives the monitor's notices |
| `Monitor` | extends `SecurityEmail`: polls, reports, notices and attestations about one account's PLC log |
| `IdentityProofs` | TLAPS proofs about an account's identity: `Monitor`, and `CommandLine` with `Signup` |
| `MCReply`, `MCStanding`, `MCStatus`, `MCGrants`, `MCConnections`, `MCMove`, `MCSignup`, `MCCustody`, `MCMailbox` | instances for TLC (`Monitor` is one itself, with `MCMonitor.cfg`) |

In every module one database transaction is one action, and a handler that works
across several is several actions with its local variables in the state. A
definition written just before another, with "Mutant" in its comment, is a
plausible bug of the definition after it; no specification uses it.

### Delivery

One database transaction is one action. State that lives in tables is a function
of the key (`env`, `outcome`, `state`, `reason`, `revision`, `attempts`,
`leaseToken`, `leaseUntil`, `nextAttempt`), of the reply (`capability`,
`claimant`) or a set of keys (`visible` for `delivered_messages`, `published`
for `terminal_status_publications`). A request between `candidate()` and
`accept()` is a member of `inbox`, so everything another handler may do in
between happens. A worker is `pc`, `job`, `token`: the local variables of
`processOne`. `Crash` loses them and nothing else.

- Admission: `Receive` is `EnvelopeReceiver.receive` up to `accept`;
  `AcceptGrant`, `AcceptReply`, `AcceptConnection` and `AcceptConversation` are
  the four branches of `acceptWithinBudget`; `Discard` is every path that writes
  no row. `Reserve` is `insertReceived` with its budget check.
- Permission: `standing` holds the state of a grant, a connection or a
  conversation membership. `ConnectionAllowed` and `ConnectionLockable` are the
  two forms of `hail_connection_message_permission`: the first only reads and
  answers, the second locks both accounts and raises. `LiveAnswers` is what
  `ConnectionMessagingAuthority.live` may answer; a coordinator that cannot be
  reached makes it throw. A disconnection known to the coordinator only is
  "ending".
- The worker: `Claim` (`claimDue`), `CheckExpired`/`CheckAuthority`, `Retrieve`,
  `Authorize` (the check in `deliver` before its transaction), then one of
  `Deliver`, `DeliverFails`, `DeliverThrows`, `Fail`, `Hold`, `LoseLease`,
  `Raise`. `Finish` is `finish` whole: capability, work row and publication row.
- The rest: `Fence`, `Release`, `Retire`, `Close`, `Remove`, `Revoke`,
  `Disconnect`, `PeerDisconnects`, `Learn`, `Pause`, `Resume`, `Leave`, `Lapse`,
  `Renew`, `CreateSent`, `Tick`.

Abstractions. Payloads are names; signatures, digests and PLC evidence are
assumed to have been checked (`external`). Time is a small counter; a hold's
retry time is any later instant up to one past the deadline, which covers the
backoff and `Retry-After`. The lease token is the attempt number, fresh like the
random UUID. `claimDue`'s ORDER BY is left open: any due row may be claimed.
Of the limits the counts are modelled; the byte budgets beside them are left out. Serving
generations (return moves) and the custody-transition fence are left out: both
only make `hail_assert_unfenced_account` raise more often.

### DeliveryContract

Per key: none, accepted, any number of on-hold, one terminal state; one revision
per transition; visible only in the step that delivers; a reply capability held
by at most one unfinished message, consumed by delivery, returned by failure;
publication queued in the same step. `Delivery` implements it under
`uses <- [k \in Keys |-> Uses(k)]`, everything else having the same name.

### StatusFlow

One recipient account, one sender account and the messages between them. The
`delivery_work` row moves as `DeliveryContract` allows (`Hold`, `End`, `Close`,
acceptance in `Arrive`); what is modelled here is what happens to snapshots of
it. An actor is a submission (`submitEnvelope` with the handler that answers it)
or a run of `publishOne`, with the local variables of its code: `pc`, `task`,
`token`, `snap`, `reply`.

- `Read` and `Store` are the two halves of `signCurrent`: the row is read in one
  statement and the payload stored in a later transaction, after key resolution
  and signing; the row may have advanced between them. `Storable` is the
  comparison with the payload stored for that revision and the trigger that
  raises for a fenced or closed account. `Break` is every way to lose the answer.
- `Verdict`, `News` and `Apply` are `DeliveryStatusReceiver.receive` and
  `apply`; `reachable` stands for the checks that answer "unknown" (resolution,
  service base, the sender's own fence).
- `Claim`, `Push`, `Delay`, `Finish`, `FinishNothing`, `Crash` are `publishOne`.
  `Push` may lose its answer; `Delay` leaves a request under way after its
  publisher stopped waiting, delivered by `PushLate` or lost. A retry time is any
  later instant up to the horizon, which covers the backoff and `Retry-After`.
- `applied` is a history variable: it counts stored snapshots so that the audit
  gap can be compared with what was really missed.

### Grants

`lineage` is the grantor's chain, `received` the grantee's copy, `pub` one
publication per revision. A digest stands for the chain it ends, so a
representation is the sequence of bodies from revision 1 and "the predecessor's
digest" is that sequence without its last body. An actor is a browser session
(review, then `GrantPermissions.commit` in its three steps `CommitReads`,
`CommitWrites`, `CommitSaves` under the provider-wide advisory lock) or the
command line, which saves a signed revision before it submits it
(`CliSaveBase`, `CliUpdate`, `CliRevoke`, `CliSubmitted`). `Claim`, `Finish`,
`TimeOut` and `PublisherCrash` are `publishOne`; `LeaseRunsOut` is a lease that
ends under a living publisher, `LeaseOfTheDead` under a dead one.
`Authenticate`, `ReadCurrent`, `Accept`, `DeadlinePasses` and `DropAnswer` are
the receiver, whose generic answer at the deadline leaves its work running. With
both identities at one provider (`collocated`) the receiver writes into the same
tables (`held`). A publisher's outcome is not written while the account is fenced:
the trigger raises and the lease runs out (`Finished`). Signatures, timestamps and
the expiry of a grant are left out;
a consent is the version of the profile that its hashes commit to.

### Connections and ConnectionHistory

The provider of the smaller DID coordinates. `history` is its one event per
epoch, `result` what it answered each request; `pair`, `tomb`, `attempt` and
`leaving` are the rows of both sides, `stale` the codes and reviews older than a
side's cutoff. One worker per side takes an attempt, a disconnection or (at the
coordinator) a replication, sends a request and waits (`SendAdmit`,
`SendCommit`, `SendDisconnect`, `SendSync`); `HandleAdmit`, `Admit`,
`HandleCommit`, `HandleDisconnect`, `HandleSync` and `Sync` are the handlers;
the `Take` actions apply an answer; `Defer` gives up waiting while the request
may still be handled. `Observe` is the reading of the coordinator's state by the
other side. A second device may repeat a disconnection that another has begun. A
connection ID is named by the epoch it is activated in.

`ConnectionHistory` adds no action. It states what `validateConnectionHistory`,
`verifyConnectionHistoryAuthority`, the drain check of the fence and
`connectionFrontier` compute from those rows: a check that some legal sequence
of exchanges could never pass would keep the account where it is.

### Transfer, ManagedTransfer and AccountMove

`home` and `head` are the PLC directory. Each provider has its serving
generation, its fence, its authorization, its invitation slot and its staged
imports; `hold` and `journal` are the two ends of the connection handover with
one peer. Messages stay on the wire and may be taken any number of times, late
or never. `file` is the owner's state file: every intent is signed once, saved
and from then on repeated. `Client`, `Handshake` and `Move` are the owner's
commands, the exchange up to the fence, and export, staging, cutover; `Finish`
is what a retry of the completion still has to do; `MarkCancelled` and `Undo`
the abort after the fence; `Cancel` and `ReceiveCancellation` the one before it.
`Submit` may leave a PLC write without an answer (`delayed`), which `PlcApplies`
carries out later, after whatever the providers did meanwhile. `AdmitJob` and
`RunJob` are work admitted under a serving generation (migration 0037);
`OwnOperation` is a PLC operation of the owner from elsewhere.

`ManagedTransfer` replaces the steps in which managed custody differs: the
owner's approval (`Approve`, `ApprovalLapses`), the drained workers and
acknowledged grants that the fence asks for (`BeginManagedFence`), and
activation, which signs a successor of every active grant (`ActivateManaged`).
One grant stands for all. The rest is `Shared` with `Transfer`.

`AccountMove` is the system that is run and proved about: the account's custody
is chosen at the start and decides which of the two serves it.

### Signup and CommandLine

A controller is one call of `SignupCoordinator.advance` (or of the command
line's onboarding route, which has neither ceremony nor lock). `Advance` takes
the advisory lock; `Store` to `Issue` are its steps, each its own transaction.
Activation is two of them: the fence of the address with its fresh look at the
monitor's evidence (`EnterActivation`), which is refused if that has changed, and
`BeginActivation`.
`Disconnect` loses the database connection that holds the lock while the call
runs on through the pool; `Crash` loses the call; `SentUnknown` is a submission
without an answer, `Land` its effect. `Access` is what follows: owner proofs,
enrollment, sign-in, revocation in its two steps, completion.

`CommandLine` adds the state files of `account create`, `account login` and
`credentials rotate`, the vault and the credential table. Every save and every
call is a step; an interruption is a behaviour in which the next step comes
later, and an answer may be lost after the provider acted. The passkeys of an
account made from the command line and the thirty days after which a credential
expires (`accounts/repository.ts:65`, `:136`) are left out: `SetupAuthorityEnds`
speaks of browser ceremonies, and `KeepsAccess` of revocation, not of age.

### Custody

`plc` is the directory's log, `shown` how much of it the configured reader
shows, `retained` how much the resolver has evidence of; the resolver refuses a
reader that shows less (`Resolves`). `open` is the unfinished preparation, whose
existence fences every other writer (`Writable`). `ReviewOwner`,
`ReviewManaged`, `Prepare`, `Record`, `Look`, `Send`, `Sent`, `Confirm` and
`Materialize` are the calls of the server, two at a time, and `Abandon` a call
that ends early, for whatever reason; `ReplaceVault`, `SaveState` and `Finish` the
command line with its two files; `Issue`, `Change`, `Store` and `Acknowledge` the
grants signed and stored meanwhile; `Publish` and `EndPublication` a publication to
a category (`publishing`), which stops the new generation while it is pending
(migration 0061:82); `OwnOperation` an operation the owner signs with the recovery
key elsewhere; `FailOver` a reader that falls behind. The published binding
(`custody-transition.ts:337-339`) and the monitor's evidence (`:389-390`) are taken
to be there; what `materialize` changes besides keys, grants and generation
(`:426-436`: credentials, worker leases, invitations, pair generations) no step of
the module reads.

### Mailbox

One account composes and one recipient keeps its mailbox on the same server.
All messages carry the same body and file, because sharing is what the
collectors can get wrong. `Save`, `SaveElsewhere`, `OpenDraft`, `Publish`
(`CreateCategory`, `CreateConnections`, `CreateSharedBatch`, `ReplyConversation`),
`Cancel` and `Expire` are the owner's routes and the deadline; `Pick`,
`Compose`, `Submit` and `Record` one round of the fan-out worker under its lock;
`LoseLock` the loss of the reserved connection that holds it. `Compose` is `send`
with the calls it makes: `PublishBody`, `CreateSigned`, or `Refused`. `Deliver`,
`Remove`, `Restore`, `Empty`, `SaveSettings` are the mailbox with its trash;
`Purge`, `CollectShared`, `CollectBlob` the collectors. `BodiesFit`,
`AttachmentsFit` and `TargetsFit` are the checks the account's export is
subjected to by `migration/transfer.ts`.

`PrepareCustody` and `CompleteCustody` raise and lift the custody fence over the
composing account (`fenced`; `Custody` models the transition itself). Under it
every write of the account's rows raises (`Writable`): uploads, drafts, batches,
cancellations, the sweep of the deadline and the record of an outcome; the purge
stops at the account's turn, and what it collects provider-wide waits
(`PurgeStops`). The preparation may begin while a publication to a category is
pending; it cannot complete then, and the publication cannot end (see the
observations). The disposition of sent items (`clearSent`, `restoreSent`) is left
out, since it hides rows and removes none; so is the cancellation of pending
targets by account closure (`accounts/lifecycle.ts:77-78`), after which nobody
can ask for their status.

### SecurityEmail and Monitor

The directory's log is the sequence of its operations' predecessors; a view is a
prefix of it, named by its length, and `Nullified` and `Disposition` say what a
view makes of an operation. `Operate` appends. `Enroll`, `ApproveExpected`,
`Attest` and `AttestOnboarding` are the monitor's calls; `PollHealthy`,
`PollUnavailable` and `PollInvalid` the three outcomes of a poll, which records
its reports in the transaction that retains the log; `RelyOnMove` and
`RelyOnOnboarding` a provider's check of a signed attestation
(`monitor-attestation.ts`), for five minutes after it was signed in either
case (`cutover-gate.ts:71`, `:125`, `public-cutover-evidence.ts:59`); for a move
the reviewed checkpoint must lie before the operation in its log
(`Checkpointed`). A notice is an attempt of the notifier (`Claim`) handled by the alert worker (`Refuse`, `Repeat`, `Accept`, `Mail`, `RecordMail`,
`MailFails`, `GiveUp`), whose answer may be lost (`Lose`). `SecurityEmail` is the
signup of the address before a provider may enroll the account: a code is named
by the send that made it, and `hosted` tells whether providers enroll at all.

Abstractions: a poll takes no time, since the account's row is locked for its
length; only reports about operations and onboarding (`Followed`) are posted,
because no property reads the notices of the others; `MaxOutages` bounds failed
polls and `MaxNotices` the reports that attempts are about. `worst` is a history
variable, the longest silence between two healthy polls.

## Runs

Every run but the last passes. A run explores the whole state space of its
instance.

| Run | Question | Bounds |
|---|---|---|
| `replies` | two replies and a conflicting resubmission compete for one capability: spent once (`SingleUse`), `DeliveryContract` implemented (`ImplementsContract`), everything ends (`AcceptedFinishes`) | 1 worker that may crash, clock 0..3, lease 1, deadlines 1 and 2: a lease can end twice before a deadline; fences, closure and crashes begin up to time 1 |
| `moving` | conversation messages, one introduced by a connection, between local accounts that each may be fenced, released, retired, closed: `DeliveredUnderAuthority` (for connection messages and paused connections it rests on the theorem `DeliveryIsAuthorized`) | 2 workers (symmetric), clock 0..3 |
| `standing` | permissions withdrawn while messages wait, at the count budgets: `RejectionIsDefinite`, `WithinLimits` | 3 messages of 2 senders; 2 may be outstanding, 1 rejected per sender, 2 altogether; the caps per recipient do not bind (`LimitsHold` covers them); no account moves (see the observations) |
| `status` | the sender's view: `AuthenticView`, `GapIsExact`, `AckIsTruthful`, `BlockedOnlyAtTheEnd`, `PublicationEnds` | 1 message, 1 submission, 2 publishers, 3 revisions, lease 1, horizon 1 |
| `grants` | one lineage on both sides: `ReceivedIsPrefix`, `AcknowledgedIsHeld`, `ConsentCovers`, `ReviewedSuccessor`, `RevocationReaches` | a browser and a command line, 2 categories, 2 profile versions, 1 publisher, 2 requests in hand, 2 revisions, one fault of seven kinds |
| `connections` | agreement of the two sides: `EpochsAgree`, `FreshConsent`, `HistoryMoves`, `DisconnectReaches` | 2 requests and 2 codes, one of each side, 4 epochs: connect, disconnect, connect again, disconnect; one fault |
| `move` | the move, in either custody: `SingleServer`, `NothingLost`, `CancellationIsFinal`, `StaleJobNeverWrites`, `Settles`, and the grant under a moving key: `OneSignerPerRevision`, `SuccessorFits` | 2 providers, 2 transfers (there and back, or a cancelled one and another), 1 mail, 2 revisions by the owner, one of: the owner's own PLC operation, a lapsed assessment, a deletion, a delayed PLC write, a lapsed approval |
| `monitor` | does the monitor report all it retained, and does an attestation mean what it says: `ReportsAreComplete`, `AttestationIsEarned` | a log of 3 operations (one may make another void), 3 ticks, lost coverage after 1, freshness within the tick, 2 attempts about 1 report, 1 failed poll, 1 mailed code |
| `signup` | `OneGenesis`, `KeepsAccess`, `SetupAuthorityEnds`, `SignupFinishes` in the browser and from the command line | 2 overlapping calls, 2 operations, 2 passkeys, 2 rotations, one fault of five kinds |
| `custody` | `IdentityIsHeld`, `ManagedGrantsFollow`, `RecordedFinishes` | 2 calls, 2 grants, 3 keys, 3 generations: to the provider and back; one grant signed and publications to a category begun meanwhile, one fault of five kinds |
| `mailbox` | `MailboxIsWhole`, `AcceptedStaysSendable`, `OutcomeIsTruthful`, `FanoutEnds` | 1 batch to 2 recipients, one local, and an earlier message with the same body; one lost lock; the custody fence at any time |
| `custody_grants` (violation) | does every active grant follow the key to the owner (`GrantsFollow`)? | as `custody`, without faults |

Why the bounds are enough. The agreements are between two copies, two calls or
two holders of one lease, and a third adds an order of the same kind. Two
transfers, two connections or three custody generations are what it takes for
something of an earlier round to arrive in a later one. One fault at a time keeps
every recovery path reachable: lost answers, retries, late requests and
abandoned state files need no fault at all where the wire keeps what was sent
and a step may simply never come. `LastDisturbance` bounds the time up to which
fences, barriers and crashes begin in `Delivery` and `StatusFlow` and leaves a
suffix in which a promise can be kept. In `monitor`, three operations are what it
takes for a recovery to void an operation between two polls, and three ticks for
a silence longer than a day to lie between two healthy ones. Deadlock checking is
off because a provider with nothing left to do stops; the monitor would not, but
its clock ends.

### Fairness

Liveness is checked under what the loops of `index.ts` and a persistent owner
provide, and nothing is assumed of faults, fences or owners who change their
mind.

- `Delivery`: time passes; due work is claimed, because eight slots per process
  poll every 250 ms and `claimDue` prefers the parties served longest ago; a
  claimed job runs on, because each call in it has a timeout. `AcceptedFinishes`
  excludes accounts whose fence stands: their work waits or leaves with the
  export.
- `StatusFlow`: the same of the status loop, every five seconds. Every answer may
  be lost. `PublicationEnds` excludes an account whose fence stands.
- `Grants` (`Serving`): each grant is claimed again and again, strongly fair
  because `claimDuePublication` takes the earliest `next_attempt_at` and a retry
  pushes it back; publishers and receivers come to their end; leases of the dead
  run out.
- `Connections` (`Working`): an exchange that is waited for and not lost is
  answered and its answer taken; disconnections and replications are sent with
  strong fairness, because the worker takes due jobs in the order of their
  failures so far. Nothing is assumed of a request nobody waits for.
- `AccountMove`: the owner's client repeats a completion or a cancellation once it
  is begun (`MoveFinishes`, `MoveUndone`), as `transfers.rs` and `cutover.rs` do
  when run again. `Settles` excepts what a delayed directory write overtakes and,
  after the cutover, an operation the owner makes outside the move
  (`activation.ts:134`, `:193`).
- `CommandLine`: the browser calls `advance`, and the owner runs `account create`,
  until it succeeds; a call runs on; what was sent to the directory arrives. The
  browser's stored operation is brought with strong fairness, since the lock may
  be taken in between.
- `Custody`: the owner repeats an approved commit; a call runs on; the directory
  takes what it is sent and its reader catches up. `RecordedFinishes` speaks of a
  transition that nothing obstructed when it was prepared (`Unobstructed`); the
  theorem `TheFenceHolds` shows that nothing can obstruct it later.
- `Mailbox`: a worker that picked a target goes on, deadlines pass, and the worker
  sweeps what is past its deadline before it picks anything else
  (`publications.ts:271-284`). The queue is the provider's: weak fairness of
  `Expire` assumes that no other account is fenced with an overdue publication at
  its head, since that row would raise and keep its place. For the account itself
  `FanoutEnds` excludes a publication to a category that its custody change froze.

## Findings

`custody_grants`: `prepareOwner` (`accounts/custody-transition.ts:153`) reads the
active grants to be re-signed before its transaction, and the transaction checks
the managed key again and not the grants. A grant issued in between gets no
successor and stays active under the key the transition retires. The other
direction reads the grants inside its transaction; `ManagedGrantsFollow` shows
that it is right.

### Observations

What the models showed beside the runs, and where a property makes an exception
for it. None of these is a run of its own.

- Closure: `AccountLifecycle.close` (`accounts/lifecycle.ts:80`) cancels pending
  work without a publication, while `spec/delivery-state.md:481` has every
  terminal status pushed.
- Fenced local sender: the unlocked permission function reads a local sender's
  temporary migration fence as a denial (migration 0072:36 against 0068:96), so
  `delivery/worker.ts:24` fails a connection message for good, although
  `spec/delivery-state.md:172-174` reserves that for a definite denial and puts a
  message on hold while the authority is unavailable. `RejectionIsDefinite` is
  therefore checked in the run in which no account moves.
- First hold: the receiver refuses an on-hold snapshot as the first it sees
  (`delivery/status-receiver.ts:80`), against `spec/http-binding.md:413`; the
  sender recovers when the message ends.
- Blocked grant publication: any refusal of the receiver that becomes the generic
  400 blocks a publication for good (`grants/publisher.ts:118`), and with it every
  later revision, a revocation included, also where the failure was transient,
  which `spec/grants.md:519` has retried. `RevocationReaches` excludes it.
- Rotation: the fence of a managed account asks for acknowledgement of its active
  grants only (`migration/managed-fence.ts:83-91`), so a revocation under way does
  not hold it back, while `spec/grants.md:322` asks it of the current revision
  before the identity key is replaced. `SuccessorFits` speaks of active grants.
- Delayed PLC write: a comment in `migration/connection-orchestration.ts:195-196`
  takes the directory's current answer for the outcome of a write, while
  `migration/poc-plc-submission.ts:47-53` leaves a timed-out write to be applied
  later. A cancellation accepted meanwhile is overtaken: the account then neither
  stays where it was nor moves on by itself. `Overtaken` in `Transfer` is that
  case; `SingleServer` and `NothingLost` hold in it.
- Return: a former provider takes the account back only with every row it once
  handed over (`migration/return.ts:34-102`, `KeepsHistory`). After the owner has
  deleted such a message for good elsewhere the return is refused, although
  `apps/cli/docs/cli-workflows.md:396-398` calls it a transfer like any other.
- Custody expiry: a preparation that is not committed within an hour can be
  neither committed nor replaced (`accounts/custody-transition.ts:315`), and
  migration 0045:119 keeps the fence up, while
  `apps/cli/docs/cli-workflows.md:480-481` promises that it can be resumed. An
  operation of the owner from elsewhere has the same effect on a recorded one
  (`custody-transition.ts:325`, `:333`; `Overtaken` in `Custody`).
- Custody and a pending publication: the preparation asks that messages to
  connections are through and nothing of publications to categories (migration
  0071:118-131). A category publication that is pending then can neither be sent,
  cancelled nor expired, because the fence refuses every write of its targets
  (0061:34, 0045:119-121), and the transition, recorded and landed, cannot advance
  the generation while it pends (0061:82): each waits for the other, against
  `cli-workflows.md:480-481`. Once the publication is overdue its row also heads
  the provider's fan-out queue, where `workOne` raises on it at every turn
  (`publications.ts:272`), so that the fan-out of the other accounts waits as well.
  `RecordedFinishes` and `FanoutEnds` except exactly this.
- Custody and a changed Grant: `materialize` refuses a transition whose reviewed
  Grants are not as they were (`custody-transition.ts:364-366`). One updated
  or revoked between `reviewOwner` and the preparation's transaction
  makes that refusal final, with the same promise of the documentation against it
  (`Unobstructed`).
- Custody and the purge: `purgeExpired` works account by account and stops at one
  whose custody is changing while it has something due (`message-trash.ts:151`); the
  accounts after it, and the provider-wide collectors, wait (`PurgeStops`).
- Stranded signup: when the server dies between `beginActivation` and
  `activateAccount`, the account stays "activating"; only
  `SignupCoordinator.advance` (`onboarding/signup.ts:228-236`) puts that back,
  and the command line's route never calls it, against
  `apps/cli/docs/cli-workflows.md:70-71`. `SignupFinishes` excludes it
  (`Stranded`).
- Fan-out: the worker's lock is on a reserved connection
  (`accounts/publications.ts:229-234`) with no fencing token, so a worker that
  lost it may still send; `OutcomeIsTruthful` allows a cancelled or expired
  target to have been sent to only in that case. A target admitted by an attempt
  whose answer was lost can be reported "blocked" (`submission.ts:16-18`,
  `publications.ts:303`).
- Unanswered admission: an admission whose coordinator never completes it blocks
  the fence of the source for good (migration 0071:122,
  `migration/connection-history.ts:162-164`); `HistoryMoves` speaks of sides that
  have drained.
- Lagging directory replica: a poll that is shown a shorter log than the retained
  one records an invalid-operation-log report (`apps/plc-monitor/src/monitor.ts:140`,
  `PollInvalid`), and no attestation is signed for the account as long as that
  report is on record (`monitor.ts:195`, `:241`), that is for good.
- Late notices: the alert worker refuses a report that is older than seven days
  (`worker.ts:149`), so after a longer outage of the mail path its delivery, and an attestation
  that waits for it, cannot succeed any more.
- Command line transfers: a cancellation that is saved and then refused because
  the fence won leaves the state file able neither to cancel nor to go on
  (`apps/cli/src/transfers.rs:735`).

## Proofs

Eight modules hold theorems, proved for every value of the constants that
satisfies the named assumptions of the modules: that the sets of names are
disjoint where the code's identifiers are (`SignupAssumption`,
`OutputsAssumption`, `RequestAssumption`), that bounds are numbers, and that
`None` is no row (`NoneAssumption` of `Transfer` and of `Connections`,
`FrontierAssumption`). Every invariant and action property of the passing runs
is a theorem.

`DeliveryProofs`: `TypeCorrect`, `ReplySingleUse`, `ReplyCapabilityHeld`,
`InboxAgrees`, `Finality`, `LateWorkers` and `Refinement` (`Delivery` implements
`DeliveryContract`). The inductive invariant `IndInv` adds to the properties:
`RowsAgree` (a work row exists exactly for an accepted envelope, with revision
zero before it), `ClaimsAgree` (a worker that is not idle works on a taken key
with a token no newer than the row's attempt count, and a row's token is its
latest attempt's or none) and `DeliveredConsumes` (the reply a delivered message
used is consumed by that very message). `SingleUse` is not inductive without the
last: it is the consumed capability's claimant that makes two deliveries equal.
The proofs classify every step into seven kinds of change to the durable rows
(lemma `StepKinds`) and treat invariant, finality and refinement kind by kind.
`UnknownMembershipReservesNothing` and `DeliveryIsAuthorized` follow from the
same invariant. `LimitsHold` needs only that a key without a work row has no
lease (`LimitInv`) and two facts about cardinality: one more row fits a set below
its limit, and a part of a set within a limit is within it. `RefusalsAreDefinite`
needs that a worker on its way to a refusal was given a definite "no"
(`RefusalInv`) and that an ended connection stays ended; it is stated under
`PartiesStay` (no party of a connection moves or closes), because the code does
refuse for good when a local party is fenced (see the observations).

`StatusProofs`: `StatusTypes`, `StatusAuthentic`, `GapCounts`, `AckTruth`,
`NeverRefused`, `ViewMonotone`, `LatePublishers`. The notion that makes them
inductive is `Genuine`: a snapshot is of a revision the row has reached, is the
row itself at the row's own revision, and is terminal only if it is the row
itself. Lemma `RowMoves` (a row stays, or is not terminal and takes its next
revision) keeps a genuine snapshot genuine for ever; `SignedAgree` and
`ActorsAgree` say that everything signed or in flight is genuine. With
`TerminalVerdict` (the receiver never refuses the snapshot of a terminal row) and
`SettledStays` (once the sender has it, nothing replaces it) acknowledgement and
blocking follow through `PublishersAgree`.

`GrantsProofs`: `GrantTypes`, `CopyIsPrefix`, `AcknowledgementIsTrue`,
`ConsentIsInformed` and `OnlyReviewed`. The inductive invariant joins to the type
invariant and the two agreements: `ApprovalsAgree` (what a client holds is a chain
whose consents cover its scopes), `LineagesCovered` (so is every lineage),
`RequestsAgree` (a request in the receiver's hands carries a prefix of the
lineage, and an answer of success means that the grantee's provider holds it) and
`SendersAgree` (a publisher waits for its own request, which carries what it
claimed, and no two publishers wait for the same one). Prefixes are stable
because lineages only grow (`LineagesGrow`), which follows from a classification of the owners' steps
(`OwnerKinds`): a lineage takes one reviewed successor or nothing. Publishing
steps replace one publication row (`RowReplaced`), receiving steps one request
(`RequestInv`), and the rest change neither (`QuietInv`).

`MoveProofs`: `OneServer`, `NothingIsLost`, `CancellationHolds`, `StaleWork`,
`OneSigner` and `SuccessorsFit`, for either custody. Two notions carry them. A
transfer is `Over` when its import is active, or when it was never staged and can
no longer be; this is stable, although slots are recycled and messages stay on
the wire. A provider is `Current` when it serves the account or is fenced for a
transfer that is not over. The core of the invariant is that the account is
`Current` at one provider only: it becomes current somewhere by an activation
alone, the activated import's source is still fenced with the very export that
was staged (`CarryInv`), and the activation ends that transfer, so the source is
current no more. `PrevInv` and `PlcInv` say that an operation the directory has
passed never fits its head again (`Stuck`), which makes cancellations final;
`PeerInv` ties the peers' commitment to it; `DataInv` and `JobInv` say what the
current provider holds and in which era its work was admitted. Each step of
`MoveNext` is shown to be one of a dozen kinds of change (`PortableSteps`,
`ManagedSteps`), and each kind to keep the invariant. `GrantInv` adds the grant:
where the account is current no signature is ahead of the row (`RevisionInv`), an
active grant fits what the grantee holds unless the directory has left
(`FitInv`, `HomeInv`), is acknowledged under the fence, and is what the export
carries (`SameInv`); so the successor a destination signs is a revision nobody
signed.

`CustodyProofs`: `CustodyTypes`, `TheIdentityIsHeld`, `GrantsFollowTheProvider`,
`TheFenceHolds` (while a transition is open, what `materialize` asks for does not
change: the safety half of `RecordedFinishes`).
Keys are drawn once (`KeyInv`); the open transition proposes a key the directory
has not named until its last operation does (`OpenInv`); and whatever request or
write is still under way belongs to the recorded transition or to one the
directory has passed (`ReviewInv`, `CommitInv`, `FlightInv`), so that a repeated
or late commit can neither send nor materialize anything else. The fence of an
open transition keeps grants from being stored (`SuccessorInv`, `RequestInv`).

`MailboxProofs`: `MailboxTypes`, `TheMailboxIsWhole`, `AcceptedCanBeSent`,
`ReportedOutcomesAreTrue`, `SettledStaysSettled`. `StoredInv` says that whatever
refers to a body or a file has it, reference by reference, which each collector's
guard preserves; `WorkInv` ties the fan-out worker's row to what it has sent, and
says that a target settled under its hands was settled without its lock.

`ConnectionProofs`: `ConnectionTypes`, `EpochsNeverDiffer`, `ConsentStaysFresh`,
`DrainedHistoryMoves`, `NothingUndone` and `AnswersAlwaysFit`. None of the three
properties is inductive: each speaks of rows, and what a row becomes is decided
by a request or an answer sent long before. The invariant (`IInv`) therefore
covers everything under way. A snapshot is `Genuine` when it is the empty one or
that of one of the coordinator's events; every row, request and answer carries a
genuine one (`PairsStand`, `WireStands`, `WorkerStands`). Events alternate between
the beginning of a connection and its end (`EventsStand`), and the `Target` of a
reviewed state is the one epoch it can lead to, so a request that is answered at
all is answered with that epoch (`ResultsStand`). A side that consented lags by
no more than the last connection (`AttemptsStand`), and a consent older than its
cutoff leads to a connection it has left (`TombsStand`, `StaleStands`), which
is why a late answer cannot bring one back. For the history there is `Replicates`: an
event the other side has not adopted is still queued, hence a drained side has
them all. `NothingUndone` is the action property used throughout: events, results,
tombstones and consents are kept and no pair goes back. `AnswersAlwaysFit` follows
from the invariant: the branches of `workAttempt`, `apply` and `sync` that
refuse a snapshot as conflicting are never reached between honest providers.

`IdentityProofs`, about signup: `SignupTypes`, `OneGenesisOnly`,
`OwnerKeepsAccess`, `SetupEnds` and `SignupNeverUndone`. The owner's side `Keeps`
one operation: the ceremony row, or state file and vault. `CallsAgree` says that
every call past the ceremony works for the operation kept, with or without the
lock, and `GenesisAgrees` that the binding, the account's DID and whatever was
sent are that one; so a call that lost its lock can only repeat what another does.
`KeysAgree` says that the setup capability is open only while setup has enrolled
nothing and the ceremony is not completed, which makes `SetupAuthorityEnds` hold
of a late `advance` too. `CredentialsAgree` is why a rotation never locks the
owner out: what revokes is saved, live and not the source, and nothing is
rotated before signup has handed its credential over, so that the answer a command
still waits for is never a revoked token. `SignupNeverUndone` says that the
operation kept is never exchanged, that an active account stays active under its
DID, and that neither passkeys nor credentials come back once they are revoked.

`IdentityProofs`, about the monitor: `MonitorTypes`, `NothingUnreported`,
`AttestationsAreEarned`.
`WatchInv` keeps the retained log a prefix of the directory's and a silence of
more than a day on report; `NoticeInv` says that what is marked sent was mailed;
`EmailInv` that a proven address was read; `PaperInv` that an attestation not yet
relied on was signed within the monitor's five minutes of its poll, which leaves
the provider its own five.

The type invariants of `Delivery`, `StatusFlow`, `Grants`, `Connections`,
`CommandLine`, `Custody`, `Mailbox` and `Monitor` are theorems; that of `MoveProofs` (`TypeInv`, `GrantTypes`) is a
part of its invariant. The inductive invariants were model-checked on small
instances before they were proved.

Only model-checked: every liveness property, since fairness and ENABLED are out of
the prover's reach, and with it `Settles`, `AcceptedFinishes`, `PublicationEnds`,
`RevocationReaches`, `DisconnectReaches`, `SignupFinishes`, `RecordedFinishes` and
`FanoutEnds`. Induction over data, such as
what a recursive function computes, is out of reach too; none of the modules
needs it.

## Plan

1. Done: `Delivery` with its contract, `StatusFlow`, and their proofs.
2. Done: `Grants` with its proofs, `Connections` and `ConnectionHistory`,
   `Transfer` and `ManagedTransfer`, `Signup` and `CommandLine`, `Custody`,
   `Mailbox`.
3. Done: `SecurityEmail` and `Monitor`, the composition `AccountMove`, and the
   proofs about `Monitor`, `Mailbox`, `Custody`, `AccountMove` and the rest of
   `Delivery`.
4. Done: the proofs about `Connections`, `ConnectionHistory`, `Signup` and
   `CommandLine`; no safety property of a passing run is left to TLC alone.
5. Revival and pruning of conversations; custom domains; the claim order of
   `claimDue` under a steady stream.

## Not modelled

- Cryptography, CBOR/COSE encoding and the codecs: pure functions, covered by
  test vectors; what they verify is taken as given.
- HTTP guards: counters in the memory of one process. What a deadline does to the
  work behind it is part of `Grants` and `StatusFlow`.
- Discovery, profiles and operator views: verification of signed documents and
  read-only reports. Domains: claims decided by DNS answers, one transaction
  each.
- Web client and the other commands of the command line: presentation and single
  calls of routes whose handlers are modelled.
- Sizes: byte budgets, the upload allowance (`accounts/attachments.ts:23-25`), the
  64 MiB manifest limit (`migration/transfer.ts:165`), paging of exports.
- Ages that no property reads: the expiry of credentials and of grants. The
  disposition of sent items.
- The claim order of `claimDue` under a steady stream of arrivals, which needs an
  unbounded stream; a saved cancellation that loses to the fence (see the
  observations).
- Two hazards in `PROJECT.json` have no property of a run: the custody
  preparation's expiry before it is recorded, after which there is no way on, and
  the reply that overtakes its introduction, which
  `UnknownMembershipReservesNothing` proves. Each has a note there.
