---------------------------- MODULE Connections -----------------------------
(***************************************************************************)
(* The connection of one pair of accounts held by two providers            *)
(* (accounts/connection-federation.ts, with the approvals and codes of     *)
(* accounts/connections.ts).  The provider of the smaller DID coordinates: *)
(* only it advances the pair's epoch, by one event per epoch.  Each side   *)
(* keeps its own pair row, its tombstones, its consent attempts and its    *)
(* queue of disconnections; each has one worker, which talks to the other  *)
(* provider by requests that can be slow, lost or answered in vain.        *)
(*                                                                         *)
(* The connection ID drawn for a new connection is named by the epoch it   *)
(* is activated in, a cutoff time by the set of codes and reviews that are *)
(* no newer.  A bundle is named by its request.                            *)
(***************************************************************************)
EXTENDS Naturals, Sequences, FiniteSets

CONSTANTS Requests,     \* confirmation IDs, one per review, drawn in order
          Codes,        \* invitations, in the order they are created
          Inviters,     \* the sides the codes may belong to
          MaxEpoch,     \* bound on the epochs of the pair
          Faults,       \* what may happen: "revoked", "lapsed", the steps that may be lost
          MaxFaults,    \* bound on lost exchanges, revoked codes and lapsed reviews
          None

ASSUME RequestAssumption == Requests \cup Codes \subseteq Nat /\ Requests \cap Codes = {} /\ None \notin Requests

Sides == {"small", "large"}
Other(s) == IF s = "small" THEN "large" ELSE "small"

ASSUME InviterAssumption == Inviters \subseteq [Codes -> Sides]
ASSUME BoundAssumption == MaxEpoch \in Nat /\ MaxFaults \in Nat

VARIABLES
    history,    \* federated_connection_events, by epoch
    result,     \* federated_connection_results: the epoch answered, or 0
    outbox,     \* events to replicate: [epoch, request]
    pair,       \* federated_connection_pairs on each side
    tomb,       \* federated_connection_tombstones on each side
    stale,      \* codes and reviews no newer than the side's cutoff_at
    attempt,    \* federated_connection_attempts on each side
    leaving,    \* federated_connection_disconnects without a result
    code,       \* connection_invitations
    inviter,    \* the side each code belongs to
    lapsed,     \* requests whose consent window has passed
    worker,     \* what each side's worker waits for
    wire,       \* requests under way
    faults

coordinatorVars == <<history, result, outbox>>
sideVars == <<pair, tomb, stale>>
codeVars == <<code, inviter>>
vars == <<coordinatorVars, sideVars, attempt, leaving, codeVars, lapsed, worker, wire, faults>>

Epochs == 0 .. MaxEpoch
Snapshot == [epoch: Epochs, state: {"empty", "active", "disconnected"}, cid: Epochs]
Empty == [epoch |-> 0, state |-> "empty", cid |-> 0]

(* scanner and inviter copies of an attempt; cid is the result, or 0.      *)
Attempt == [at: {"none", "draft", "pending", "admitted", "active", "expired", "conflict"},
            snap: Snapshot, code: Codes \cup {None}, admission: BOOLEAN, cid: Epochs]
NoAttempt == [at |-> "none", snap |-> Empty, code |-> None, admission |-> FALSE, cid |-> 0]
Retained == {"pending", "admitted", "active", "expired", "conflict"}

(* A request under way: its step, who sent it, the attempt or connection   *)
(* it is about, and a snapshot.                                            *)
Message == [step: {"admit", "learned", "commit", "disconnect", "sync", "checked"},
            from: Sides, request: Requests \cup {None}, snap: Snapshot, current: Snapshot \cup {None}]

ASSUME NoneAssumption == None \notin Snapshot /\ None \notin Message

Answers == {"waiting", "admission", "result", "ack", "refused", "expired"}
Idle == [msg |-> None, job |-> None, answer |-> "waiting", snap |-> Empty, current |-> Empty]

Usable(s, cid) == pair[s].state = "active" /\ pair[s].cid = cid /\ cid \notin tomb[s]

-----------------------------------------------------------------------------
Init ==
    /\ history = <<>>
    /\ result = [r \in Requests |-> 0]
    /\ outbox = {}
    /\ pair = [s \in Sides |-> Empty]
    /\ tomb = [s \in Sides |-> {}]
    /\ stale = [s \in Sides |-> {}]
    /\ attempt = [s \in Sides |-> [r \in Requests |-> NoAttempt]]
    /\ leaving = [s \in Sides |-> {}]
    /\ code = [c \in Codes |-> "none"]
    /\ inviter \in Inviters
    /\ lapsed = {}
    /\ worker = [s \in Sides |-> Idle]
    /\ wire = {}
    /\ faults = 0

Fault(kind) == kind \in Faults /\ faults < MaxFaults /\ faults' = faults + 1

-----------------------------------------------------------------------------
(* apply: what a side does with a snapshot the coordinator signed.         *)

(* What was created or reviewed before a cutoff at side s.                 *)
Dated(s) == {c \in Codes : code[c] # "none"} \cup {r \in Requests : attempt[s][r].at # "none"}

Buried(s, snap) == IF snap.state = "disconnected" THEN tomb[s] \cup {snap.cid} ELSE tomb[s]

(* Mutant: an answer that comes late takes the pair back to its epoch.     *)
AdoptsOlder(s, snap) ==
    /\ snap.state # "empty"
    /\ ~(snap.state = "active" /\ snap.cid \in Buried(s, snap))

(* A snapshot replaces the pair unless it is older, or activates what this *)
(* side has a tombstone for.                                               *)
Adopts(s, snap) ==
    /\ snap.state # "empty"
    /\ snap.epoch >= pair[s].epoch
    /\ ~(snap.state = "active" /\ snap.cid \in Buried(s, snap))

(* Two connections claim one epoch: the transaction is rolled back.        *)
Conflicts(s, snap) ==
    /\ Adopts(s, snap)
    /\ snap.epoch = pair[s].epoch
    /\ pair[s].cid # 0
    /\ pair[s].cid # snap.cid

Apply(s, snap) ==
    /\ ~Conflicts(s, snap)
    /\ tomb' = [tomb EXCEPT ![s] = Buried(s, snap)]
    /\ stale' = [stale EXCEPT ![s] =
         IF Buried(s, snap) # tomb[s] /\ snap.epoch >= pair[s].epoch THEN @ \cup Dated(s) ELSE @]
    /\ pair' = [pair EXCEPT ![s] = IF Adopts(s, snap) THEN snap ELSE @]

-----------------------------------------------------------------------------
(* What the account owners do.                                             *)

(* commit of an approved "create", and of "revoke" or "replace".  To bound *)
(* the model a code is created once those before it cannot be used again.  *)
CreateCode(c) ==
    /\ code[c] = "none"
    /\ \A d \in Codes : d < c => code[d] = "revoked" \/ d \in stale[inviter[d]]
    /\ code' = [code EXCEPT ![c] = "live"]
    /\ UNCHANGED <<coordinatorVars, sideVars, attempt, leaving, inviter, lapsed, worker, wire, faults>>

RevokeCode(c) ==
    /\ code[c] = "live"
    /\ Fault("revoked")
    /\ code' = [code EXCEPT ![c] = "revoked"]
    /\ UNCHANGED <<coordinatorVars, sideVars, attempt, leaving, inviter, lapsed, worker, wire>>

(* messageState on the side that does not coordinate: a probe shows that   *)
(* the connection has ended.  (sync below applies a probe late.)           *)
Observe ==
    /\ pair["large"].state = "active" /\ pair["small"].state = "disconnected"
    /\ Apply("large", pair["small"])
    /\ UNCHANGED <<coordinatorVars, attempt, leaving, codeVars, lapsed, worker, wire, faults>>

Pending(s) == {r \in Requests : attempt[s][r].at = "pending"}

(* checkInvitation: the code is neither revoked nor expired.               *)
CodeStands(c) == code[c] = "live"

(* verifyBundle with a fresh bundle: confirmation and code belong together *)
(* and neither has run out.                                                *)
InWindow(r) == r \notin lapsed

(* prepare of the federation: no attempt is under way, and the coordinator *)
(* does not still show a connection this side has left.                    *)
Reviewable(s, snap) ==
    /\ Pending(s) = {}
    /\ ~(snap.state = "active" /\ snap.cid \in tomb[s])

(* prepare: the scanner reviews a code against the coordinator's state.    *)
(* No review leads to an epoch that could not be ended within MaxEpoch.    *)
Review(s, c, r) ==
    LET snap == pair["small"]
    IN /\ CodeStands(c) /\ inviter[c] = Other(s)
       /\ \A side \in Sides : attempt[side][r].at = "none"
       /\ \A q \in Requests : q < r => \E side \in Sides : attempt[side][q].at # "none"
       /\ Reviewable(s, snap)
       /\ snap.state = "active" \/ snap.epoch + 2 <= MaxEpoch
       /\ IF snap.state = "disconnected" THEN Apply(s, snap) ELSE UNCHANGED sideVars
       /\ attempt' = [attempt EXCEPT ![s][r] = [NoAttempt EXCEPT !.at = "draft", !.snap = snap, !.code = c]]
       /\ UNCHANGED <<coordinatorVars, leaving, codeVars, lapsed, worker, wire, faults>>

(* enqueue: the signed confirmation becomes the one pending attempt.       *)
Enqueued(s, r) == [attempt EXCEPT ![s][r].at = "pending"]

(* commit of an approved connection, while its review lasts.               *)
Confirm(s, r) ==
    /\ attempt[s][r].at = "draft"
    /\ InWindow(r)
    /\ Pending(s) = {}
    /\ attempt' = Enqueued(s, r)
    /\ UNCHANGED <<coordinatorVars, sideVars, leaving, codeVars, lapsed, worker, wire, faults>>

(* disconnect: the local cutoff, at once, and the job that spreads it.  A  *)
(* second device that reviewed the same connection may commit it again.    *)
Disconnect(s) ==
    /\ pair[s].state = "active"
    /\ tomb' = [tomb EXCEPT ![s] = @ \cup {pair[s].cid}]
    /\ stale' = [stale EXCEPT ![s] = @ \cup Dated(s)]
    /\ leaving' = [leaving EXCEPT ![s] = @ \cup {pair[s].cid}]
    /\ UNCHANGED <<coordinatorVars, pair, attempt, codeVars, lapsed, worker, wire, faults>>

(* The five minutes of a review pass, while it still matters.              *)
Lapse(r) ==
    /\ r \notin lapsed
    /\ \E s \in Sides : attempt[s][r].at \in {"draft", "pending"}
    /\ Fault("lapsed")
    /\ lapsed' = lapsed \cup {r}
    /\ UNCHANGED <<coordinatorVars, sideVars, attempt, leaving, codeVars, worker, wire>>

-----------------------------------------------------------------------------
(* workOne on side s: one exchange at a time.                              *)

Send(s, m) ==
    /\ wire' = wire \cup {m}
    /\ worker' = [worker EXCEPT ![s] = [Idle EXCEPT !.msg = m]]

(* workAttempt, first half: ask the inviter's provider, within the window. *)
SendAdmit(s, r) ==
    /\ worker[s] = Idle
    /\ attempt[s][r].at = "pending" /\ ~attempt[s][r].admission
    /\ r \notin lapsed
    /\ Send(s, [step |-> "admit", from |-> s, request |-> r, snap |-> attempt[s][r].snap, current |-> None])
    /\ UNCHANGED <<coordinatorVars, sideVars, attempt, leaving, codeVars, lapsed, faults>>

GiveUp(s, r) ==
    /\ worker[s] = Idle
    /\ attempt[s][r].at = "pending" /\ ~attempt[s][r].admission
    /\ r \in lapsed
    /\ attempt' = [attempt EXCEPT ![s][r].at = "expired"]
    /\ UNCHANGED <<coordinatorVars, sideVars, leaving, codeVars, lapsed, worker, wire, faults>>

(* Second half, taken up again: ask the coordinator to activate.           *)
SendCommit(s, r) ==
    /\ worker[s] = Idle
    /\ attempt[s][r].at = "pending" /\ attempt[s][r].admission
    /\ Send(s, [step |-> "commit", from |-> s, request |-> r, snap |-> attempt[s][r].snap, current |-> None])
    /\ UNCHANGED <<coordinatorVars, sideVars, attempt, leaving, codeVars, lapsed, faults>>

SendDisconnect(s, cid) ==
    /\ worker[s] = Idle
    /\ cid \in leaving[s]
    /\ Send(s, [step |-> "disconnect", from |-> s, request |-> None,
                snap |-> [epoch |-> cid, state |-> "active", cid |-> cid], current |-> None])
    /\ UNCHANGED <<coordinatorVars, sideVars, attempt, leaving, codeVars, lapsed, faults>>

EventSnapshot(e) == [epoch |-> e, state |-> history[e].state, cid |-> history[e].cid]

(* workOutbox: a replication without a request of its own carries the      *)
(* newest event.                                                           *)
Carried(job) == IF job.request = None /\ pair["small"].epoch > job.epoch THEN pair["small"].epoch ELSE job.epoch

SyncMessage(job) ==
    LET e == Carried(job)
    IN [step |-> "sync", from |-> "small",
        request |-> IF job.request # None THEN job.request ELSE history[e].request,
        snap |-> EventSnapshot(e), current |-> None]

SendSync(job) ==
    /\ worker["small"] = Idle
    /\ job \in outbox
    /\ wire' = wire \cup {SyncMessage(job)}
    /\ worker' = [worker EXCEPT !["small"] = [Idle EXCEPT !.msg = SyncMessage(job), !.job = job]]
    /\ UNCHANGED <<coordinatorVars, sideVars, attempt, leaving, codeVars, lapsed, faults>>

(* The exchange fails in some way that may pass, or the worker's process   *)
(* dies: the job is deferred.  Its request stays on its way, to be handled *)
(* late or never.                                                          *)
Defer(s) ==
    /\ worker[s] # Idle
    /\ Fault(worker[s].msg.step)
    /\ worker' = [worker EXCEPT ![s] = Idle]
    /\ UNCHANGED <<coordinatorVars, sideVars, attempt, leaving, codeVars, lapsed, wire>>

-----------------------------------------------------------------------------
(* handle: the other provider's side of an exchange.                       *)

(* The request as it was sent, and whether a worker still waits for it.    *)
Sent(m) ==
    [m EXCEPT !.step = IF @ = "learned" THEN "admit" ELSE IF @ = "checked" THEN "sync" ELSE @, !.current = None]

Awaited(m) == worker[m.from].msg = Sent(m) /\ worker[m.from].answer = "waiting"

Answer(m, answer, snap, current) ==
    /\ wire' = wire \ {m}
    /\ worker' = IF Awaited(m)
                 THEN [worker EXCEPT ![m.from].answer = answer, ![m.from].snap = snap, ![m.from].current = current]
                 ELSE worker

Refuse(m, answer) == Answer(m, answer, Empty, Empty)

(* admit: the retained admission is returned; otherwise the bundle must be *)
(* in its window and the code live, and a disconnection it proves is kept  *)
(* in a transaction of its own.                                            *)
HandleAdmit(m) ==
    /\ m \in wire /\ m.step = "admit"
    /\ LET s == Other(m.from)
           r == m.request
           live == InWindow(r) /\ CodeStands(attempt[m.from][r].code)
       IN \/ /\ attempt[s][r].at # "none"
             /\ Answer(m, "admission", Empty, Empty)
             /\ UNCHANGED sideVars
          \/ /\ attempt[s][r].at = "none" /\ ~live
             /\ Refuse(m, "expired")
             /\ UNCHANGED sideVars
          \/ /\ attempt[s][r].at = "none" /\ live
             /\ wire' = (wire \ {m}) \cup {[m EXCEPT !.step = "learned"]}
             /\ IF m.snap.state = "disconnected" THEN Apply(s, m.snap) ELSE UNCHANGED sideVars
             /\ UNCHANGED worker
    /\ UNCHANGED <<coordinatorVars, attempt, leaving, codeVars, lapsed, faults>>

(* Mutant: an old code admits again after a disconnection.                 *)
AdmissibleOldCode(s, m) ==
    ~(m.snap.state = "active" /\ m.snap.cid \in tomb[s])

(* The code must be newer than the last cutoff, and the reviewed           *)
(* connection not one this side has left.                                  *)
Admissible(s, m) ==
    /\ attempt[m.from][m.request].code \notin stale[s]
    /\ ~(m.snap.state = "active" /\ m.snap.cid \in tomb[s])

(* The second transaction reads code and pair again and signs.             *)
Admit(m) ==
    /\ m \in wire /\ m.step = "learned"
    /\ LET s == Other(m.from)
           r == m.request
           c == attempt[m.from][r].code
       IN \/ /\ ~CodeStands(c)
             /\ Refuse(m, "expired")
             /\ UNCHANGED attempt
          \/ /\ CodeStands(c) /\ ~Admissible(s, m)
             /\ Refuse(m, "refused")
             /\ UNCHANGED attempt
          \/ /\ CodeStands(c) /\ Admissible(s, m)
             /\ attempt[s][r].at = "none" /\ r \in lapsed
             /\ Refuse(m, "expired")
             /\ UNCHANGED attempt
          \/ /\ CodeStands(c) /\ Admissible(s, m)
             /\ attempt[s][r].at # "none" \/ r \notin lapsed
             /\ Answer(m, "admission", Empty, Empty)
             /\ attempt' = IF attempt[s][r].at # "none" THEN attempt
                           ELSE [attempt EXCEPT ![s][r] = [NoAttempt EXCEPT
                                  !.at = "admitted", !.snap = m.snap, !.code = c, !.admission = TRUE]]
    /\ UNCHANGED <<coordinatorVars, sideVars, leaving, codeVars, lapsed, faults>>

(* Mutant: the end of a connection is not queued for the other side.       *)
QueuedConnects(e, r) == IF r = None THEN outbox ELSE outbox \cup {[epoch |-> e, request |-> r]}

Queued(e, r) == outbox \cup {[epoch |-> e, request |-> r]}

(* coordinatorConnect.                                                     *)

(* Two reviews of one state converge on the connection the first one made. *)
Converges(m) ==
    /\ pair["small"].state = "active"
    /\ m.snap.epoch \in {pair["small"].epoch, pair["small"].epoch - 1}

Current(m) == m.snap = pair["small"]

HandleCommit(m) ==
    /\ m \in wire /\ m.step = "commit"
    /\ LET r == m.request
           p == pair["small"]
           new == [epoch |-> p.epoch + 1, state |-> "active", cid |-> p.epoch + 1]
           Record(e) == /\ result' = [result EXCEPT ![r] = e]
                        /\ outbox' = Queued(e, r)
       IN \/ /\ result[r] # 0
             /\ Answer(m, "result", EventSnapshot(result[r]), p)
             /\ UNCHANGED <<coordinatorVars, sideVars>>
          \/ /\ result[r] = 0 /\ ~InWindow(r)
             /\ Refuse(m, "expired")
             /\ UNCHANGED <<coordinatorVars, sideVars>>
          \/ /\ result[r] = 0 /\ InWindow(r)
             /\ \/ attempt["small"][r].at \notin Retained
                \/ Converges(m) /\ p.cid \in tomb["small"]
                \/ ~Converges(m) /\ ~Current(m)
             /\ Refuse(m, "refused")
             /\ UNCHANGED <<coordinatorVars, sideVars>>
          \/ /\ result[r] = 0 /\ InWindow(r)
             /\ attempt["small"][r].at \in Retained
             /\ Converges(m) /\ p.cid \notin tomb["small"]
             /\ Record(p.epoch)
             /\ Answer(m, "result", EventSnapshot(p.epoch), p)
             /\ UNCHANGED <<history, sideVars>>
          \/ /\ result[r] = 0 /\ InWindow(r)
             /\ attempt["small"][r].at \in Retained
             /\ ~Converges(m) /\ Current(m)
             /\ history' = Append(history, [state |-> "active", cid |-> new.cid, request |-> r])
             /\ Apply("small", new)
             /\ Record(new.epoch)
             /\ Answer(m, "result", new, new)
    /\ UNCHANGED <<attempt, leaving, codeVars, lapsed, faults>>

(* coordinatorDisconnect: the epoch that ended the connection, or the next.*)
Ended(cid) == {e \in 1 .. Len(history) : history[e].state = "disconnected" /\ history[e].cid = cid}

HandleDisconnect(m) ==
    /\ m \in wire /\ m.step = "disconnect"
    /\ LET p == pair["small"]
           cid == m.snap.cid
           end == [epoch |-> p.epoch + 1, state |-> "disconnected", cid |-> cid]
       IN \/ \E e \in Ended(cid) :
             /\ \A f \in Ended(cid) : f <= e
             /\ Answer(m, "result", EventSnapshot(e), Empty)
             /\ UNCHANGED <<coordinatorVars, sideVars>>
          \/ /\ Ended(cid) = {} /\ p.cid = cid
             /\ history' = Append(history, [state |-> "disconnected", cid |-> cid, request |-> None])
             /\ outbox' = Queued(end.epoch, None)
             /\ Apply("small", end)
             /\ Answer(m, "result", end, Empty)
             /\ UNCHANGED result
    /\ UNCHANGED <<attempt, leaving, codeVars, lapsed, faults>>

(* sync, before its transaction: an activation needs the local consent,    *)
(* and unless it is already adopted or buried, a probe of the coordinator. *)
HandleSync(m) ==
    /\ m \in wire /\ m.step = "sync"
    /\ LET p == pair["large"]
           known == p.state = "active" /\ p.cid = m.snap.cid /\ p.epoch >= m.snap.epoch
           probed == m.snap.state = "active" /\ m.snap.cid \notin tomb["large"] /\ ~known
       IN \/ /\ m.snap.state = "active" /\ attempt["large"][m.request].at \notin Retained
             /\ Refuse(m, "refused")
          \/ /\ m.snap.state = "active" => attempt["large"][m.request].at \in Retained
             /\ wire' = (wire \ {m}) \cup {[m EXCEPT !.step = "checked",
                                                     !.current = IF probed THEN pair["small"] ELSE None]}
             /\ UNCHANGED worker
    /\ UNCHANGED <<coordinatorVars, sideVars, attempt, leaving, codeVars, lapsed, faults>>

(* The activation is adopted when the probe showed the same state.         *)
Confirmed(m) == m.current = None \/ m.current = m.snap

(* activation: the result must be the connection reviewed, or the one that *)
(* follows the reviewed state.                                             *)
Activates(snap, reviewed) ==
    /\ snap.state = "active"
    /\ IF reviewed.state = "active" THEN snap = reviewed ELSE snap.epoch = reviewed.epoch + 1

(* The transaction: the consent is marked, what the probe or the snapshot  *)
(* says is applied, and the acknowledgement signed.                        *)
Adopted(m) ==
    IF m.current # None /\ m.current.state = "disconnected" THEN m.current
    ELSE IF Confirmed(m) THEN m.snap ELSE Empty

Sync(m) ==
    /\ m \in wire /\ m.step = "checked"
    /\ m.snap.state = "active" => Activates(m.snap, attempt["large"][m.request].snap)
    /\ Apply("large", Adopted(m))
    /\ attempt' = IF m.snap.state = "active" /\ attempt["large"][m.request].at \in {"pending", "admitted"}
                  THEN [attempt EXCEPT !["large"][m.request].at = "active",
                                       !["large"][m.request].admission = TRUE,
                                       !["large"][m.request].cid = m.snap.cid]
                  ELSE attempt
    /\ Answer(m, "ack", m.snap, Empty)
    /\ UNCHANGED <<coordinatorVars, leaving, codeVars, lapsed, faults>>

-----------------------------------------------------------------------------
(* The worker takes its answer.                                            *)

Done(s) == worker' = [worker EXCEPT ![s] = Idle]

Failed(s, r, at) == attempt' = [attempt EXCEPT ![s][r].at = IF @ = "pending" THEN at ELSE @]

(* The admission is stored and the coordinator asked in the same exchange. *)
TakeAdmission(s) ==
    /\ worker[s].answer = "admission"
    /\ attempt' = [attempt EXCEPT ![s][worker[s].msg.request].admission = TRUE]
    /\ Send(s, [worker[s].msg EXCEPT !.step = "commit"])
    /\ UNCHANGED <<coordinatorVars, sideVars, leaving, codeVars, lapsed, faults>>

TakeRefusal(s) ==
    /\ worker[s].answer \in {"refused", "expired"}
    /\ \/ /\ worker[s].msg.step \in {"admit", "commit"}
          /\ Failed(s, worker[s].msg.request, IF worker[s].answer = "expired" THEN "expired" ELSE "conflict")
       \/ worker[s].msg.step = "sync" /\ UNCHANGED attempt
    /\ Done(s)
    /\ UNCHANGED <<coordinatorVars, sideVars, leaving, codeVars, lapsed, wire, faults>>

(* What of the coordinator's answer the scanner applies.                   *)
Result(w) ==
    IF w.current.state = "disconnected" THEN w.current
    ELSE IF w.current = w.snap THEN w.snap ELSE Empty

TakeConnect(s) ==
    /\ worker[s].answer = "result" /\ worker[s].msg.step = "commit"
    /\ LET w == worker[s]
           r == w.msg.request
       IN \/ /\ Activates(w.snap, attempt[s][r].snap)
             /\ Apply(s, Result(w))
             /\ attempt' = IF attempt[s][r].at = "pending"
                           THEN [attempt EXCEPT ![s][r].at = "active", ![s][r].cid = w.snap.cid] ELSE attempt
          \/ /\ ~Activates(w.snap, attempt[s][r].snap)
             /\ Failed(s, r, "conflict")
             /\ UNCHANGED sideVars
    /\ Done(s)
    /\ UNCHANGED <<coordinatorVars, leaving, codeVars, lapsed, wire, faults>>

TakeDisconnect(s) ==
    /\ worker[s].answer = "result" /\ worker[s].msg.step = "disconnect"
    /\ Apply(s, worker[s].snap)
    /\ leaving' = [leaving EXCEPT ![s] = @ \ {worker[s].snap.cid}]
    /\ Done(s)
    /\ UNCHANGED <<coordinatorVars, attempt, codeVars, lapsed, wire, faults>>

TakeAck ==
    /\ worker["small"].answer = "ack"
    /\ outbox' = outbox \ {worker["small"].job}
    /\ Done("small")
    /\ UNCHANGED <<history, result, sideVars, attempt, leaving, codeVars, lapsed, wire, faults>>

-----------------------------------------------------------------------------
OwnerStep ==
    \/ \E c \in Codes : CreateCode(c) \/ RevokeCode(c)
    \/ \E s \in Sides : Disconnect(s)
    \/ Observe
    \/ \E s \in Sides, c \in Codes, r \in Requests : Review(s, c, r)
    \/ \E s \in Sides, r \in Requests : Confirm(s, r)
    \/ \E r \in Requests : Lapse(r)

WorkerStep(s) ==
    \/ \E r \in Requests : SendAdmit(s, r) \/ GiveUp(s, r) \/ SendCommit(s, r)
    \/ \E cid \in leaving[s] : SendDisconnect(s, cid)
    \/ s = "small" /\ \E job \in outbox : SendSync(job)
    \/ TakeAdmission(s) \/ TakeRefusal(s) \/ TakeConnect(s) \/ TakeDisconnect(s)
    \/ s = "small" /\ TakeAck

HandlerStep(m) ==
    \/ HandleAdmit(m) \/ Admit(m) \/ HandleCommit(m) \/ HandleDisconnect(m) \/ HandleSync(m) \/ Sync(m)

Next ==
    \/ OwnerStep
    \/ \E s \in Sides : WorkerStep(s) \/ Defer(s)
    \/ \E m \in wire : HandlerStep(m)

Spec == Init /\ [][Next]_vars

(* Each provider's worker loop runs for ever and takes the due jobs in the *)
(* order of their failures so far, so that no job is passed over for ever; *)
(* an exchange that is not lost is answered and its answer taken.  Nothing *)
(* is assumed of the owners, nor of requests nobody waits for.             *)
Exchange(s) ==
    \/ \E m \in wire : m.from = s /\ Awaited(m) /\ HandlerStep(m)
    \/ TakeAdmission(s) \/ TakeRefusal(s) \/ TakeConnect(s) \/ TakeDisconnect(s)
    \/ s = "small" /\ TakeAck

Working ==
    /\ \A s \in Sides : WF_vars(Exchange(s)) /\ SF_vars(\E cid \in leaving[s] : SendDisconnect(s, cid))
    /\ SF_vars(\E job \in outbox : job.request = None /\ SendSync(job))

LiveSpec == Spec /\ Working

-----------------------------------------------------------------------------
TypeOK ==
    /\ history \in Seq([state: {"active", "disconnected"}, cid: Epochs, request: Requests \cup {None}])
    /\ result \in [Requests -> Epochs]
    /\ outbox \subseteq [epoch: Epochs, request: Requests \cup {None}]
    /\ pair \in [Sides -> Snapshot]
    /\ tomb \in [Sides -> SUBSET Epochs]
    /\ stale \in [Sides -> SUBSET (Codes \cup Requests)]
    /\ attempt \in [Sides -> [Requests -> Attempt]]
    /\ leaving \in [Sides -> SUBSET Epochs]
    /\ code \in [Codes -> {"none", "live", "revoked"}]
    /\ inviter \in [Codes -> Sides]
    /\ lapsed \subseteq Requests
    /\ worker \in [Sides -> [msg: Message \cup {None}, job: outbox \cup {None}, answer: Answers,
                             snap: Snapshot, current: Snapshot]]
    /\ wire \subseteq Message
    /\ faults \in 0 .. MaxFaults

(* The two providers never hold different connections for one epoch: each  *)
(* side's pair is the coordinator's event of its epoch, whatever order     *)
(* answers, probes and replications arrive in, and no snapshot is ever     *)
(* refused as a conflicting epoch (connection-federation.ts apply,         *)
(* coordinatorConnect, workOutbox).                                        *)
EpochsAgree ==
    /\ pair["small"].epoch = Len(history)
    /\ \A s \in Sides : pair[s] = Empty \/ (pair[s].epoch <= Len(history) /\ pair[s] = EventSnapshot(pair[s].epoch))

(* The consent side s gave for the request r is newer than its last        *)
(* disconnection: the code if it invited, the review if it scanned.        *)
Fresh(s, r) ==
    LET a == attempt[s][r]
    IN a.at \in Retained /\ IF inviter[a.code] = s THEN a.code \notin stale[s] ELSE r \notin stale[s]

(* A connection a side can use rests on a request both sides consented to, *)
(* and this side since it last disconnected: no old code, late request or  *)
(* replayed event brings back a connection without a new consent           *)
(* (connection-federation.ts coordinatorConnect, workAttempt).             *)
FreshConsent ==
    \A s \in Sides : Usable(s, pair[s].cid) =>
        \E r \in Requests :
            /\ result[r] # 0 /\ history[result[r]].cid = pair[s].cid
            /\ Fresh(s, r)
            /\ attempt[Other(s)][r].at \in Retained

(* A disconnection reaches the other side: no side goes on using for ever  *)
(* a connection that the other has left (connection-federation.ts          *)
(* workDisconnect, defer).                                                 *)
DisconnectReaches ==
    (\E s \in Sides, cid \in 1 .. MaxEpoch : cid \in tomb[s] /\ Usable(Other(s), cid))
        ~> ~(\E s \in Sides, cid \in 1 .. MaxEpoch : cid \in tomb[s] /\ Usable(Other(s), cid))
=============================================================================
