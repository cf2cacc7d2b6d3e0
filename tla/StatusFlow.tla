----------------------------- MODULE StatusFlow -----------------------------
(***************************************************************************)
(* How the sender learns what became of a message.  The recipient's        *)
(* provider signs snapshots of its delivery_work row (delivery/status.ts): *)
(* in answer to a submission or its retry (envelopes/routes.ts), and, once *)
(* the state is terminal, for a publication that several processes push    *)
(* under leases (delivery/status-publisher.ts).  The sender's provider     *)
(* applies what arrives (delivery/status-receiver.ts).  Requests and       *)
(* answers are lost, arrive late and overtake each other.                  *)
(*                                                                         *)
(* All keys have one recipient account and one sender account.             *)
(***************************************************************************)
EXTENDS Naturals

CONSTANTS
    Keys,            \* messages of one sender to one recipient account
    Calls,           \* concurrent submissions (submitEnvelope)
    Publishers,      \* processes running publishOne
    LeaseLength,     \* the lease of a publication claim
    Replay,          \* the envelope's replay deadline
    RetryFor,        \* the minimum time a terminal status is retried
    MaxRevision,     \* bound: holds stop below this revision
    LastDisturbance, \* bound: transitions, fences, crashes happen up to this time
    MaxTime,         \* bound: the clock stops here
    NoSnap, NoKey

Actors == Calls \cup Publishers
Pending == {"accepted", "on-hold"}
Terminal == {"delivered", "failed", "cancelled"}
States == Pending \cup Terminal
Snapshots == [key : Keys, rev : Nat \ {0}, state : States]
Verdicts == {"acknowledged", "conflict", "unknown"}

ASSUME StatusAssumption ==
    /\ Calls \cap Publishers = {}
    /\ NoKey \notin Keys /\ NoSnap \notin Snapshots
    /\ {LeaseLength, RetryFor, MaxRevision} \subseteq Nat \ {0}
    /\ {Replay, LastDisturbance, MaxTime} \subseteq Nat

VARIABLES
    now,
    account,          \* the recipient's account here: active, fenced or closed
    reachable,        \* the sender's provider resolves, serves and may write
    state, revision, endedAt,                       \* delivery_work
    stored,           \* delivery_status_payloads
    pub, pubToken, pubUntil, pubNext, attempts,     \* terminal_status_publications
    pc, task, token, snap, reply,                   \* a submission or a publishOne
    late,             \* pushes whose publisher stopped waiting
    mine, gap,        \* sent_delivery_status at the sender
    applied           \* history: how many snapshots the sender stored

row == <<state, revision, endedAt>>
publication == <<pub, pubToken, pubUntil, pubNext, attempts>>
actor == <<pc, task, token, snap, reply>>
view == <<mine, gap, applied>>
vars == <<now, account, reachable, row, stored, publication, actor, late, view>>

Init ==
    /\ now = 0
    /\ account = "active" /\ reachable = TRUE
    /\ state = [k \in Keys |-> "none"]
    /\ revision = [k \in Keys |-> 0]
    /\ endedAt = [k \in Keys |-> 0]
    /\ stored = {}
    /\ pub = [k \in Keys |-> "none"]
    /\ pubToken = [k \in Keys |-> 0]
    /\ pubUntil = [k \in Keys |-> 0]
    /\ pubNext = [k \in Keys |-> 0]
    /\ attempts = [k \in Keys |-> 0]
    /\ pc = [x \in Actors |-> "idle"]
    /\ task = [x \in Actors |-> NoKey]
    /\ token = [x \in Actors |-> 0]
    /\ snap = [x \in Actors |-> NoSnap]
    /\ reply = [x \in Actors |-> "none"]
    /\ late = {}
    /\ mine = [k \in Keys |-> NoSnap]
    /\ gap = [k \in Keys |-> 0]
    /\ applied = [k \in Keys |-> 0]

-----------------------------------------------------------------------------
(* The recipient's delivery_work row, as DeliveryContract lets it move.     *)

Open(k) == pub[k] \in {"pending", "retry"}

\* Mutation: a hold keeps the revision.
HoldQuietly(k) ==
    /\ account = "active" /\ now <= LastDisturbance
    /\ state[k] \in Pending /\ revision[k] + 1 < MaxRevision
    /\ state' = [state EXCEPT ![k] = "on-hold"]
    /\ UNCHANGED <<now, account, reachable, revision, endedAt, stored, publication, actor,
                   late, view>>

Hold(k) ==
    /\ account = "active" /\ now <= LastDisturbance
    /\ state[k] \in Pending /\ revision[k] + 1 < MaxRevision
    /\ state' = [state EXCEPT ![k] = "on-hold"]
    /\ revision' = [revision EXCEPT ![k] = revision[k] + 1]
    /\ UNCHANGED <<now, account, reachable, endedAt, stored, publication, actor, late, view>>

\* finish queues the publication with the transition.
End(k, s) ==
    /\ account = "active" /\ now <= LastDisturbance
    /\ state[k] \in Pending
    /\ state' = [state EXCEPT ![k] = s]
    /\ revision' = [revision EXCEPT ![k] = revision[k] + 1]
    /\ endedAt' = [endedAt EXCEPT ![k] = now]
    /\ pub' = [pub EXCEPT ![k] = "pending"]
    /\ pubNext' = [pubNext EXCEPT ![k] = now]
    /\ UNCHANGED <<now, account, reachable, stored, pubToken, pubUntil, attempts, actor,
                   late, view>>

\* close cancels what is pending and blocks what is not yet acknowledged.
Close ==
    /\ account = "active" /\ now <= LastDisturbance
    /\ account' = "closed"
    /\ state' = [k \in Keys |-> IF state[k] \in Pending THEN "cancelled" ELSE state[k]]
    /\ revision' = [k \in Keys |-> IF state[k] \in Pending THEN revision[k] + 1 ELSE revision[k]]
    /\ endedAt' = [k \in Keys |-> IF state[k] \in Pending THEN now ELSE endedAt[k]]
    /\ pub' = [k \in Keys |-> IF Open(k) THEN "blocked" ELSE pub[k]]
    /\ pubToken' = [k \in Keys |-> IF Open(k) THEN 0 ELSE pubToken[k]]
    /\ pubUntil' = [k \in Keys |-> IF Open(k) THEN 0 ELSE pubUntil[k]]
    /\ UNCHANGED <<now, reachable, stored, pubNext, attempts, actor, late, view>>

\* The recipient's account begins to move, or its move is called off.
Fence ==
    /\ now <= LastDisturbance
    /\ \/ account = "active" /\ account' = "fenced"
       \/ account = "fenced" /\ account' = "active"
    /\ UNCHANGED <<now, reachable, row, stored, publication, actor, late, view>>

\* The sender's account moves, or PLC resolution fails, for a while.
Outage ==
    /\ reachable => now <= LastDisturbance
    /\ reachable' = ~reachable
    /\ UNCHANGED <<now, account, row, stored, publication, actor, late, view>>

Tick ==
    /\ now < MaxTime
    /\ now' = now + 1
    /\ UNCHANGED <<account, reachable, row, stored, publication, actor, late, view>>

-----------------------------------------------------------------------------
(* signCurrent, for an answer or for a push: one read, then, after the key  *)
(* is resolved and the signature made, one transaction.                     *)

Row(k) == [key |-> k, rev |-> revision[k], state |-> state[k]]

Rest(x) ==
    /\ pc' = [pc EXCEPT ![x] = "idle"]
    /\ task' = [task EXCEPT ![x] = NoKey]
    /\ token' = [token EXCEPT ![x] = 0]
    /\ snap' = [snap EXCEPT ![x] = NoSnap]

\* A call without a usable answer is over; a publisher goes on to finish.
GiveUp(x) ==
    IF x \in Calls THEN Rest(x) /\ reply' = [reply EXCEPT ![x] = "none"]
    ELSE /\ pc' = [pc EXCEPT ![x] = "replied"]
         /\ reply' = [reply EXCEPT ![x] = "none"]
         /\ UNCHANGED <<task, token, snap>>

Read(x) ==
    /\ pc[x] = "signing"
    /\ pc' = [pc EXCEPT ![x] = "storing"]
    /\ snap' = [snap EXCEPT ![x] = Row(task[x])]
    /\ UNCHANGED <<now, account, reachable, row, stored, publication, task, token, reply,
                   late, view>>

\* The stored payload of the revision, if any, is the one just read.
Storable(s) ==
    /\ account = "active"
    /\ \A t \in stored : t.key = s.key /\ t.rev = s.rev => t = s

Store(x) ==
    /\ pc[x] = "storing"
    /\ Storable(snap[x])
    /\ stored' = stored \cup {snap[x]}
    /\ pc' = [pc EXCEPT ![x] = "sending"]
    /\ UNCHANGED <<now, account, reachable, row, publication, task, token, snap, reply,
                   late, view>>

\* The key does not resolve, a trigger or the comparison raises, the request is
\* aborted, or the packet is lost.
Break(x) ==
    /\ pc[x] \in {"signing", "storing", "sending"}
    /\ GiveUp(x)
    /\ UNCHANGED <<now, account, reachable, row, stored, publication, late, view>>

-----------------------------------------------------------------------------
(* DeliveryStatusReceiver at the sender.                                    *)

\* Mutation: a first snapshot must be revision 1.
VerdictInOrder(s) ==
    LET cur == mine[s.key]
    IN  IF ~reachable THEN "unknown"
        ELSE IF cur = NoSnap
        THEN IF s.rev > 1 THEN "conflict" ELSE "acknowledged"
        ELSE IF s.rev < cur.rev \/ s = cur THEN "acknowledged"
        ELSE IF s.rev = cur.rev \/ cur.state \in Terminal \/ s.state = "accepted"
        THEN "conflict" ELSE "acknowledged"

Verdict(s) ==
    LET cur == mine[s.key]
    IN  IF ~reachable THEN "unknown"
        ELSE IF cur = NoSnap
        THEN IF s.state = "on-hold" THEN "conflict" ELSE "acknowledged"
        ELSE IF s.rev < cur.rev \/ s = cur THEN "acknowledged"
        ELSE IF s.rev = cur.rev \/ cur.state \in Terminal \/ s.state = "accepted"
        THEN "conflict" ELSE "acknowledged"

\* Mutation: a stale snapshot is stored as well.
NewsAlways(s) == Verdict(s) = "acknowledged"

\* The snapshot replaces the stored one.
News(s) ==
    /\ Verdict(s) = "acknowledged"
    /\ mine[s.key] # NoSnap => s.rev > mine[s.key].rev

\* Mutation: revisions before the first one seen are not counted.
ApplyFromFirst(s) ==
    LET k == s.key
        before == IF mine[k] = NoSnap THEN s.rev - 1 ELSE mine[k].rev
    IN  IF News(s)
        THEN /\ mine' = [mine EXCEPT ![k] = s]
             /\ gap' = [gap EXCEPT ![k] = gap[k] + (s.rev - before - 1)]
             /\ applied' = [applied EXCEPT ![k] = applied[k] + 1]
        ELSE UNCHANGED view

\* apply: the revisions skipped are added to the audit gap.
Apply(s) ==
    LET k == s.key
        before == IF mine[k] = NoSnap THEN 0 ELSE mine[k].rev
    IN  IF News(s)
        THEN /\ mine' = [mine EXCEPT ![k] = s]
             /\ gap' = [gap EXCEPT ![k] = gap[k] + (s.rev - before - 1)]
             /\ applied' = [applied EXCEPT ![k] = applied[k] + 1]
        ELSE UNCHANGED view

-----------------------------------------------------------------------------
(* Submission: submitEnvelope at the sender, /hail/envelopes here.          *)

Post(c, k) ==
    /\ pc[c] = "idle" /\ now <= LastDisturbance
    /\ pc' = [pc EXCEPT ![c] = "posted"]
    /\ task' = [task EXCEPT ![c] = k]
    /\ reply' = [reply EXCEPT ![c] = "none"]
    /\ UNCHANGED <<now, account, reachable, row, stored, publication, token, snap, late, view>>

\* The envelope is accepted, or is a duplicate of one that was.
Arrive(c) ==
    LET k == task[c]
    IN  /\ pc[c] = "posted"
        /\ account # "closed"
        /\ state[k] = "none" => account = "active"
        /\ pc' = [pc EXCEPT ![c] = "signing"]
        /\ IF state[k] = "none"
           THEN /\ state' = [state EXCEPT ![k] = "accepted"]
                /\ revision' = [revision EXCEPT ![k] = 1]
           ELSE UNCHANGED <<state, revision>>
        /\ UNCHANGED <<now, account, reachable, endedAt, stored, publication, task, token,
                       snap, reply, late, view>>

\* The generic receipt, or no answer at all.
Ignore(c) ==
    /\ pc[c] = "posted"
    /\ Rest(c)
    /\ UNCHANGED <<now, account, reachable, row, stored, publication, reply, late, view>>

\* The answer reaches the sender, which hands it to its receiver.
Answer(c) ==
    /\ pc[c] = "sending"
    /\ Apply(snap[c])
    /\ reply' = [reply EXCEPT ![c] = Verdict(snap[c])]
    /\ Rest(c)
    /\ UNCHANGED <<now, account, reachable, row, stored, publication, late>>

-----------------------------------------------------------------------------
(* TerminalStatusPublisher.publishOne.                                      *)

\* retryUntil
Horizon(k) == IF Replay > endedAt[k] + RetryFor THEN Replay ELSE endedAt[k] + RetryFor

\* Mutation: only rows that were never leased are taken.
DueFresh(k) ==
    /\ Open(k) /\ pubNext[k] <= now
    /\ pubUntil[k] = 0
    /\ account # "fenced"

Due(k) ==
    /\ Open(k) /\ pubNext[k] <= now
    /\ pubUntil[k] <= now
    /\ account # "fenced"

Claim(p, k) ==
    /\ pc[p] = "idle"
    /\ Due(k)
    /\ attempts' = [attempts EXCEPT ![k] = attempts[k] + 1]
    /\ pubToken' = [pubToken EXCEPT ![k] = attempts[k] + 1]
    /\ pubUntil' = [pubUntil EXCEPT ![k] = now + LeaseLength]
    /\ pc' = [pc EXCEPT ![p] = "signing"]
    /\ task' = [task EXCEPT ![p] = k]
    /\ token' = [token EXCEPT ![p] = attempts[k] + 1]
    /\ UNCHANGED <<now, account, reachable, row, stored, pub, pubNext, snap, reply, late, view>>

\* The push is processed; its answer arrives or does not (a generic receipt
\* counts as none).
Push(p) ==
    /\ pc[p] = "sending"
    /\ Apply(snap[p])
    /\ pc' = [pc EXCEPT ![p] = "replied"]
    /\ \E r \in {Verdict(snap[p]), "none"} : reply' = [reply EXCEPT ![p] = r]
    /\ UNCHANGED <<now, account, reachable, row, stored, publication, task, token, snap, late>>

\* The publisher times out and the request is still on its way.
Delay(p) ==
    /\ pc[p] = "sending"
    /\ late' = late \cup {snap[p]}
    /\ GiveUp(p)
    /\ UNCHANGED <<now, account, reachable, row, stored, publication, view>>

PushLate(s) ==
    /\ s \in late
    /\ late' = late \ {s}
    /\ Apply(s)
    /\ UNCHANGED <<now, account, reachable, row, stored, publication, actor>>

LoseLate(s) ==
    /\ s \in late
    /\ late' = late \ {s}
    /\ UNCHANGED <<now, account, reachable, row, stored, publication, actor, view>>

\* The WHERE clause of finish.
Owns(p) == pubToken[task[p]] = token[p] /\ Open(task[p])

\* Mutation: every answer counts as a receipt.
OutcomeOptimistic(p) ==
    IF reply[p] \in {"acknowledged", "unknown"} THEN "acknowledged"
    ELSE IF reply[p] = "conflict" \/ now >= Horizon(task[p]) THEN "blocked" ELSE "retry"

Outcome(p) ==
    IF reply[p] = "acknowledged" THEN "acknowledged"
    ELSE IF reply[p] = "conflict" \/ now >= Horizon(task[p]) THEN "blocked" ELSE "retry"

Finish(p) ==
    LET k == task[p]
        o == Outcome(p)
    IN  /\ pc[p] = "replied"
        /\ Owns(p) /\ account = "active"
        /\ pub' = [pub EXCEPT ![k] = o]
        /\ pubToken' = [pubToken EXCEPT ![k] = 0]
        /\ pubUntil' = [pubUntil EXCEPT ![k] = 0]
        /\ IF o = "retry"
           THEN \E t \in (now + 1) .. Horizon(k) : pubNext' = [pubNext EXCEPT ![k] = t]
           ELSE UNCHANGED pubNext
        /\ Rest(p)
        /\ reply' = [reply EXCEPT ![p] = "none"]
        /\ UNCHANGED <<now, account, reachable, row, stored, attempts, late, view>>

\* The row is another's or closed, or the fence raises.
FinishNothing(p) ==
    /\ pc[p] = "replied"
    /\ ~Owns(p) \/ account # "active"
    /\ Rest(p)
    /\ reply' = [reply EXCEPT ![p] = "none"]
    /\ UNCHANGED <<now, account, reachable, row, stored, publication, late, view>>

Crash(p) ==
    /\ pc[p] # "idle" /\ now <= LastDisturbance
    /\ Rest(p)
    /\ reply' = [reply EXCEPT ![p] = "none"]
    /\ UNCHANGED <<now, account, reachable, row, stored, publication, late, view>>

-----------------------------------------------------------------------------
Recipient ==
    \/ \E k \in Keys : Hold(k) \/ \E s \in Terminal : End(k, s)
    \/ Close \/ Fence

Sign(x) == Read(x) \/ Store(x) \/ Break(x)

Submit(c) == (\E k \in Keys : Post(c, k)) \/ Arrive(c) \/ Ignore(c) \/ Answer(c)

Publish(p) == Push(p) \/ Delay(p) \/ Finish(p) \/ FinishNothing(p)

Next ==
    \/ Recipient \/ Outage \/ Tick
    \/ \E x \in Actors : Sign(x)
    \/ \E c \in Calls : Submit(c)
    \/ \E p \in Publishers : Publish(p) \/ Crash(p) \/ \E k \in Keys : Claim(p, k)
    \/ \E s \in late : PushLate(s) \/ LoseLate(s)

Spec == Init /\ [][Next]_vars

-----------------------------------------------------------------------------
(* Properties.                                                              *)

TypeOK ==
    /\ now \in Nat
    /\ account \in {"active", "fenced", "closed"} /\ reachable \in BOOLEAN
    /\ state \in [Keys -> {"none"} \cup States]
    /\ revision \in [Keys -> Nat] /\ endedAt \in [Keys -> Nat]
    /\ stored \subseteq Snapshots /\ late \subseteq Snapshots
    /\ pub \in [Keys -> {"none", "pending", "retry", "blocked", "acknowledged"}]
    /\ pubToken \in [Keys -> Nat] /\ pubUntil \in [Keys -> Nat]
    /\ pubNext \in [Keys -> Nat] /\ attempts \in [Keys -> Nat]
    /\ pc \in [Actors -> {"idle", "posted", "signing", "storing", "sending", "replied"}]
    /\ task \in [Actors -> Keys \cup {NoKey}] /\ token \in [Actors -> Nat]
    /\ snap \in [Actors -> Snapshots \cup {NoSnap}]
    /\ reply \in [Actors -> Verdicts \cup {"none"}]
    /\ mine \in [Keys -> Snapshots \cup {NoSnap}]
    /\ gap \in [Keys -> Nat] /\ applied \in [Keys -> Nat]

\* What the sender believes, the recipient signed and stored, at a revision the
\* row has reached; at the row's own revision it is the row's own state
\* (signCurrent, apply).
AuthenticView ==
    \A k \in Keys : mine[k] # NoSnap =>
        /\ mine[k] \in stored /\ mine[k].key = k
        /\ mine[k].rev <= revision[k]
        /\ mine[k].rev = revision[k] => mine[k] = Row(k)

\* A push is acknowledged only when the sender holds the terminal state, with
\* lost answers, late requests and two publishers at once (publishOne).
AckIsTruthful ==
    \A k \in Keys : pub[k] = "acknowledged" => state[k] \in Terminal /\ mine[k] = Row(k)

\* A genuine terminal status is never refused: a publication is blocked only
\* by the closure of the account or after the retry horizon (apply, finish).
BlockedOnlyAtTheEnd ==
    \A k \in Keys : pub[k] = "blocked" => account = "closed" \/ now >= Horizon(k)

\* The audit gap counts exactly the revisions the sender never stored,
\* whatever order and however often the snapshots came (apply).
GapIsExact ==
    \A k \in Keys : gap[k] + applied[k] = IF mine[k] = NoSnap THEN 0 ELSE mine[k].rev

\* The sender's revision only grows, and a terminal state stays (apply).
ViewMoves ==
    [][\A k \in Keys : mine[k] # NoSnap =>
         /\ mine'[k] # NoSnap /\ mine'[k].rev >= mine[k].rev
         /\ mine[k].state \in Terminal => mine'[k] = mine[k]]_vars

\* A publisher whose lease was taken over ends without writing (finish).
LatePublisherHarmless ==
    [][\A p \in Publishers :
         pc[p] = "replied" /\ pc'[p] = "idle" /\ token[p] < attempts[task[p]]
         => UNCHANGED publication]_vars

-----------------------------------------------------------------------------
(* Time passes, the polling loop claims due publications and publishOne     *)
(* runs to its end.                                                         *)

Fairness ==
    /\ WF_vars(Tick)
    /\ \A k \in Keys : WF_vars(\E p \in Publishers : Claim(p, k))
    /\ \A p \in Publishers : WF_vars(Sign(p) \/ Publish(p))

LiveSpec == Spec /\ Fairness

\* Every publication ends, acknowledged or blocked, unless the account is being
\* moved away: no crash, lost answer or lease leaves it open for ever (publishOne, finish).
PublicationEnds == \A k \in Keys : Open(k) ~> (~Open(k) \/ account = "fenced")

=============================================================================
