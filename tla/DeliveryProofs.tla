---------------------------- MODULE DeliveryProofs ----------------------------
(***************************************************************************)
(* Proofs about Delivery for every set of keys, payloads, permissions,     *)
(* accounts and workers, every lease length and every budget.              *)
(***************************************************************************)
EXTENDS Delivery, FiniteSetTheorems, TLAPS

\* A key, its envelope, the decision on it and its work agree; an envelope was
\* a candidate, so the permission it cites belongs to its recipient.
RowsAgree ==
    /\ \A p \in inbox : Owner[Cites[p]] = To[p]
    /\ \A k \in Keys :
         /\ env[k] = NoPayload <=> outcome[k] = "none"
         /\ env[k] # NoPayload => Owner[Cites[env[k]]] = To[env[k]]
         /\ outcome[k] = "accepted" <=> state[k] # "none"

\* A worker that is not idle holds a claim on accepted work; the token in the
\* row is the one of the latest claim, or none.
ClaimsAgree ==
    /\ \A w \in Workers : pc[w] # "idle" =>
         /\ job[w] \in Keys /\ outcome[job[w]] = "accepted"
         /\ token[w] > 0 /\ token[w] <= attempts[job[w]]
    /\ \A k \in Keys : leaseToken[k] \in {0, attempts[k]}

\* A delivered reply has consumed its capability, and remains its claimant.
DeliveredConsumes ==
    \A k \in Keys : state[k] = "delivered" /\ Uses(k) # NoReply =>
        capability[Uses(k)] = "consumed" /\ claimant[Uses(k)] = k

IndInv ==
    /\ TypeOK
    /\ RowsAgree
    /\ ClaimsAgree
    /\ CapabilityHeld
    /\ DeliveredConsumes
    /\ VisibleAndPublished

-----------------------------------------------------------------------------

\* What Uses names when it names something.
LEMMA UsesFact ==
    ASSUME NEW k \in Keys, TypeOK, RowsAgree
    PROVE  /\ Uses(k) \in Replies \cup {NoReply}
           /\ Uses(k) # NoReply <=> /\ outcome[k] = "accepted"
                                    /\ Cites[env[k]] \in Replies
           /\ Uses(k) # NoReply => Uses(k) = Cites[env[k]]
BY SetsAssumption DEF Uses

\* A message with accepted work has an envelope.
LEMMA WorkHasEnvelope ==
    ASSUME NEW k \in Keys, TypeOK, RowsAgree, outcome[k] = "accepted"
    PROVE  env[k] \in Payloads
BY DEF TypeOK, RowsAgree

\* Every step keeps the types.
LEMMA TypeStep ==
    ASSUME TypeOK, RowsAgree, ClaimsAgree, [Next]_vars
    PROVE  TypeOK'
<1> USE SetsAssumption, AttributesAssumption, LimitsAssumption
<1> USE DEF TypeOK, Pending, Terminal, Reasons, Stages, rights, replies, received, work, worker
<1>1. ASSUME NEW p \in Payloads, Admit(p) PROVE TypeOK'
  <2> DEFINE Decisions == {"accepted", "unauthorized", "message-expired"}
  <2>0. ASSUME NEW o \in Decisions, Reserve(p, o),
               standing' \in [Standing -> {"none", "active", "ending", "ended", "lapsed"}],
               capability' \in [Replies -> {"none", "available", "claimed", "consumed"}],
               claimant' \in [Replies -> Keys \cup {NoKey}]
        PROVE  TypeOK'
    <3>1. KeyOf[p] \in Keys OBVIOUS
    <3>2. CASE o = "accepted" BY <2>0, <3>1, <3>2, SMTT(60) DEF Reserve
    <3>3. CASE o # "accepted" BY <2>0, <3>1, <3>3, SMTT(60) DEF Reserve
    <3> QED BY <3>2, <3>3
  <2>1. CASE Receive(p) BY <2>1 DEF Receive
  <2>2. CASE Discard(p) BY <2>2 DEF Discard
  <2>3. CASE AcceptGrant(p)
    <3>1. PICK o \in Decisions : Reserve(p, o) BY <2>3 DEF AcceptGrant, Decision
    <3> QED BY <2>0, <2>3, <3>1 DEF AcceptGrant
  <2>4. CASE AcceptReply(p)
    <3>1. PICK o \in Decisions : Reserve(p, o) BY <2>4 DEF AcceptReply, Decision
    <3> QED BY SMTT(40), <2>0, <2>4, <3>1 DEF AcceptReply
  <2>5. CASE AcceptConnection(p)
    <3>1. PICK o \in Decisions : Reserve(p, o) BY <2>5 DEF AcceptConnection, Decision
    <3> QED BY <2>0, <2>5, <3>1 DEF AcceptConnection
  <2>6. CASE AcceptConversation(p)
    <3>1. PICK o \in Decisions : Reserve(p, o) BY <2>6 DEF AcceptConversation, Decision
    <3> QED BY <2>0, <2>6, <3>1 DEF AcceptConversation, Standing
  <2> QED BY <1>1, <2>1, <2>2, <2>3, <2>4, <2>5, <2>6 DEF Admit
<1>2. CASE Relate
  BY SMTT(40), <1>2 DEF Relate, CreateSent, Revoke, Disconnect, PeerDisconnects, Learn, Pause, Resume,
              Leave, Lapse, Renew, Restand, Repause, Standing
<1>3. ASSUME NEW d \in Movable, Manage(d) PROVE TypeOK'
  <2> USE DEF SetAccount
  <2>1. CASE Fence(d) BY <2>1 DEF Fence
  <2>2. CASE Release(d) BY <2>2 DEF Release
  <2>3. CASE Retire(d) BY <2>3 DEF Retire
  <2>4. CASE Close(d) BY <2>4 DEF Close
  <2> QED BY <1>3, <2>1, <2>2, <2>3, <2>4 DEF Manage
<1>4. ASSUME NEW k \in Keys, Remove(k) PROVE TypeOK' BY <1>4 DEF Remove
<1>5. CASE Tick BY <1>5 DEF Tick
<1>6. ASSUME NEW w \in Workers, Step(w) PROVE TypeOK'
  <2> USE DEF ClaimsAgree
  <2>20. ASSUME NEW a \in Authorities, NEW answer, ApplySnapshot(a, answer)
        PROVE  standing' \in [Standing -> {"none", "active", "ending", "ended", "lapsed"}]
    BY <2>20 DEF ApplySnapshot
  <2>21. ASSUME NEW stage \in Stages, Move(w, stage),
               standing' \in [Standing -> {"none", "active", "ending", "ended", "lapsed"}]
        PROVE  TypeOK'
    BY <2>21 DEF Move
  <2>22. ASSUME NEW k \in Keys, NEW s \in Terminal, NEW why \in Reasons, Finish(k, s, why),
               visible' \subseteq Keys, Stop(w)
        PROVE  TypeOK'
    BY <2>22, SMTT(60) DEF Finish, Stop
  <2>23. pc[w] # "idle" => job[w] \in Keys /\ env[job[w]] \in Payloads
    BY WorkHasEnvelope
  <2>1. CASE CheckExpired(w) BY <2>1 DEF CheckExpired, Move
  <2>2. CASE CheckAuthority(w)
    <3>1. PICK answer : /\ Move(w, After(answer, "retrieving", "rejecting"))
                        /\ ApplySnapshot(Cites[env[job[w]]], answer)
      BY <2>2 DEF CheckAuthority
    <3>2. After(answer, "retrieving", "rejecting") \in Stages BY DEF After
    <3>3. Cites[env[job[w]]] \in Authorities BY <2>2, <2>23 DEF CheckAuthority
    <3> QED BY <2>20, <2>21, <3>1, <3>2, <3>3
  <2>3. CASE Retrieve(w) BY <2>3 DEF Retrieve, Move
  <2>4. CASE Authorize(w)
    <3>1. PICK answer : /\ Move(w, After(answer, "delivering", "denied"))
                        /\ ApplySnapshot(Cites[env[job[w]]], answer)
      BY <2>4 DEF Authorize
    <3>2. After(answer, "delivering", "denied") \in Stages BY DEF After
    <3>3. Cites[env[job[w]]] \in Authorities BY <2>4, <2>23 DEF Authorize
    <3> QED BY <2>20, <2>21, <3>1, <3>2, <3>3
  <2>5. CASE LoseLease(w) BY <2>5 DEF LoseLease, Stop
  <2>6. CASE DeliverThrows(w) BY <2>6 DEF DeliverThrows, Move
  <2>7. CASE DeliverFails(w) BY <2>7, <2>22, <2>23 DEF DeliverFails
  <2>8. CASE Deliver(w) BY <2>8, <2>22, <2>23 DEF Deliver
  <2>9. CASE Fail(w)
    <3>1. FailureReason(w) \in Reasons BY DEF FailureReason
    <3> QED BY SMTT(40), <2>9, <2>22, <2>23, <3>1 DEF Fail
  <2>10. CASE Hold(w)
    <3>1. CASE Finish(job[w], "failed", "delivery-expired")
      BY <2>10, <2>22, <2>23, <3>1 DEF Hold
    <3>2. CASE ~Finish(job[w], "failed", "delivery-expired")
      BY <2>10, <2>23, <3>2, SMTT(150) DEF Hold, Stop
    <3> QED BY <3>1, <3>2
  <2>11. CASE Raise(w) BY SMTT(40), <2>11 DEF Raise, Move, Stop
  <2> QED BY <1>6, <2>1, <2>2, <2>3, <2>4, <2>5, <2>6, <2>7, <2>8, <2>9, <2>10, <2>11 DEF Step
<1>7. ASSUME NEW w \in Workers, Crash(w) PROVE TypeOK' BY <1>7 DEF Crash, Stop
<1>8. ASSUME NEW w \in Workers, NEW k \in Keys, Claim(w, k) PROVE TypeOK' BY <1>8 DEF Claim
<1>9. CASE UNCHANGED vars BY <1>9 DEF vars
<1> QED BY <1>1, <1>2, <1>3, <1>4, <1>5, <1>6, <1>7, <1>8, <1>9 DEF Next

-----------------------------------------------------------------------------
(* The seven things a step can do to the durable rows.                      *)

Decisions == {"accepted", "unauthorized", "message-expired"}

Untouched ==
    /\ UNCHANGED <<env, outcome, state, revision, replies, visible, published>>
    /\ \A d \in Local : account[d] = "closed" => account'[d] = "closed"

Takes(p, o) ==
    /\ Reservable(p) /\ Reserve(p, o)
    /\ IF o = "accepted" /\ Cites[p] \in Replies
       THEN /\ capability[Cites[p]] = "available"
            /\ capability' = [capability EXCEPT ![Cites[p]] = "claimed"]
            /\ claimant' = [claimant EXCEPT ![Cites[p]] = KeyOf[p]]
       ELSE UNCHANGED replies

Holds(k) ==
    /\ Active(k)
    /\ state' = [state EXCEPT ![k] = "on-hold"]
    /\ revision' = [revision EXCEPT ![k] = revision[k] + 1]
    /\ UNCHANGED <<env, outcome, replies, visible, published, account>>

Ends(k, s) ==
    /\ Active(k)
    /\ \E why \in Reasons : Finish(k, s, why)
    /\ visible' = IF s = "delivered" THEN visible \cup {k} ELSE visible

\* A step of Delivery is one of these.
Kinds ==
    \/ Untouched
    \/ \E p \in Payloads, o \in Decisions : Takes(p, o)
    \/ \E r \in Replies : CreateSent(r)
    \/ \E d \in Local : Close(d)
    \/ \E k \in Keys : Remove(k)
    \/ \E k \in Keys : Holds(k)
    \/ \E k \in Keys : Ends(k, "delivered") \/ Ends(k, "failed")

\* Every step of Delivery is of one of the seven kinds.
LEMMA StepKinds ==
    ASSUME TypeOK, ClaimsAgree, [Next]_vars
    PROVE  Kinds
<1> USE SetsAssumption
<1> USE DEF rights, replies, received, work, worker
<1>1. ASSUME NEW p \in Payloads, Admit(p) PROVE Kinds
  <2>1. CASE Receive(p) BY <2>1 DEF Receive, Kinds, Untouched
  <2>2. CASE Discard(p) BY <2>2 DEF Discard, Kinds, Untouched
  <2>3. CASE AcceptGrant(p)
    <3>1. Cites[p] \notin Replies BY <2>3 DEF AcceptGrant, Standing
    <3>2. PICK o \in Decisions : Reserve(p, o) BY <2>3 DEF AcceptGrant, Decision, Decisions
    <3>3. Takes(p, o) BY <2>3, <3>1, <3>2 DEF AcceptGrant, Takes
    <3> QED BY <3>3 DEF Kinds
  <2>4. CASE AcceptReply(p)
    <3> DEFINE o == Decision(p, ReplyPermitted(Cites[p]))
    <3>1. o \in Decisions /\ (o = "accepted" => ReplyPermitted(Cites[p]))
      BY DEF Decision, Decisions
    <3>2. Reservable(p) /\ Reserve(p, o) BY <2>4 DEF AcceptReply
    <3>3. IF o = "accepted"
          THEN /\ capability' = [capability EXCEPT ![Cites[p]] = "claimed"]
               /\ claimant' = [claimant EXCEPT ![Cites[p]] = KeyOf[p]]
          ELSE UNCHANGED replies
      BY <2>4 DEF AcceptReply
    <3>4. Cites[p] \in Replies BY <2>4 DEF AcceptReply
    <3> HIDE DEF o
    <3>5. Takes(p, o) BY <3>1, <3>2, <3>3, <3>4 DEF Takes, ReplyPermitted
    <3> QED BY <3>1, <3>5 DEF Kinds
  <2>5. CASE AcceptConnection(p)
    <3>1. Cites[p] \notin Replies BY <2>5 DEF AcceptConnection, Standing
    <3>2. PICK o \in Decisions : Reserve(p, o)
      BY <2>5 DEF AcceptConnection, Decision, Decisions
    <3>3. Takes(p, o) BY <2>5, <3>1, <3>2 DEF AcceptConnection, Takes
    <3> QED BY <3>3 DEF Kinds
  <2>6. CASE AcceptConversation(p)
    <3>1. Cites[p] \notin Replies BY <2>6 DEF AcceptConversation, Standing
    <3>2. PICK o \in Decisions : Reserve(p, o)
      BY <2>6 DEF AcceptConversation, Decision, Decisions
    <3>3. Takes(p, o) BY <2>6, <3>1, <3>2 DEF AcceptConversation, Takes
    <3> QED BY <3>3 DEF Kinds
  <2> QED BY <1>1, <2>1, <2>2, <2>3, <2>4, <2>5, <2>6 DEF Admit
<1>2. CASE Relate
  <2>1. CASE \E r \in Replies : CreateSent(r) BY <2>1 DEF Kinds
  <2>2. CASE ~\E r \in Replies : CreateSent(r)
    <3>1. Untouched
      BY <1>2, <2>2 DEF Relate, Revoke, Disconnect, PeerDisconnects, Learn, Pause, Resume, Leave, Lapse,
                        Renew, Restand, Repause, Untouched
    <3> QED BY <3>1 DEF Kinds
  <2> QED BY <2>1, <2>2
<1>3. ASSUME NEW d \in Movable, Manage(d) PROVE Kinds
  <2>1. CASE Close(d) BY <2>1 DEF Kinds
  <2>2. CASE ~Close(d)
    <3>1. Untouched
      BY <1>3, <2>2 DEF Manage, Fence, Release, Retire, SetAccount, Serving, TypeOK, Untouched
    <3> QED BY <3>1 DEF Kinds
  <2> QED BY <2>1, <2>2
<1>4. ASSUME NEW k \in Keys, Remove(k) PROVE Kinds BY <1>4 DEF Kinds
<1>5. CASE Tick BY <1>5 DEF Tick, Untouched, Kinds
<1>6. ASSUME NEW w \in Workers, Step(w) PROVE Kinds
  <2>1. ASSUME NEW stage, Move(w, stage) PROVE Untouched BY <2>1 DEF Move, Untouched
  <2>2. pc[w] # "idle" => job[w] \in Keys BY DEF ClaimsAgree
  <2>3. CASE CheckExpired(w) \/ CheckAuthority(w) \/ Retrieve(w) \/ Authorize(w) \/ DeliverThrows(w)
    <3>1. Untouched
      BY <2>1, <2>3 DEF CheckExpired, CheckAuthority, Retrieve, Authorize, DeliverThrows
    <3> QED BY <3>1 DEF Kinds
  <2>4. CASE LoseLease(w) \/ Raise(w)
    <3>1. Untouched BY <2>1, <2>4 DEF LoseLease, Raise, Untouched
    <3> QED BY <3>1 DEF Kinds
  <2>5. CASE Deliver(w)
    <3>1. Ends(job[w], "delivered") BY <2>5 DEF Deliver, Ends, OwnsClaim, Reasons
    <3> QED BY <2>2, <2>5, <3>1 DEF Kinds, Deliver
  <2>6. CASE DeliverFails(w)
    <3>1. Ends(job[w], "failed") BY <2>6 DEF DeliverFails, Ends, OwnsClaim, Reasons
    <3> QED BY <2>2, <2>6, <3>1 DEF Kinds, DeliverFails
  <2>7. CASE Fail(w)
    <3>1. FailureReason(w) \in Reasons BY DEF FailureReason, Reasons
    <3>2. Ends(job[w], "failed") BY <2>7, <3>1 DEF Fail, Ends, OwnsClaim
    <3> QED BY <2>2, <2>7, <3>2 DEF Kinds, Fail
  <2>8. CASE Hold(w)
    <3>1. CASE Finish(job[w], "failed", "delivery-expired")
      <4>1. Ends(job[w], "failed") BY <2>8, <3>1 DEF Hold, Ends, OwnsClaim, Reasons
      <4> QED BY <2>2, <2>8, <4>1 DEF Kinds, Hold
    <3>2. CASE ~Finish(job[w], "failed", "delivery-expired")
      <4>1. Holds(job[w]) BY <2>8, <3>2 DEF Hold, Holds, OwnsClaim
      <4> QED BY <2>2, <2>8, <4>1 DEF Kinds, Hold
    <3> QED BY <3>1, <3>2
  <2> QED BY <1>6, <2>3, <2>4, <2>5, <2>6, <2>7, <2>8 DEF Step
<1>7. ASSUME NEW w \in Workers, Crash(w) PROVE Kinds BY <1>7 DEF Crash, Untouched, Kinds
<1>8. ASSUME NEW w \in Workers, NEW k \in Keys, Claim(w, k) PROVE Kinds
  BY <1>8 DEF Claim, Untouched, Kinds
<1>9. CASE UNCHANGED vars BY <1>9 DEF vars, Untouched, Kinds
<1> QED BY <1>1, <1>2, <1>3, <1>4, <1>5, <1>6, <1>7, <1>8, <1>9 DEF Next

-----------------------------------------------------------------------------

\* Every step keeps keys, envelopes, decisions and work in agreement.
LEMMA RowsStep ==
    ASSUME TypeOK, RowsAgree, ClaimsAgree, [Next]_vars
    PROVE  RowsAgree'
<1> USE SetsAssumption, AttributesAssumption
<1>1. \A q \in inbox' : Owner[Cites[q]] = To[q]
  <2>1. inbox' \subseteq inbox \/ \E p \in Payloads : Receive(p)
    <3>1. ASSUME NEW p \in Payloads, Admit(p) PROVE inbox' \subseteq inbox \/ Receive(p)
      BY <3>1 DEF Admit, Discard, AcceptGrant, AcceptReply, AcceptConnection,
             AcceptConversation, Reserve
    <3>2. CASE Relate
      BY <3>2 DEF Relate, CreateSent, Revoke, Disconnect, PeerDisconnects, Learn, Pause, Resume,
             Leave, Lapse, Renew, Restand, Repause
    <3>3. CASE (\E d \in Movable : Manage(d)) \/ (\E k \in Keys : Remove(k)) \/ Tick
      BY <3>3 DEF Manage, Fence, Release, Retire, Close, SetAccount, Remove, Tick
    <3>4. ASSUME NEW w \in Workers, Step(w) PROVE inbox' = inbox
      BY <3>4 DEF Step, CheckExpired, CheckAuthority, Retrieve, Authorize, LoseLease,
             DeliverThrows, DeliverFails, Deliver, Fail, Hold, Raise, Finish, Move
    <3>5. CASE UNCHANGED vars \/ \E w \in Workers : Crash(w) \/ \E k \in Keys : Claim(w, k)
      BY <3>5 DEF Crash, Claim, vars
    <3> QED BY <3>1, <3>2, <3>3, <3>4, <3>5 DEF Next
  <2> QED BY <2>1 DEF Receive, Candidate, RowsAgree
<1> DEFINE Agree == \A k \in Keys :
      /\ env[k] = NoPayload <=> outcome[k] = "none"
      /\ env[k] # NoPayload => Owner[Cites[env[k]]] = To[env[k]]
      /\ outcome[k] = "accepted" <=> state[k] # "none"
<1>2. Agree'
  <2> USE DEF TypeOK, RowsAgree, Active, Pending, Terminal
  <2>1. CASE Untouched BY <2>1 DEF Untouched
  <2>2. ASSUME NEW p \in Payloads, NEW o \in Decisions, Takes(p, o) PROVE Agree'
    <3>1. KeyOf[p] \in Keys /\ Owner[Cites[p]] = To[p] /\ state[KeyOf[p]] = "none"
      BY <2>2 DEF Takes, Reservable
    <3>2. env' = [env EXCEPT ![KeyOf[p]] = p] /\ outcome' = [outcome EXCEPT ![KeyOf[p]] = o]
      BY <2>2 DEF Takes, Reserve
    <3>3. state' = IF o = "accepted" THEN [state EXCEPT ![KeyOf[p]] = "accepted"] ELSE state
      BY <2>2 DEF Takes, Reserve
    <3> QED BY <3>1, <3>2, <3>3 DEF Decisions
  <2>3. ASSUME NEW r \in Replies, CreateSent(r) PROVE Agree'
    BY <2>3 DEF CreateSent, received, work
  <2>4. ASSUME NEW d \in Local, Close(d) PROVE Agree'
    BY <2>4 DEF Close, SetAccount, received
  <2>5. ASSUME NEW k \in Keys, Remove(k) PROVE Agree' BY <2>5 DEF Remove, received, work
  <2>6. ASSUME NEW k \in Keys, Holds(k) PROVE Agree' BY <2>6 DEF Holds
  <2>7. ASSUME NEW k \in Keys, NEW s \in {"delivered", "failed"}, Ends(k, s) PROVE Agree'
    BY <2>7 DEF Ends, Finish, received
  <2> QED BY StepKinds, <2>1, <2>2, <2>3, <2>4, <2>5, <2>6, <2>7 DEF Kinds
<1> QED BY <1>1, <1>2 DEF RowsAgree

\* Only workers and closure touch the claims, the failure reasons and the
\* workers' own state.
LEMMA QuietSteps ==
    ASSUME [Next]_vars
    PROVE  \/ UNCHANGED <<pc, job, token, attempts, leaseToken, reason>>
           \/ \E d \in Local : Close(d)
           \/ \E w \in Workers : Step(w) \/ Crash(w) \/ \E k \in Keys : Claim(w, k)
<1> DEFINE Quiet == UNCHANGED <<pc, job, token, attempts, leaseToken, reason>>
<1> USE DEF work, worker
<1>1. ASSUME NEW p \in Payloads, Admit(p) PROVE Quiet
  <2>1. CASE Receive(p) \/ Discard(p) BY <2>1 DEF Receive, Discard
  <2>2. CASE \E o : Reserve(p, o) BY <2>2 DEF Reserve
  <2> QED BY <1>1, <2>1, <2>2 DEF Admit, AcceptGrant, AcceptReply, AcceptConnection, AcceptConversation
<1>2. CASE Relate
  <2>1. CASE \E r \in Replies : CreateSent(r) BY <2>1 DEF CreateSent
  <2>2. CASE \E a, x : Restand(a, x) BY <2>2 DEF Restand
  <2>3. CASE \E x : Repause(x) BY <2>3 DEF Repause
  <2> QED BY <1>2, <2>1, <2>2, <2>3 DEF Relate, Revoke, Disconnect, PeerDisconnects, Learn, Pause,
             Resume, Leave, Lapse, Renew
<1>3. ASSUME NEW d \in Movable, Manage(d), ~Close(d) PROVE Quiet
  BY <1>3 DEF Manage, Fence, Release, Retire, SetAccount
<1>4. CASE Tick \/ \E k \in Keys : Remove(k) BY <1>4 DEF Tick, Remove
<1>5. CASE UNCHANGED vars BY <1>5 DEF vars
<1> QED BY <1>1, <1>2, <1>3, <1>4, <1>5, SetsAssumption DEF Next

\* Every step keeps workers, tokens and attempts in agreement.
LEMMA ClaimsStep ==
    ASSUME TypeOK, RowsAgree, ClaimsAgree, [Next]_vars
    PROVE  ClaimsAgree'
<1> USE SetsAssumption, AttributesAssumption
<1> USE DEF TypeOK, ClaimsAgree, rights, replies, received, work, worker
<1>0. \A k \in Keys : outcome[k] = "accepted" => outcome'[k] = "accepted"
  <2> USE DEF RowsAgree
  <2>1. UNCHANGED outcome \/ \E p \in Payloads, o \in Decisions : Takes(p, o)
    BY StepKinds DEF Kinds, Untouched, CreateSent, Close, SetAccount, Remove, Holds, Ends, Finish
  <2> QED BY <2>1 DEF Takes, Reservable, Reserve
<1>1. CASE UNCHANGED <<pc, job, token, attempts, leaseToken>> BY <1>0, <1>1
<1>2. ASSUME NEW d \in Local, Close(d) PROVE ClaimsAgree'
  BY <1>0, <1>2 DEF Close, SetAccount
<1>3. ASSUME NEW w \in Workers, NEW k \in Keys, Claim(w, k) PROVE ClaimsAgree'
  <2>1. outcome[k] = "accepted" BY <1>3 DEF Claim, Due, Active, RowsAgree, Pending
  <2> QED BY <1>0, <1>3, <2>1 DEF Claim
<1>4. ASSUME NEW w \in Workers, NEW stage, Move(w, stage), pc[w] # "idle" PROVE ClaimsAgree'
  BY <1>0, <1>4 DEF Move
<1>5. ASSUME NEW w \in Workers, Stop(w), UNCHANGED attempts,
             \A k \in Keys : leaseToken'[k] \in {0, leaseToken[k]}
      PROVE  ClaimsAgree'
  BY <1>0, <1>5 DEF Stop
<1>6. ASSUME NEW w \in Workers, Step(w) \/ Crash(w) PROVE ClaimsAgree'
  <2>1. CASE \E stage : Move(w, stage) /\ pc[w] # "idle" BY <1>4, <2>1
  <2>2. CASE ~\E stage : Move(w, stage) /\ pc[w] # "idle"
    <3>1. Stop(w) /\ UNCHANGED attempts
      BY <1>6, <2>2 DEF Step, CheckExpired, CheckAuthority, Retrieve, Authorize, LoseLease,
             DeliverThrows, DeliverFails, Deliver, Fail, Hold, Raise, Finish, Crash
    <3>2. \A k \in Keys : leaseToken'[k] \in {0, leaseToken[k]}
      BY <1>6, <2>2 DEF Step, CheckExpired, CheckAuthority, Retrieve, Authorize, LoseLease,
             DeliverThrows, DeliverFails, Deliver, Fail, Hold, Raise, Finish, Crash
    <3> QED BY <1>5, <3>1, <3>2
  <2> QED BY <2>1, <2>2
<1>7. \/ UNCHANGED <<pc, job, token, attempts, leaseToken>>
      \/ \E d \in Local : Close(d)
      \/ \E w \in Workers : Step(w) \/ Crash(w) \/ \E k \in Keys : Claim(w, k)
  BY QuietSteps
<1> QED BY <1>1, <1>2, <1>3, <1>6, <1>7

\* Every step keeps each capability with the reply that holds or spent it.
LEMMA CapabilityStep ==
    ASSUME IndInv, [Next]_vars
    PROVE  CapabilityHeld' /\ DeliveredConsumes'
<1> USE SetsAssumption, AttributesAssumption
<1> USE DEF IndInv
<1> DEFINE Goal == CapabilityHeld' /\ DeliveredConsumes'
<1>0. TypeOK' /\ RowsAgree' BY TypeStep, RowsStep
<1>1. CASE Untouched
  <2>1. \A k \in Keys : Uses(k)' = Uses(k) BY <1>1 DEF Untouched, Uses
  <2>2. \A r \in Replies : Owner[r] \in Local BY DEF Authorities
  <2> QED BY <1>1, <2>1, <2>2, UsesFact
       DEF Untouched, CapabilityHeld, DeliveredConsumes, Active, replies
<1>2. ASSUME NEW p \in Payloads, NEW o \in Decisions, Takes(p, o) PROVE Goal
  <2> DEFINE n == KeyOf[p]
  <2>1. n \in Keys /\ outcome[n] = "none" /\ state[n] = "none"
    BY <1>2 DEF Takes, Reservable, RowsAgree, TypeOK
  <2>2. /\ env' = [env EXCEPT ![n] = p] /\ outcome' = [outcome EXCEPT ![n] = o]
        /\ state' = IF o = "accepted" THEN [state EXCEPT ![n] = "accepted"] ELSE state
        /\ account' = account
    BY <1>2 DEF Takes, Reserve
  <2>3. \A k \in Keys \ {n} : Uses(k)' = Uses(k) /\ state'[k] = state[k]
    BY <2>1, <2>2 DEF Uses, TypeOK
  <2>4. Uses(n) = NoReply BY <2>1 DEF Uses
  <2>5. \A k \in Keys : Uses(k) \in Replies \cup {NoReply} BY UsesFact
  <2>6. CASE o = "accepted" /\ Cites[p] \in Replies
    <3>1. Uses(n)' = Cites[p] /\ state'[n] = "accepted"
      BY <2>1, <2>2, <2>6 DEF Uses, TypeOK
    <3>2. /\ capability[Cites[p]] = "available"
          /\ capability' = [capability EXCEPT ![Cites[p]] = "claimed"]
          /\ claimant' = [claimant EXCEPT ![Cites[p]] = n]
      BY <1>2, <2>6 DEF Takes
    <3>3. CapabilityHeld'
      <4>1. ASSUME NEW k \in Keys, Active(k)', Uses(k)' # NoReply
            PROVE  (capability[Uses(k)] = "claimed" /\ claimant[Uses(k)] = k)'
        BY <2>3, <2>5, <2>6, <3>1, <3>2, <4>1 DEF Active, CapabilityHeld, TypeOK
      <4>2. ASSUME NEW r \in Replies, capability'[r] = "claimed"
            PROVE  /\ claimant'[r] \in Keys /\ Uses(claimant[r])' = r
                   /\ Active(claimant[r])' \/ account'[Owner[r]] = "closed"
        <5>1. CASE r = Cites[p]
          BY <2>1, <3>1, <3>2, <5>1 DEF Active, Pending, TypeOK
        <5>2. CASE r # Cites[p]
          <6>1. /\ claimant'[r] = claimant[r] /\ claimant[r] \in Keys
                /\ Uses(claimant[r]) = r
                /\ Active(claimant[r]) \/ account[Owner[r]] = "closed"
            BY <3>2, <4>2, <5>2 DEF CapabilityHeld, TypeOK
          <6>2. claimant[r] # n BY <2>4, <6>1
          <6> QED BY <2>2, <2>3, <6>1, <6>2 DEF Active
        <5> QED BY <5>1, <5>2
      <4> QED BY <4>1, <4>2 DEF CapabilityHeld
    <3>4. DeliveredConsumes'
      BY <2>3, <2>5, <3>1, <3>2 DEF DeliveredConsumes, TypeOK
    <3> QED BY <3>3, <3>4
  <2>7. CASE ~(o = "accepted" /\ Cites[p] \in Replies)
    <3>1. Uses(n)' = NoReply BY <2>1, <2>2, <2>7 DEF Uses, TypeOK
    <3>2. UNCHANGED <<capability, claimant>> BY <1>2, <2>7 DEF Takes, replies
    <3>3. \A r \in Replies : capability[r] = "claimed" => claimant[r] # n
      BY <2>4 DEF CapabilityHeld
    <3> QED BY <2>2, <2>3, <3>1, <3>2, <3>3 DEF CapabilityHeld, DeliveredConsumes, Active
  <2> QED BY <2>6, <2>7
<1>3. ASSUME NEW r \in Replies, CreateSent(r) PROVE Goal
  <2>1. \A k \in Keys : Uses(k)' = Uses(k) BY <1>3 DEF CreateSent, Uses, received
  <2> QED BY <1>3, <2>1, UsesFact
       DEF CreateSent, CapabilityHeld, DeliveredConsumes, Active, TypeOK, work, rights
<1>4. ASSUME NEW d \in Local, Close(d) PROVE Goal
  <2>1. \A k \in Keys : Uses(k)' = Uses(k) BY <1>4 DEF Close, SetAccount, Uses, received
  <2>2. UNCHANGED <<capability, claimant>> BY <1>4 DEF Close, SetAccount, replies
  <2>3. \A k \in Keys : /\ Active(k)' => Active(k)
                        /\ state'[k] = "delivered" => state[k] = "delivered"
                        /\ Active(k) /\ ~Active(k)' => env[k] # NoPayload /\ Recipient(k) = d
    BY <1>4 DEF Close, Active, Pending
  <2>4. account' = [account EXCEPT ![d] = "closed"] BY <1>4 DEF Close, SetAccount
  <2>5. \A r \in Replies : Owner[r] \in Local BY DEF Authorities
  <2>6. ASSUME NEW r \in Replies, capability[r] = "claimed"
        PROVE  Active(claimant[r])' \/ account'[Owner[r]] = "closed"
    <3>1. claimant[r] \in Keys /\ Uses(claimant[r]) = r BY <2>6 DEF CapabilityHeld
    <3>2. CASE Active(claimant[r]) /\ ~Active(claimant[r])'
      <4>1. env[claimant[r]] # NoPayload /\ Recipient(claimant[r]) = d BY <2>2, <2>3, <3>1, <3>2 DEF Active
      <4>2. Cites[env[claimant[r]]] = r BY <3>1, UsesFact
      <4>3. Owner[r] = d BY <3>1, <4>1, <4>2 DEF RowsAgree, Recipient
      <4> QED BY <2>4, <4>3 DEF TypeOK
    <3>3. CASE account[Owner[r]] = "closed" BY <2>4, <2>5, <3>3 DEF TypeOK
    <3> QED BY <2>2, <2>6, <3>2, <3>3 DEF CapabilityHeld
  <2> QED BY <2>1, <2>2, <2>3, <2>6 DEF CapabilityHeld, DeliveredConsumes
<1>5. ASSUME NEW k \in Keys, Remove(k) PROVE Goal
  <2>1. \A j \in Keys : Uses(j)' = Uses(j) BY <1>5 DEF Remove, Uses, received
  <2> QED BY <1>5, <2>1
       DEF Remove, CapabilityHeld, DeliveredConsumes, Active, work, rights, replies
<1>6. ASSUME NEW k \in Keys, Holds(k) PROVE Goal
  <2>1. \A j \in Keys : Uses(j)' = Uses(j) BY <1>6 DEF Holds, Uses
  <2>2. \A j \in Keys : /\ Active(j)' <=> Active(j)
                        /\ state'[j] = "delivered" => state[j] = "delivered"
    BY <1>6 DEF Holds, Active, Pending, TypeOK
  <2> QED BY <1>6, <2>1, <2>2 DEF Holds, CapabilityHeld, DeliveredConsumes, replies
<1>7. ASSUME NEW k \in Keys, NEW s \in {"delivered", "failed"}, Ends(k, s) PROVE Goal
  <2>1. \A j \in Keys : Uses(j)' = Uses(j) BY <1>7 DEF Ends, Finish, Uses, received
  <2>2. state' = [state EXCEPT ![k] = s] /\ account' = account
    BY <1>7 DEF Ends, Finish, rights
  <2>3. /\ ~Active(k)' /\ state'[k] = s
        /\ \A j \in Keys \ {k} : (Active(j)' <=> Active(j)) /\ state'[j] = state[j]
    BY <2>2 DEF Active, Pending, TypeOK
  <2>4. outcome[k] = "accepted" BY <1>7 DEF Ends, Active, Pending, RowsAgree
  <2>5. CASE Cites[env[k]] \in Replies
    <3> DEFINE r == Cites[env[k]]
    <3>1. Uses(k) = r /\ r # NoReply BY <2>4, <2>5 DEF Uses
    <3>2. capability[r] = "claimed" /\ claimant[r] = k
      BY <1>7, <2>5 DEF Ends, Finish, Writable, OwnsCapability
    <3>3. /\ capability' = [capability EXCEPT ![r] = IF s = "delivered" THEN "consumed" ELSE "available"]
          /\ claimant' = [claimant EXCEPT ![r] = IF s = "delivered" THEN k ELSE NoKey]
      BY <1>7, <2>5 DEF Ends, Finish
    <3>4. \A j \in Keys \ {k} : Active(j) \/ state[j] = "delivered" => Uses(j) # r
      BY <2>5, <3>1, <3>2 DEF CapabilityHeld, DeliveredConsumes
    <3>5. \A j \in Keys : Uses(j) \in Replies \cup {NoReply} BY UsesFact
    <3>6. \A q \in Replies \ {r} : capability[q] = "claimed" => claimant[q] # k
      BY <3>1 DEF CapabilityHeld
    <3> HIDE DEF r
    <3>7. DeliveredConsumes'
      BY <2>1, <2>3, <2>5, <3>1, <3>3, <3>4, <3>5 DEF DeliveredConsumes, TypeOK
    <3>8. CapabilityHeld'
      <4>1. ASSUME NEW j \in Keys, Active(j)', Uses(j)' # NoReply
            PROVE  (capability[Uses(j)] = "claimed" /\ claimant[Uses(j)] = j)'
        BY <2>1, <2>3, <3>3, <3>4, <3>5, <4>1 DEF CapabilityHeld, TypeOK
      <4>2. ASSUME NEW q \in Replies, capability'[q] = "claimed"
            PROVE  /\ claimant'[q] \in Keys /\ Uses(claimant[q])' = q
                   /\ Active(claimant[q])' \/ account'[Owner[q]] = "closed"
        <5>1. q # r BY <3>3, <4>2 DEF TypeOK
        <5>2. capability[q] = "claimed" /\ claimant'[q] = claimant[q] /\ claimant[q] # k
          BY <3>3, <3>6, <4>2, <5>1 DEF TypeOK
        <5> QED BY <2>1, <2>2, <2>3, <5>2 DEF CapabilityHeld
      <4> QED BY <4>1, <4>2 DEF CapabilityHeld
    <3> QED BY <3>7, <3>8
  <2>6. CASE Cites[env[k]] \notin Replies
    <3>1. Uses(k) = NoReply BY <2>6 DEF Uses
    <3>2. UNCHANGED <<capability, claimant>> BY <1>7, <2>6 DEF Ends, Finish, replies
    <3>3. \A r \in Replies : capability[r] = "claimed" => claimant[r] # k
      BY <3>1 DEF CapabilityHeld
    <3> QED BY <2>1, <2>2, <2>3, <3>1, <3>2, <3>3 DEF CapabilityHeld, DeliveredConsumes
  <2> QED BY <2>5, <2>6
<1> QED BY StepKinds, <1>1, <1>2, <1>3, <1>4, <1>5, <1>6, <1>7 DEF Kinds

\* Every step keeps the inbox and the status queue in agreement with the work.
LEMMA VisibleStep ==
    ASSUME IndInv, [Next]_vars
    PROVE  VisibleAndPublished'
<1> USE SetsAssumption, AttributesAssumption
<1> USE DEF IndInv, TypeOK, VisibleAndPublished, Active, Pending
<1>1. CASE Untouched BY <1>1 DEF Untouched
<1>2. ASSUME NEW p \in Payloads, NEW o \in Decisions, Takes(p, o) PROVE VisibleAndPublished'
  <2>1. KeyOf[p] \in Keys /\ state[KeyOf[p]] = "none"
    BY <1>2 DEF Takes, Reservable, RowsAgree
  <2>2. /\ state' = state \/ state' = [state EXCEPT ![KeyOf[p]] = "accepted"]
        /\ UNCHANGED <<visible, published>>
    BY <1>2 DEF Takes, Reserve
  <2> QED BY SMTT(40), <2>1, <2>2
<1>3. ASSUME NEW r \in Replies, CreateSent(r) PROVE VisibleAndPublished'
  BY <1>3 DEF CreateSent, work
<1>4. ASSUME NEW d \in Local, Close(d) PROVE VisibleAndPublished'
  BY <1>4 DEF Close, SetAccount
<1>5. ASSUME NEW k \in Keys, Remove(k) PROVE VisibleAndPublished' BY <1>5 DEF Remove, work
<1>6. ASSUME NEW k \in Keys, Holds(k) PROVE VisibleAndPublished' BY <1>6 DEF Holds
<1>7. ASSUME NEW k \in Keys, NEW s \in {"delivered", "failed"}, Ends(k, s)
      PROVE  VisibleAndPublished'
  BY <1>7 DEF Ends, Finish
<1> QED BY StepKinds, <1>1, <1>2, <1>3, <1>4, <1>5, <1>6, <1>7 DEF Kinds

-----------------------------------------------------------------------------

\* The inductive invariant holds in every reachable state.
THEOREM Invariance == Spec => []IndInv
<1>1. Init => IndInv
  BY SetsAssumption
  DEF Init, IndInv, TypeOK, RowsAgree, ClaimsAgree, CapabilityHeld, DeliveredConsumes,
      VisibleAndPublished, Active, Uses, Pending, Terminal, Reasons, Stages
<1>2. IndInv /\ [Next]_vars => IndInv'
  BY TypeStep, RowsStep, ClaimsStep, CapabilityStep, VisibleStep DEF IndInv
<1> QED BY <1>1, <1>2, PTL DEF Spec

\* Type correctness of the message path.
THEOREM TypeCorrect == Spec => []TypeOK
<1>1. IndInv => TypeOK BY DEF IndInv
<1> QED BY <1>1, Invariance, PTL

\* A reply capability is spent by at most one delivery: two delivered replies
\* would both be the claimant of the consumed capability.
THEOREM ReplySingleUse == Spec => []SingleUse
<1>1. IndInv => SingleUse BY DEF IndInv, DeliveredConsumes, SingleUse
<1> QED BY <1>1, Invariance, PTL

\* An unfinished reply holds its capability, and a claimed capability has an
\* unfinished holder unless its owner closed the account.
THEOREM ReplyCapabilityHeld == Spec => []CapabilityHeld
<1>1. IndInv => CapabilityHeld BY DEF IndInv
<1> QED BY <1>1, Invariance, PTL

\* Only delivered messages are readable; exactly the delivered and the failed
\* ones are queued for publication.
THEOREM InboxAgrees == Spec => []VisibleAndPublished
<1>1. IndInv => VisibleAndPublished BY DEF IndInv
<1> QED BY <1>1, Invariance, PTL

\* A finished message is final and a reserved key keeps its payload.
THEOREM Finality == Spec => FinalStays
<1> DEFINE Final == \A k \in Keys :
         /\ state[k] \in Terminal =>
              /\ state'[k] = state[k] /\ reason'[k] = reason[k]
              /\ revision'[k] = revision[k]
              /\ k \in visible' => k \in visible
         /\ env[k] # NoPayload => env'[k] = env[k] /\ outcome'[k] = outcome[k]
<1>1. IndInv /\ [Next]_vars => [Final]_vars
  <2> SUFFICES ASSUME IndInv, [Next]_vars PROVE Final OBVIOUS
  <2> USE SetsAssumption, AttributesAssumption DEF IndInv, TypeOK, Active, Pending, Terminal
  <2>1. \A k \in Keys : state[k] \in Terminal => reason'[k] = reason[k]
    <3>1. \/ UNCHANGED reason
          \/ \E d \in Local : Close(d)
          \/ \E w \in Workers : /\ job[w] \in Keys /\ Active(job[w])
                                /\ \E x : reason' = [reason EXCEPT ![job[w]] = x]
      <4>1. ASSUME NEW w \in Workers, Step(w), reason' # reason
            PROVE  /\ job[w] \in Keys /\ Active(job[w])
                   /\ \E x : reason' = [reason EXCEPT ![job[w]] = x]
        BY <4>1 DEF Step, CheckExpired, CheckAuthority, Retrieve, Authorize, LoseLease,
             DeliverThrows, DeliverFails, Deliver, Fail, Hold, Raise, Finish, Move, OwnsClaim,
             ClaimsAgree, work
      <4>2. \A w \in Workers, k \in Keys : Crash(w) \/ Claim(w, k) => UNCHANGED reason
        BY DEF Crash, Claim, work
      <4>3. \A w \in Workers : Crash(w) => UNCHANGED reason BY DEF Crash, work
      <4> QED BY <4>1, <4>2, <4>3, QuietSteps
    <3> QED BY <3>1 DEF Close
  <2> DEFINE Rest == \A k \in Keys :
           /\ state[k] \in Terminal => /\ state'[k] = state[k]
                                       /\ revision'[k] = revision[k]
                                       /\ k \in visible' => k \in visible
           /\ env[k] # NoPayload => env'[k] = env[k] /\ outcome'[k] = outcome[k]
  <2>2. Rest
    <3>1. CASE Untouched BY <3>1 DEF Untouched
    <3>2. ASSUME NEW p \in Payloads, NEW o \in Decisions, Takes(p, o) PROVE Rest
      BY <3>2 DEF Takes, Reservable, Reserve, RowsAgree
    <3>3. CASE \E r \in Replies : CreateSent(r)
      BY <3>3 DEF CreateSent, work, received
    <3>4. CASE \E d \in Local : Close(d)
      BY <3>4 DEF Close, SetAccount, received
    <3>5. CASE \E k \in Keys : Remove(k)
      BY <3>5 DEF Remove, work, received
    <3>6. CASE \E k \in Keys : Holds(k)
      BY <3>6 DEF Holds, received
    <3>7. CASE \E k \in Keys : Ends(k, "delivered") \/ Ends(k, "failed")
      BY <3>7 DEF Ends, Finish, received
    <3> QED BY StepKinds, <3>1, <3>2, <3>3, <3>4, <3>5, <3>6, <3>7 DEF Kinds
  <2> QED BY <2>1, <2>2
<1> QED BY <1>1, Invariance, PTL DEF Spec, FinalStays

\* A worker whose lease was taken over changes nothing: the row's token is the
\* latest claim's or none, so lockClaim does not find the late worker's.
THEOREM LateWorkers == Spec => LateWorkerHarmless
<1> DEFINE Harmless == \A w \in Workers :
         /\ pc[w] \in Committing /\ pc'[w] = "idle"
         /\ token[w] < attempts[job[w]]
         => UNCHANGED <<work, replies, visible, published>>
<1>1. IndInv /\ [Next]_vars => [Harmless]_vars
  <2> SUFFICES ASSUME IndInv, [Next]_vars, NEW w \in Workers, pc[w] \in Committing,
                      pc'[w] = "idle", token[w] < attempts[job[w]]
               PROVE  UNCHANGED <<work, replies, visible, published>>
    OBVIOUS
  <2> USE DEF IndInv, TypeOK
  <2>1. pc[w] # "idle" BY DEF Committing
  <2>2. ~OwnsClaim(w) BY <2>1 DEF ClaimsAgree, OwnsClaim
  <2>3. Step(w) \/ Crash(w)
    <3>1. ASSUME NEW v \in Workers, v # w, pc' = [pc EXCEPT ![v] = "idle"] \/
                 \E s : pc' = [pc EXCEPT ![v] = s] PROVE FALSE
      BY <2>1, <3>1
    <3>2. \A v \in Workers, k \in Keys : Claim(v, k) => v # w /\ \E s : pc' = [pc EXCEPT ![v] = s]
      BY <2>1 DEF Claim
    <3>3. \A v \in Workers : Step(v) \/ Crash(v) => \E s : pc' = [pc EXCEPT ![v] = s]
      BY DEF Step, CheckExpired, CheckAuthority, Retrieve, Authorize, LoseLease, DeliverThrows,
             DeliverFails, Deliver, Fail, Hold, Raise, Move, Stop, Crash
    <3>4. pc' # pc BY <2>1
    <3>5. \E v \in Workers : Step(v) \/ Crash(v) \/ \E k \in Keys : Claim(v, k)
      BY <3>4, QuietSteps DEF Close, SetAccount, worker
    <3> QED BY <3>1, <3>2, <3>3, <3>5
  <2> QED BY <2>1, <2>2, <2>3 DEF Step, Committing, CheckExpired, CheckAuthority, Retrieve, Authorize,
        LoseLease, DeliverThrows, DeliverFails, Deliver, Fail, Hold, Raise, Move, Crash
<1> QED BY <1>1, Invariance, PTL DEF Spec, LateWorkerHarmless
-----------------------------------------------------------------------------
(* Refinement: each kind of step is a step of DeliveryContract or a stutter *)
(* under uses <- [k \in Keys |-> Uses(k)].                                  *)

\* A step that leaves env and outcome alone leaves the capability each key uses.
LEMMA UsesKept ==
    ASSUME UNCHANGED <<env, outcome>>
    PROVE  /\ [k \in Keys |-> Uses(k)]' = [k \in Keys |-> Uses(k)]
           /\ \A k \in Keys : Uses(k)' = Uses(k)
BY DEF Uses

\* The initial states of Delivery are initial states of the contract.
LEMMA ContractInit == Init => Contract!Init
BY DEF Init, Contract!Init, Uses

\* Under the inductive invariant a step of Delivery is a contract step.
LEMMA ContractStep ==
    ASSUME IndInv, IndInv', [Next]_vars
    PROVE  [Contract!Next]_Contract!cvars
<1> DEFINE uses == [k \in Keys |-> Uses(k)]
<1> USE SetsAssumption, AttributesAssumption DEF IndInv, TypeOK, Active, Pending
<1>1. CASE Untouched
  BY <1>1, UsesKept DEF Untouched, replies, Contract!cvars
<1>2. ASSUME NEW p \in Payloads, NEW o \in Decisions, Takes(p, o)
      PROVE  [Contract!Next]_Contract!cvars
  <2> DEFINE k == KeyOf[p]
             r == IF Cites[p] \in Replies THEN Cites[p] ELSE NoReply
  <2>1. k \in Keys /\ env[k] = NoPayload /\ state[k] = "none" /\ outcome[k] = "none"
    BY <1>2 DEF Takes, Reservable, RowsAgree
  <2>2. uses' = [uses EXCEPT ![k] = IF o = "accepted" THEN r ELSE NoReply]
    BY <1>2, <2>1 DEF Takes, Reserve, Uses
  <2>3. CASE o = "accepted"
    <3>1. Contract!Accept(k, r)
      BY <1>2, <2>1, <2>2, <2>3 DEF Takes, Reserve, Contract!Accept, replies
    <3>2. r \in Replies \cup {NoReply} OBVIOUS
    <3> QED BY <2>1, <3>1, <3>2 DEF Contract!Next
  <2>4. CASE o # "accepted"
    <3>1. uses' = uses BY <2>1, <2>2, <2>4 DEF Uses
    <3> QED BY <1>2, <2>4, <3>1 DEF Takes, Reserve, replies, Contract!cvars
  <2> QED BY <2>3, <2>4
<1>3. ASSUME NEW r \in Replies, CreateSent(r) PROVE [Contract!Next]_Contract!cvars
  <2>1. Contract!Offer(r)
    BY <1>3, UsesKept DEF CreateSent, received, work, Contract!Offer
  <2> QED BY <2>1 DEF Contract!Next
<1>4. ASSUME NEW d \in Local, Close(d) PROVE [Contract!Next]_Contract!cvars
  <2> DEFINE mine == {k \in Keys : env[k] # NoPayload /\ Recipient(k) = d}
  <2>1. UNCHANGED <<uses, capability, claimant, published>>
    BY <1>4, UsesKept DEF Close, SetAccount, received, replies
  <2>2. Contract!Cancel(mine)
    BY <1>4, <2>1 DEF Close, Contract!Cancel, Contract!Unfinished
  <2>3. mine \in SUBSET Keys OBVIOUS
  <2> QED BY <2>2, <2>3 DEF Contract!Next
<1>5. ASSUME NEW k \in Keys, Remove(k) PROVE [Contract!Next]_Contract!cvars
  <2>1. Contract!Remove(k)
    BY <1>5, UsesKept DEF Remove, received, replies, work, Contract!Remove
  <2> QED BY <2>1 DEF Contract!Next
<1>6. ASSUME NEW k \in Keys, Holds(k) PROVE [Contract!Next]_Contract!cvars
  <2>1. Contract!Hold(k)
    BY <1>6, UsesKept DEF Holds, replies, Contract!Hold, Contract!Unfinished
  <2> QED BY <2>1 DEF Contract!Next
<1>7. ASSUME NEW k \in Keys, NEW s \in {"delivered", "failed"}, Ends(k, s)
      PROVE  [Contract!Next]_Contract!cvars
  <2>1. /\ outcome[k] = "accepted" /\ env[k] \in Payloads
        /\ UNCHANGED <<uses, env, outcome>>
    BY <1>7, UsesKept DEF Ends, RowsAgree, Finish, received
  <2>2. uses[k] = IF Cites[env[k]] \in Replies THEN Cites[env[k]] ELSE NoReply
    BY <2>1 DEF Uses
  <2>3. Contract!Settle(k, IF s = "delivered" THEN "consumed" ELSE "available",
                        IF s = "delivered" THEN k ELSE NoKey)
    BY <1>7, <2>1, <2>2 DEF Ends, Finish, Writable, OwnsCapability, Contract!Settle, replies
  <2>4. CASE s = "delivered"
    <3>1. Contract!Deliver(k)
      BY <1>7, <2>1, <2>3, <2>4 DEF Ends, Finish, Contract!Deliver, Contract!Unfinished
    <3> QED BY <3>1 DEF Contract!Next
  <2>5. CASE s = "failed"
    <3>1. Contract!Fail(k)
      BY <1>7, <2>1, <2>3, <2>5 DEF Ends, Finish, Contract!Fail, Contract!Unfinished
    <3> QED BY <3>1 DEF Contract!Next
  <2> QED BY <2>4, <2>5
<1> QED BY StepKinds, <1>1, <1>2, <1>3, <1>4, <1>5, <1>6, <1>7 DEF Kinds

\* The message path, with its workers, leases, fences and clock, implements
\* the contract of DeliveryContract.
THEOREM Refinement == Spec => ImplementsContract
<1>1. Init => Contract!Init BY ContractInit
<1>2. IndInv /\ IndInv' /\ [Next]_vars => [Contract!Next]_Contract!cvars BY ContractStep
<1> QED BY <1>1, <1>2, Invariance, PTL DEF Spec, ImplementsContract, Contract!Spec

-----------------------------------------------------------------------------
(* What admission and delivery decide, and on what.                          *)

\* A key that is taken keeps its payload and its decision.
LEMMA KeyKept ==
    ASSUME IndInv, [Next]_vars
    PROVE  \A k \in Keys : env[k] # NoPayload => env'[k] = env[k] /\ outcome'[k] = outcome[k]
<1> USE SetsAssumption, AttributesAssumption DEF IndInv, TypeOK
<1>1. UNCHANGED received \/ \E p \in Payloads, o \in Decisions : Takes(p, o)
  BY StepKinds DEF Kinds, Untouched, CreateSent, Close, SetAccount, Remove, Holds, Ends, Finish, received
<1> QED BY <1>1 DEF Takes, Reservable, Reserve, received

\* Only an envelope that is being admitted changes the decisions.
LEMMA DecisionStep ==
    ASSUME [Next]_vars
    PROVE  UNCHANGED received \/ \E p \in Payloads : Admit(p)
<1> USE DEF received
<1>1. CASE Relate
  BY <1>1 DEF Relate, CreateSent, Revoke, Disconnect, PeerDisconnects, Learn, Pause, Resume,
              Leave, Lapse, Renew, Restand, Repause
<1>2. CASE (\E d \in Movable : Manage(d)) \/ (\E k \in Keys : Remove(k)) \/ Tick
  BY SMTT(40), <1>2 DEF Manage, Fence, Release, Retire, Close, SetAccount, Remove, Tick
<1>3. ASSUME NEW w \in Workers, Step(w) PROVE UNCHANGED received
  BY <1>3 DEF Step, CheckExpired, CheckAuthority, Retrieve, Authorize, LoseLease,
              DeliverThrows, DeliverFails, Deliver, Fail, Hold, Raise, Finish, Move
<1>4. CASE UNCHANGED vars \/ \E w \in Workers : Crash(w) \/ \E k \in Keys : Claim(w, k)
  BY <1>4 DEF Crash, Claim, vars
<1> QED BY <1>1, <1>2, <1>3, <1>4 DEF Next

\* A message in a conversation the provider does not know is never recorded as
\* unauthorized, so the exact retry can be accepted once the introduction came.
THEOREM UnknownMembershipReservesNothing == Spec => []UnknownMembershipUnreserved
<1> USE SetsAssumption, AttributesAssumption
<1>1. Init => UnknownMembershipUnreserved BY DEF Init, UnknownMembershipUnreserved
<1>2. IndInv /\ UnknownMembershipUnreserved /\ [Next]_vars => UnknownMembershipUnreserved'
  <2> SUFFICES ASSUME IndInv, UnknownMembershipUnreserved, [Next]_vars
               PROVE  UnknownMembershipUnreserved'
    OBVIOUS
  <2> USE DEF IndInv, TypeOK, UnknownMembershipUnreserved
  <2>1. CASE UNCHANGED received BY <2>1 DEF received
  <2>2. ASSUME NEW p \in Payloads, Admit(p) PROVE UnknownMembershipUnreserved'
    <3>0. KeyOf[p] \in Keys OBVIOUS
    <3>1. ASSUME NEW o, Reserve(p, o), o = "unauthorized" => Cites[p] \notin Conversations
          PROVE  UnknownMembershipUnreserved'
      BY <3>0, <3>1 DEF Reserve
    <3>2. CASE Receive(p) \/ Discard(p) BY <3>2 DEF Receive, Discard, received
    <3>3. CASE AcceptGrant(p) BY <3>1, <3>3 DEF AcceptGrant
    <3>4. CASE AcceptReply(p) BY <3>1, <3>4 DEF AcceptReply, Standing
    <3>5. CASE AcceptConnection(p) BY <3>1, <3>5 DEF AcceptConnection
    <3>6. CASE AcceptConversation(p) BY <3>1, <3>6 DEF AcceptConversation, Decision
    <3> QED BY <2>2, <3>2, <3>3, <3>4, <3>5, <3>6 DEF Admit
  <2> QED BY <2>1, <2>2, DecisionStep
<1> QED BY <1>1, <1>2, Invariance, PTL DEF Spec

\* A message becomes readable only in the transaction of deliver, which looks at
\* the deadline, the account and the standing permission as they are then.
THEOREM DeliveryIsAuthorized == Spec => DeliveredUnderAuthority
<1> DEFINE Authorized == \A k \in Keys : k \in visible' \ visible =>
         LET a == Cites[env[k]]
         IN  /\ now <= Deadline[env[k]]
             /\ account[Recipient(k)] = "active"
             /\ a \in Connections => standing[a] \in {"active", "ending"} /\ a \notin paused
             /\ a \in Conversations => standing[a] = "active"
<1>1. IndInv /\ [Next]_vars => [Authorized]_vars
  <2> SUFFICES ASSUME IndInv, [Next]_vars, NEW k \in Keys, k \in visible', k \notin visible
               PROVE  LET a == Cites[env[k]]
                      IN  /\ now <= Deadline[env[k]]
                          /\ account[Recipient(k)] = "active"
                          /\ a \in Connections => /\ standing[a] \in {"active", "ending"}
                                                  /\ a \notin paused
                          /\ a \in Conversations => standing[a] = "active"
    OBVIOUS
  <2> USE SetsAssumption, AttributesAssumption DEF IndInv, TypeOK
  <2>1. PICK w \in Workers : Deliver(w) /\ job[w] = k
    <3>1. ASSUME NEW p \in Payloads, Admit(p) PROVE visible' = visible
      BY <3>1 DEF Admit, Receive, Discard, AcceptGrant, AcceptReply, AcceptConnection,
                  AcceptConversation, Reserve
    <3>2. CASE Relate
      BY <3>2 DEF Relate, CreateSent, Revoke, Disconnect, PeerDisconnects, Learn, Pause, Resume,
                  Leave, Lapse, Renew, Restand, Repause
    <3>3. CASE (\E d \in Movable : Manage(d)) \/ (\E j \in Keys : Remove(j)) \/ Tick
      BY <3>3 DEF Manage, Fence, Release, Retire, Close, SetAccount, Remove, Tick
    <3>4. ASSUME NEW v \in Workers, Step(v) PROVE Deliver(v) \/ visible' = visible
      BY <3>4 DEF Step, CheckExpired, CheckAuthority, Retrieve, Authorize, LoseLease,
                  DeliverThrows, DeliverFails, Fail, Hold, Raise, Move
    <3>5. CASE UNCHANGED vars \/ \E v \in Workers : Crash(v) \/ \E j \in Keys : Claim(v, j)
      BY <3>5 DEF Crash, Claim, vars
    <3>6. \E v \in Workers : Deliver(v) BY <3>1, <3>2, <3>3, <3>4, <3>5 DEF Next
    <3> QED BY SMTT(40), <3>6 DEF Deliver
  <2>2. env[k] \in Payloads BY SMTT(40), <2>1 DEF Deliver, OwnsClaim, Active, Pending, RowsAgree
  <2>3. Deadline[env[k]] \in Nat /\ ~Expired(k) BY <2>1, <2>2 DEF Deliver
  <2>4. account[Recipient(k)] = "active"
    BY <2>1 DEF Deliver, DeliverRaises, Writable, Serving
  <2>5. ASSUME Cites[env[k]] \in Connections
        PROVE  standing[Cites[env[k]]] \in {"active", "ending"} /\ Cites[env[k]] \notin paused
    BY <2>1, <2>5 DEF Deliver, DeliverRaises, StillPermitted, ConnectionAllowed
  <2>6. Cites[env[k]] \in Conversations => standing[Cites[env[k]]] = "active"
    BY <2>1 DEF Deliver, StillPermitted, ConversationAllowed
  <2> QED BY <2>3, <2>4, <2>5, <2>6 DEF Expired
<1> QED BY <1>1, Invariance, PTL DEF Spec, DeliveredUnderAuthority

-----------------------------------------------------------------------------
(* Refusals by policy.  The unlocked permission check answers "no" while the *)
(* owner or a local peer of a connection is fenced, so the refusal is        *)
(* definite where the parties of connections stay; what else moves is free.  *)

\* No party of a connection is fenced or closed.
PartiesStay == \A c \in Connections : ({Owner[c]} \cup Peers[c]) \cap Movable = {}

Parties(c) == ({Owner[c]} \cup Peers[c]) \cap Local

\* What a definite refusal may cite.
Refusable(a) ==
    /\ a \in Connections \cup Conversations
    /\ a \in Connections => standing[a] \in {"ending", "ended"}

\* The parties of every connection serve, a connection is in one of its three
\* states, and a worker on its way to a refusal was given a definite "no".
RefusalInv ==
    /\ \A c \in Connections : \A d \in Parties(c) : account[d] = "active"
    /\ \A c \in Connections : standing[c] \in {"active", "ending", "ended"}
    /\ \A w \in Workers : pc[w] \in {"denied", "rejecting"} => Refusable(Cites[env[job[w]]])
    /\ \A k \in Keys : reason[k] = "receiver-policy-rejected" => env[k] # NoPayload
    /\ RejectionIsDefinite

\* A connection that ended, or is ending, stays so.
LEMMA EndedStays ==
    ASSUME IndInv, [Next]_vars, NEW c \in Connections,
           standing[c] \in {"active", "ending", "ended"}
    PROVE  /\ standing'[c] \in {"active", "ending", "ended"}
           /\ standing[c] \in {"ending", "ended"} => standing'[c] \in {"ending", "ended"}
<1> USE SetsAssumption, AttributesAssumption DEF IndInv, TypeOK, Standing
<1> DEFINE Goal == /\ standing'[c] \in {"active", "ending", "ended"}
                   /\ standing[c] \in {"ending", "ended"} => standing'[c] \in {"ending", "ended"}
<1>1. ASSUME NEW p \in Payloads, Admit(p) PROVE Goal
  <2>1. CASE AcceptConversation(p) BY <2>1 DEF AcceptConversation
  <2>2. CASE ~AcceptConversation(p)
    BY <1>1, <2>2 DEF Admit, Receive, Discard, AcceptGrant, AcceptReply, AcceptConnection, rights
  <2> QED BY <2>1, <2>2
<1>2. CASE Relate
  <2>1. CASE \E g \in Grants : Revoke(g) BY <2>1 DEF Revoke, Restand
  <2>2. ASSUME NEW b \in Connections, Disconnect(b) \/ PeerDisconnects(b) \/ Learn(b) PROVE Goal
    BY <2>2 DEF Disconnect, PeerDisconnects, Learn, Restand
  <2>3. CASE \E v \in Conversations : Leave(v) \/ Lapse(v) \/ Renew(v)
    BY <2>3 DEF Leave, Lapse, Renew, Restand
  <2>4. CASE \E b \in Connections : Pause(b) \/ Resume(b) BY <2>4 DEF Pause, Resume, Repause
  <2>5. CASE \E r \in Replies : CreateSent(r) BY <2>5 DEF CreateSent, rights
  <2> QED BY <1>2, <2>1, <2>2, <2>3, <2>4, <2>5 DEF Relate
<1>3. CASE (\E d \in Movable : Manage(d)) \/ (\E k \in Keys : Remove(k)) \/ Tick
  BY <1>3 DEF Manage, Fence, Release, Retire, Close, SetAccount, Remove, Tick, rights
<1>4. ASSUME NEW w \in Workers, Step(w) PROVE Goal
  <2>1. ASSUME NEW a, NEW answer, ApplySnapshot(a, answer) PROVE Goal
    BY <2>1 DEF ApplySnapshot
  <2>2. CASE CheckAuthority(w) BY <2>1, <2>2 DEF CheckAuthority
  <2>3. CASE Authorize(w) BY SMTT(40), <2>1, <2>3 DEF Authorize
  <2>4. CASE ~CheckAuthority(w) /\ ~Authorize(w)
    BY <1>4, <2>4 DEF Step, CheckExpired, Retrieve, LoseLease, DeliverThrows, DeliverFails,
                      Deliver, Fail, Hold, Raise, Finish, rights
  <2> QED BY <2>2, <2>3, <2>4
<1>5. CASE UNCHANGED vars \/ \E w \in Workers : Crash(w) \/ \E k \in Keys : Claim(w, k)
  BY <1>5 DEF Crash, Claim, vars, rights
<1> QED BY <1>1, <1>2, <1>3, <1>4, <1>5 DEF Next

\* While the parties of connections stay, they keep serving.
LEMMA PartiesServe ==
    ASSUME PartiesStay, IndInv, [Next]_vars, NEW c \in Connections, NEW d \in Parties(c),
           account[d] = "active"
    PROVE  account'[d] = "active"
<1> USE SetsAssumption, AttributesAssumption DEF IndInv, TypeOK
<1>1. ASSUME NEW e \in Movable, Manage(e) PROVE account'[d] = "active"
  BY <1>1 DEF Manage, Fence, Release, Retire, Close, SetAccount, PartiesStay, Parties
<1>2. ASSUME NEW p \in Payloads, Admit(p) PROVE account' = account
  BY <1>2 DEF Admit, Receive, Discard, AcceptGrant, AcceptReply, AcceptConnection,
              AcceptConversation, Reserve, rights
<1>3. CASE Relate
  BY <1>3 DEF Relate, CreateSent, Revoke, Disconnect, PeerDisconnects, Learn, Pause, Resume,
              Leave, Lapse, Renew, Restand, Repause, rights
<1>4. CASE (\E k \in Keys : Remove(k)) \/ Tick BY <1>4 DEF Remove, Tick, rights
<1>5. ASSUME NEW w \in Workers, Step(w) PROVE account' = account
  BY <1>5 DEF Step, CheckExpired, CheckAuthority, Retrieve, Authorize, LoseLease,
              DeliverThrows, DeliverFails, Deliver, Fail, Hold, Raise, Finish, Move, rights
<1>6. CASE UNCHANGED vars \/ \E w \in Workers : Crash(w) \/ \E k \in Keys : Claim(w, k)
  BY <1>6 DEF Crash, Claim, vars, rights
<1> QED BY <1>1, <1>2, <1>3, <1>4, <1>5, <1>6 DEF Next

\* An authority that a check denies, or that is not permitted under the locks, is
\* one a definite refusal may cite.
LEMMA DenialIsDefinite ==
    ASSUME IndInv, RefusalInv, NEW a \in Authorities,
           "no" \in AuthorityAnswers(a) \/ ~StillPermitted(a)
    PROVE  Refusable(a)
<1> USE SetsAssumption, AttributesAssumption DEF IndInv, TypeOK
<1>1. CASE a \in Connections
  <2>1. \A d \in Parties(a) : account[d] = "active" BY <1>1 DEF RefusalInv
  <2>2. Owner[a] \in Parties(a) /\ Peers[a] \cap Local \subseteq Parties(a) BY DEF Parties
  <2>3. ConnectionAllowed(a) <=> standing[a] \in {"active", "ending"}
    BY <2>1, <2>2 DEF ConnectionAllowed, Fenced
  <2>4. standing[a] \in {"active", "ending", "ended"} BY <1>1 DEF RefusalInv
  <2>5. CASE ~ConnectionAllowed(a) BY <1>1, <2>3, <2>4, <2>5 DEF Refusable
  <2>6. CASE ConnectionAllowed(a)
    <3>1. "no" \in LiveAnswers(a)
      BY <1>1, <2>6 DEF AuthorityAnswers, StillPermitted, Standing
    <3>2. standing[a] # "active" BY <2>6, <3>1 DEF LiveAnswers
    <3> QED BY <1>1, <2>4, <3>2 DEF Refusable
  <2> QED BY <2>5, <2>6
<1>2. CASE a \notin Connections
  BY <1>2 DEF AuthorityAnswers, StillPermitted, Refusable
<1> QED BY <1>1, <1>2

\* What may be refused stays refusable.
LEMMA RefusableStays ==
    ASSUME IndInv, RefusalInv, [Next]_vars, NEW a, Refusable(a)
    PROVE  Refusable(a)'
BY EndedStays DEF Refusable, RefusalInv

\* Every step keeps refusals definite.
LEMMA RefusalStep ==
    ASSUME PartiesStay, IndInv, RefusalInv, [Next]_vars
    PROVE  RefusalInv'
<1> USE SetsAssumption, AttributesAssumption DEF IndInv
<1>1. /\ \A c \in Connections : \A d \in Parties(c) : account'[d] = "active"
      /\ \A c \in Connections : standing'[c] \in {"active", "ending", "ended"}
  BY PartiesServe, EndedStays DEF RefusalInv
<1>2. \A w \in Workers : pc[w] # "idle" =>
        job[w] \in Keys /\ env[job[w]] \in Payloads /\ env'[job[w]] = env[job[w]]
  BY WorkHasEnvelope, KeyKept DEF ClaimsAgree
<1>3. ASSUME NEW w \in Workers, pc'[w] \in {"denied", "rejecting"}
      PROVE  Refusable(Cites[env[job[w]]])'
  <2> USE DEF TypeOK
  <2> DEFINE a == Cites[env[job[w]]]
  <2>1. CASE pc'[w] = pc[w] /\ job'[w] = job[w]
    <3>1. Refusable(a) BY <1>3, <2>1 DEF RefusalInv
    <3> QED BY <1>2, <1>3, <2>1, <3>1, RefusableStays
  <2>2. CASE ~(pc'[w] = pc[w] /\ job'[w] = job[w])
    <3>1. PICK v \in Workers : Step(v) \/ Crash(v) \/ \E k \in Keys : Claim(v, k)
      BY <2>2, QuietSteps DEF Close, SetAccount, worker
    <3>2. v = w /\ (CheckAuthority(w) \/ Authorize(w))
      BY SMTT(40), <1>3, <2>2, <3>1 DEF Step, CheckExpired, CheckAuthority, Retrieve, Authorize, LoseLease,
           DeliverThrows, DeliverFails, Deliver, Fail, Hold, Raise, Crash, Claim, Move, Stop
    <3>3. pc[w] # "idle" BY <3>2 DEF CheckAuthority, Authorize
    <3>4. "no" \in AuthorityAnswers(a) /\ job' = job
      BY <1>3, <3>2 DEF CheckAuthority, Authorize, Move, After
    <3>5. Refusable(a) BY <1>2, <3>3, <3>4, DenialIsDefinite
    <3> QED BY <1>2, <3>3, <3>4, <3>5, RefusableStays
  <2> QED BY <2>1, <2>2
<1>4. ASSUME NEW k \in Keys, reason'[k] = "receiver-policy-rejected"
      PROVE  env'[k] # NoPayload /\ Refusable(Cites[env[k]])'
  <2> USE DEF TypeOK
  <2>1. CASE reason[k] = "receiver-policy-rejected"
    <3>1. Refusable(Cites[env[k]]) BY <2>1 DEF RefusalInv, RejectionIsDefinite, Refusable
    <3>2. env[k] # NoPayload BY <2>1 DEF RefusalInv
    <3> QED BY <3>1, <3>2, KeyKept, RefusableStays
  <2>2. CASE reason[k] # "receiver-policy-rejected"
    <3>1. PICK v \in Workers : Step(v) \/ Crash(v) \/ \E j \in Keys : Claim(v, j)
      BY SMTT(40), <1>4, <2>2, QuietSteps DEF Close
    <3>2. /\ k = job[v] /\ pc[v] # "idle"
          /\ pc[v] \in {"denied", "rejecting"} \/ ~StillPermitted(Cites[env[k]])
      BY <1>4, <2>2, <3>1, <1>2
      DEF Step, CheckExpired, CheckAuthority, Retrieve, Authorize, LoseLease, DeliverThrows,
          DeliverFails, Deliver, Fail, FailureReason, Hold, Raise, Crash, Claim, Move, Finish, work
    <3>3. Refusable(Cites[env[k]]) BY <1>2, <3>2, DenialIsDefinite DEF RefusalInv
    <3> QED BY <1>2, <3>2, <3>3, RefusableStays
  <2> QED BY <2>1, <2>2
<1> QED BY <1>1, <1>3, <1>4 DEF RefusalInv, RejectionIsDefinite, Refusable

\* An accepted message is refused by policy only for a definite reason, where the
\* parties of connections are not moved or closed meanwhile.
THEOREM RefusalsAreDefinite == PartiesStay => (Spec => []RejectionIsDefinite)
<1> SUFFICES ASSUME PartiesStay PROVE Spec => []RejectionIsDefinite OBVIOUS
<1>1. Init => RefusalInv
  BY SetsAssumption, AttributesAssumption
  DEF Init, RefusalInv, RejectionIsDefinite, Parties, Standing
<1>2. IndInv /\ RefusalInv /\ [Next]_vars => RefusalInv' BY RefusalStep
<1>3. RefusalInv => RejectionIsDefinite BY DEF RefusalInv
<1> QED BY <1>1, <1>2, <1>3, Invariance, PTL DEF Spec

-----------------------------------------------------------------------------
(* The limits: outstanding and rejected envelopes, live leases.              *)

Queued == {k \in Keys : Active(k)}
Refused == {k \in Keys : Rejected(k)}
SenderLeases(d) == {k \in Keys : Leased(k) /\ Sender[k] = d}
LeasesFor(d) == {k \in Keys : Leased(k) /\ Recipient(k) = d}

\* The limits, with no lease on a key that has no work.
LimitInv ==
    /\ WithinLimits
    /\ \A k \in Keys : state[k] = "none" => leaseUntil[k] = 0

\* A part of a set of keys within a limit is within it.
LEMMA PartWithin ==
    ASSUME NEW S \in SUBSET Keys, NEW T \in SUBSET S, NEW N \in Nat, Cardinality(S) <= N
    PROVE  Cardinality(T) <= N
<1>1. IsFiniteSet(S) BY FS_Subset, SetsAssumption
<1>2. IsFiniteSet(T) /\ Cardinality(T) <= Cardinality(S) BY <1>1, FS_Subset
<1>3. Cardinality(S) \in Nat /\ Cardinality(T) \in Nat BY <1>1, <1>2, FS_CardinalityType
<1> QED BY <1>2, <1>3

\* One more key fits a set of keys that is below its limit.
LEMMA OneMoreFits ==
    ASSUME NEW S \in SUBSET Keys, NEW k \in Keys, NEW T \in SUBSET (S \cup {k}), NEW N \in Nat,
           Cardinality(S) < N
    PROVE  Cardinality(T) <= N
<1>1. IsFiniteSet(S) BY FS_Subset, SetsAssumption
<1>2. Cardinality(S) \in Nat BY <1>1, FS_CardinalityType
<1>3. Cardinality(S \cup {k}) <= N BY SMTT(40), <1>1, <1>2, FS_AddElement
<1> QED BY <1>3, PartWithin

\* The limits on what is queued and on what is refused, apart.
QueueWithin ==
    /\ Cardinality(Queued) <= PendingProvider
    /\ \A d \in Dids : /\ Cardinality({k \in Queued : Sender[k] = d}) <= PendingSender
                       /\ Cardinality({k \in Queued : Recipient(k) = d}) <= PendingRecipient

RefusalsWithin ==
    /\ Cardinality(Refused) <= RejectedProvider
    /\ \A d \in Dids : Cardinality({k \in Refused : Sender[k] = d}) <= RejectedSender

\* The budgets are these two.
LEMMA BudgetsAre == WithinBudgets <=> QueueWithin /\ RefusalsWithin
BY DEF WithinBudgets, QueueWithin, RefusalsWithin, Queued, Refused

\* A step that queues nothing new keeps the outstanding budgets.
LEMMA QueueKept ==
    ASSUME QueueWithin, \A k \in Keys : Active(k)' => Active(k) /\ Recipient(k)' = Recipient(k)
    PROVE  QueueWithin'
<1> USE LimitsAssumption
<1>1. Queued \in SUBSET Keys /\ Queued' \in SUBSET Queued BY DEF Queued
<1>2. Cardinality(Queued') <= PendingProvider BY <1>1, PartWithin DEF QueueWithin
<1>3. ASSUME NEW d \in Dids
      PROVE  /\ Cardinality({k \in Queued' : Sender[k] = d}) <= PendingSender
             /\ Cardinality({k \in Queued' : Recipient(k)' = d}) <= PendingRecipient
  <2>1. /\ {k \in Queued' : Sender[k] = d} \in SUBSET {k \in Queued : Sender[k] = d}
        /\ {k \in Queued' : Recipient(k)' = d} \in SUBSET {k \in Queued : Recipient(k) = d}
        /\ {k \in Queued : Sender[k] = d} \in SUBSET Keys
        /\ {k \in Queued : Recipient(k) = d} \in SUBSET Keys
    BY DEF Queued
  <2> QED BY <2>1, PartWithin DEF QueueWithin
<1> QED BY <1>2, <1>3 DEF QueueWithin

\* A step that refuses nothing new keeps the rejected budgets.
LEMMA RefusalsKept ==
    ASSUME RefusalsWithin, \A k \in Keys : Rejected(k)' => Rejected(k)
    PROVE  RefusalsWithin'
<1> USE LimitsAssumption
<1>1. Refused \in SUBSET Keys /\ Refused' \in SUBSET Refused BY DEF Refused
<1>2. Cardinality(Refused') <= RejectedProvider BY <1>1, PartWithin DEF RefusalsWithin
<1>3. ASSUME NEW d \in Dids
      PROVE  Cardinality({k \in Refused' : Sender[k] = d}) <= RejectedSender
  <2>1. /\ {k \in Refused' : Sender[k] = d} \in SUBSET {k \in Refused : Sender[k] = d}
        /\ {k \in Refused : Sender[k] = d} \in SUBSET Keys
    BY DEF Refused
  <2> QED BY <2>1, PartWithin DEF RefusalsWithin
<1> QED BY <1>2, <1>3 DEF RefusalsWithin

\* A step that leases nothing new keeps the lease caps.
LEMMA LeasesKept ==
    ASSUME LeaseCaps,
           \A k \in Keys : Leased(k)' => Leased(k) /\ Recipient(k)' = Recipient(k)
    PROVE  LeaseCaps'
<1> USE LimitsAssumption
<1>1. ASSUME NEW d \in Dids
      PROVE  /\ Cardinality(SenderLeases(d)') <= 1
             /\ Cardinality(LeasesFor(d)') <= RecipientLeases
  <2>1. /\ SenderLeases(d)' \in SUBSET SenderLeases(d)
        /\ LeasesFor(d)' \in SUBSET LeasesFor(d)
        /\ SenderLeases(d) \in SUBSET Keys /\ LeasesFor(d) \in SUBSET Keys
    BY DEF SenderLeases, LeasesFor
  <2>2. Cardinality(SenderLeases(d)) <= 1 /\ Cardinality(LeasesFor(d)) <= RecipientLeases
    BY DEF LeaseCaps, SenderLeases, LeasesFor
  <2> QED BY <2>1, <2>2, PartWithin
<1> QED BY <1>1 DEF LeaseCaps, SenderLeases, LeasesFor

\* admitEnvelope leaves room for the one envelope that is accepted.
LEMMA AcceptFits ==
    ASSUME IndInv, QueueWithin, NEW p \in Payloads, Takes(p, "accepted")
    PROVE  QueueWithin'
<1> USE LimitsAssumption, SetsAssumption, AttributesAssumption
<1> DEFINE n == KeyOf[p]
<1>1. n \in Keys /\ Queued \in SUBSET Keys BY DEF Queued
<1>2. \A k \in Keys : Active(k)' => k = n \/ (Active(k) /\ Recipient(k)' = Recipient(k))
  BY <1>1 DEF Takes, Reserve, Active, Recipient, IndInv, TypeOK
<1>3. Recipient(n)' = To[p] BY <1>1 DEF Takes, Reserve, Recipient, IndInv, TypeOK
<1>4. /\ Cardinality(Queued) < PendingProvider
      /\ Cardinality({k \in Queued : Sender[k] = Sender[n]}) < PendingSender
      /\ Cardinality({k \in Queued : Recipient(k) = To[p]}) < PendingRecipient
  BY DEF Takes, Reserve, PendingRoom, Queued
<1> HIDE DEF n
<1>5. Cardinality(Queued') <= PendingProvider
  <2>1. Queued' \in SUBSET (Queued \cup {n}) BY <1>2 DEF Queued
  <2> QED BY <1>1, <1>4, <2>1, OneMoreFits
<1>6. ASSUME NEW d \in Dids
      PROVE  /\ Cardinality({k \in Queued' : Sender[k] = d}) <= PendingSender
             /\ Cardinality({k \in Queued' : Recipient(k)' = d}) <= PendingRecipient
  <2> DEFINE From == {k \in Queued : Sender[k] = d}
             From1 == {k \in Queued' : Sender[k] = d}
             For == {k \in Queued : Recipient(k) = d}
             For1 == {k \in Queued' : Recipient(k)' = d}
  <2>1. /\ From \in SUBSET Keys /\ For \in SUBSET Keys
        /\ From1 \in SUBSET (From \cup {n}) /\ For1 \in SUBSET (For \cup {n})
        /\ Sender[n] # d => From1 \in SUBSET From
        /\ To[p] # d => For1 \in SUBSET For
    BY <1>2, <1>3 DEF Queued
  <2>2. Cardinality(From) <= PendingSender /\ Cardinality(For) <= PendingRecipient
    BY DEF QueueWithin
  <2>3. /\ Sender[n] = d => Cardinality(From) < PendingSender
        /\ To[p] = d => Cardinality(For) < PendingRecipient
    BY <1>4
  <2> HIDE DEF From, From1, For, For1
  <2>4. Cardinality(From1) <= PendingSender BY <1>1, <2>1, <2>2, <2>3, OneMoreFits, PartWithin
  <2>5. Cardinality(For1) <= PendingRecipient BY <1>1, <2>1, <2>2, <2>3, OneMoreFits, PartWithin
  <2> QED BY <2>4, <2>5 DEF From1, For1
<1> QED BY <1>5, <1>6 DEF QueueWithin

\* The rejected budgets leave room for the one envelope that is refused.
LEMMA RefusalFits ==
    ASSUME IndInv, RefusalsWithin, NEW p \in Payloads, NEW o \in Decisions, o # "accepted",
           Takes(p, o)
    PROVE  RefusalsWithin'
<1> USE LimitsAssumption, SetsAssumption, AttributesAssumption
<1> DEFINE n == KeyOf[p]
<1>1. n \in Keys /\ Refused \in SUBSET Keys BY DEF Refused
<1>2. \A k \in Keys : Rejected(k)' => k = n \/ Rejected(k)
  BY <1>1 DEF Takes, Reserve, Rejected, IndInv, TypeOK
<1>3. /\ Cardinality(Refused) < RejectedProvider
      /\ Cardinality({k \in Refused : Sender[k] = Sender[n]}) < RejectedSender
  BY DEF Takes, Reserve, RejectedRoom, Refused
<1> HIDE DEF n
<1>4. Cardinality(Refused') <= RejectedProvider
  <2>1. Refused' \in SUBSET (Refused \cup {n}) BY <1>2 DEF Refused
  <2> QED BY <1>1, <1>3, <2>1, OneMoreFits
<1>5. ASSUME NEW d \in Dids
      PROVE  Cardinality({k \in Refused' : Sender[k] = d}) <= RejectedSender
  <2> DEFINE From == {k \in Refused : Sender[k] = d}
             From1 == {k \in Refused' : Sender[k] = d}
  <2>1. /\ From \in SUBSET Keys
        /\ From1 \in SUBSET (From \cup {n})
        /\ Sender[n] # d => From1 \in SUBSET From
    BY <1>2 DEF Refused
  <2>2. Cardinality(From) <= RejectedSender BY DEF RefusalsWithin
  <2>3. Sender[n] = d => Cardinality(From) < RejectedSender BY <1>3
  <2> HIDE DEF From, From1
  <2>4. Cardinality(From1) <= RejectedSender BY <1>1, <2>1, <2>2, <2>3, OneMoreFits, PartWithin
  <2> QED BY <2>4 DEF From1
<1> QED BY <1>4, <1>5 DEF RefusalsWithin

\* claimDue leaves room for the one lease it takes.
LEMMA ClaimFits ==
    ASSUME IndInv, LeaseCaps, NEW w \in Workers, NEW n \in Keys, Claim(w, n)
    PROVE  LeaseCaps'
<1> USE LimitsAssumption, SetsAssumption, AttributesAssumption
<1>1. \A k \in Keys : /\ Leased(k)' => k = n \/ Leased(k)
                      /\ Recipient(k)' = Recipient(k)
  BY DEF Claim, Leased, Active, Recipient, received, IndInv, TypeOK
<1>2. /\ SenderLeases(Sender[n]) = {}
      /\ Cardinality(LeasesFor(Recipient(n))) < RecipientLeases
  BY DEF Claim, Due, SenderLeases, LeasesFor
<1>3. ASSUME NEW d \in Dids
      PROVE  /\ Cardinality(SenderLeases(d)') <= 1
             /\ Cardinality(LeasesFor(d)') <= RecipientLeases
  <2>1. /\ SenderLeases(d) \in SUBSET Keys /\ LeasesFor(d) \in SUBSET Keys
        /\ SenderLeases(d)' \in SUBSET (SenderLeases(d) \cup {n})
        /\ LeasesFor(d)' \in SUBSET (LeasesFor(d) \cup {n})
        /\ Sender[n] # d => SenderLeases(d)' \in SUBSET SenderLeases(d)
        /\ Recipient(n) # d => LeasesFor(d)' \in SUBSET LeasesFor(d)
    BY <1>1 DEF SenderLeases, LeasesFor
  <2>2. Cardinality(SenderLeases(d)) <= 1 /\ Cardinality(LeasesFor(d)) <= RecipientLeases
    BY DEF LeaseCaps, SenderLeases, LeasesFor
  <2>3. Cardinality(SenderLeases(d)') <= 1
    <3>1. CASE Sender[n] = d
      <4>1. SenderLeases(d) = {} BY <1>2, <3>1
      <4>2. Cardinality({}) = 0 BY FS_EmptySet
      <4>3. Cardinality(SenderLeases(d)) < 1 BY <4>1, <4>2
      <4> QED BY <2>1, <4>3, OneMoreFits
    <3>2. CASE Sender[n] # d BY <2>1, <2>2, <3>2, PartWithin
    <3> QED BY <3>1, <3>2
  <2>4. Cardinality(LeasesFor(d)') <= RecipientLeases
    <3>1. CASE Recipient(n) = d BY <1>2, <2>1, <3>1, OneMoreFits
    <3>2. CASE Recipient(n) # d BY <2>1, <2>2, <3>2, PartWithin
    <3> QED BY <3>1, <3>2
  <2> QED BY <2>3, <2>4
<1> QED BY <1>3 DEF LeaseCaps, SenderLeases, LeasesFor

\* What a step does to the leases: a claim takes one, every other step takes none.
LEMMA LeaseSteps ==
    ASSUME IndInv, LimitInv, [Next]_vars
    PROVE  /\ \A k \in Keys : leaseUntil'[k] \in {0, leaseUntil[k]}
              \/ \E w \in Workers : Claim(w, k)
           /\ now' \in Nat /\ now' >= now
<1> USE SetsAssumption, AttributesAssumption DEF IndInv, TypeOK
<1> DEFINE Goal == (\A k \in Keys : leaseUntil'[k] \in {0, leaseUntil[k]}) /\ now' = now
<1>1. ASSUME NEW p \in Payloads, Admit(p) PROVE Goal
  BY <1>1 DEF Admit, Receive, Discard, AcceptGrant, AcceptReply, AcceptConnection,
              AcceptConversation, Reserve, work
<1>2. CASE Relate
  BY <1>2 DEF Relate, CreateSent, Revoke, Disconnect, PeerDisconnects, Learn, Pause, Resume,
              Leave, Lapse, Renew, Restand, Repause, work
<1>3. CASE (\E d \in Movable : Manage(d)) \/ (\E k \in Keys : Remove(k))
  BY <1>3 DEF Manage, Fence, Release, Retire, Close, SetAccount, Remove, work
<1>4. CASE Tick BY SMTT(40), <1>4 DEF Tick, work
<1>5. ASSUME NEW w \in Workers, Step(w) PROVE Goal
  BY <1>5 DEF Step, CheckExpired, CheckAuthority, Retrieve, Authorize, LoseLease,
              DeliverThrows, DeliverFails, Deliver, Fail, Hold, Raise, Finish, Move, work
<1>6. CASE UNCHANGED vars \/ \E w \in Workers : Crash(w) BY <1>6 DEF Crash, vars, work
<1>7. ASSUME NEW w \in Workers, NEW n \in Keys, Claim(w, n)
      PROVE  /\ \A k \in Keys : leaseUntil'[k] = leaseUntil[k] \/ Claim(w, k)
             /\ now' = now
  BY <1>7 DEF Claim
<1> QED BY <1>1, <1>2, <1>3, <1>4, <1>5, <1>6, <1>7 DEF Next

\* Work that is pending after a step was pending before, or there was none.
LEMMA WorkResumes ==
    ASSUME IndInv, [Next]_vars, NEW k \in Keys, Active(k)', state[k] # "none"
    PROVE  Active(k)
<1> USE SetsAssumption, AttributesAssumption DEF IndInv, TypeOK, Active, Pending
<1>1. CASE Untouched BY <1>1 DEF Untouched
<1>2. ASSUME NEW p \in Payloads, NEW o \in Decisions, Takes(p, o) PROVE Active(k)
  <2>1. state[KeyOf[p]] = "none" BY <1>2 DEF Takes, Reservable, RowsAgree
  <2>2. state' = state \/ state' = [state EXCEPT ![KeyOf[p]] = "accepted"]
    BY <1>2 DEF Takes, Reserve
  <2> QED BY <2>1, <2>2
<1>3. CASE \E r \in Replies : CreateSent(r) BY <1>3 DEF CreateSent, work
<1>4. CASE \E d \in Local : Close(d) BY <1>4 DEF Close
<1>5. CASE \E j \in Keys : Remove(j) BY <1>5 DEF Remove, work
<1>6. CASE \E j \in Keys : Holds(j) BY <1>6 DEF Holds
<1>7. CASE \E j \in Keys : Ends(j, "delivered") \/ Ends(j, "failed") BY <1>7 DEF Ends, Finish
<1> QED BY StepKinds, <1>1, <1>2, <1>3, <1>4, <1>5, <1>6, <1>7 DEF Kinds

\* Every step keeps the limits.
LEMMA LimitStep ==
    ASSUME IndInv, IndInv', LimitInv, [Next]_vars
    PROVE  LimitInv'
<1> USE SetsAssumption, AttributesAssumption, LimitsAssumption
<1>0. QueueWithin /\ RefusalsWithin /\ LeaseCaps BY BudgetsAre DEF LimitInv, WithinLimits
<1>1. \A k \in Keys : Active(k) => Recipient(k)' = Recipient(k)
  BY KeyKept DEF IndInv, RowsAgree, TypeOK, Active, Pending, Recipient
<1>2. QueueWithin' /\ RefusalsWithin'
  <2>1. ASSUME \A k \in Keys : Active(k)' => Active(k), UNCHANGED outcome
        PROVE  QueueWithin' /\ RefusalsWithin'
    BY <1>0, <1>1, <2>1, QueueKept, RefusalsKept DEF Rejected
  <2> USE DEF Active, Pending, IndInv, TypeOK
  <2>2. CASE Untouched BY <2>1, <2>2 DEF Untouched
  <2>3. ASSUME NEW p \in Payloads, NEW o \in Decisions, Takes(p, o)
        PROVE  QueueWithin' /\ RefusalsWithin'
    <3>1. CASE o = "accepted"
      <4>1. \A k \in Keys : Rejected(k)' => Rejected(k)
        BY <2>3, <3>1 DEF Takes, Reserve, Rejected
      <4> QED BY <1>0, <2>3, <3>1, <4>1, AcceptFits, RefusalsKept
    <3>2. CASE o # "accepted"
      <4>1. \A k \in Keys : Active(k)' => Active(k) BY <2>3, <3>2 DEF Takes, Reserve
      <4> QED BY <1>0, <1>1, <2>3, <3>2, <4>1, RefusalFits, QueueKept
    <3> QED BY <3>1, <3>2
  <2>4. CASE \E r \in Replies : CreateSent(r) BY <2>1, <2>4 DEF CreateSent, work, received
  <2>5. CASE \E d \in Local : Close(d) BY <2>1, <2>5 DEF Close, SetAccount, received
  <2>6. CASE \E k \in Keys : Remove(k) BY <2>1, <2>6 DEF Remove, work, received
  <2>7. CASE \E k \in Keys : Holds(k) BY <2>1, <2>7 DEF Holds
  <2>8. CASE \E k \in Keys : Ends(k, "delivered") \/ Ends(k, "failed")
    BY <2>1, <2>8 DEF Ends, Finish, received
  <2> QED BY StepKinds, <2>2, <2>3, <2>4, <2>5, <2>6, <2>7, <2>8 DEF Kinds
<1>3. LeaseCaps'
  <2>1. CASE \E w \in Workers, k \in Keys : Claim(w, k) BY <1>0, <2>1, ClaimFits
  <2>2. CASE ~\E w \in Workers, k \in Keys : Claim(w, k)
    <3>1. ASSUME NEW k \in Keys, Leased(k)' PROVE Leased(k) /\ Recipient(k)' = Recipient(k)
      <4>1. leaseUntil'[k] = leaseUntil[k] /\ leaseUntil[k] > now
        BY SMTT(40), <2>2, <3>1, LeaseSteps DEF Leased, IndInv, TypeOK
      <4>2. state[k] # "none" BY <4>1 DEF LimitInv, IndInv, TypeOK
      <4>3. Active(k) BY <3>1, <4>2, WorkResumes DEF Leased
      <4> QED BY <1>1, <4>1, <4>3 DEF Leased
    <3> QED BY <1>0, <3>1, LeasesKept
  <2> QED BY <2>1, <2>2
<1>4. ASSUME NEW k \in Keys, state'[k] = "none" PROVE leaseUntil'[k] = 0
  <2>1. outcome'[k] # "accepted" BY <1>4 DEF IndInv, RowsAgree
  <2>2. env[k] # NoPayload => outcome'[k] = outcome[k] BY KeyKept
  <2>3. state[k] = "none" BY <2>1, <2>2 DEF IndInv, RowsAgree
  <2>4. \A w \in Workers : ~Claim(w, k) BY <2>3 DEF Claim, Due, Active, Pending
  <2> QED BY <2>3, <2>4, LeaseSteps DEF LimitInv
<1>5. WithinBudgets'
  BY <1>2 DEF WithinBudgets, QueueWithin, RefusalsWithin, Queued, Refused
<1> QED BY <1>3, <1>4, <1>5 DEF LimitInv, WithinLimits

\* Every limit the provider sets for itself holds, for any number of senders,
\* recipients, keys and workers and any budgets.
THEOREM LimitsHold == Spec => []WithinLimits
<1>1. Init => LimitInv
  <2> SUFFICES ASSUME Init PROVE LimitInv OBVIOUS
  <2> USE LimitsAssumption
  <2>0. Cardinality({}) = 0 BY FS_EmptySet
  <2>1. \A k \in Keys : ~Active(k) /\ ~Rejected(k) /\ ~Leased(k)
    BY DEF Init, Active, Pending, Rejected, Leased
  <2>2. Queued = {} /\ Refused = {} BY <2>1 DEF Queued, Refused
  <2>3. \A d \in Dids : SenderLeases(d) = {} /\ LeasesFor(d) = {}
    BY <2>1 DEF SenderLeases, LeasesFor
  <2>4. \A d \in Dids : /\ {k \in Queued : Sender[k] = d} = {}
                        /\ {k \in Queued : Recipient(k) = d} = {}
                        /\ {k \in Refused : Sender[k] = d} = {}
    BY <2>2
  <2>5. QueueWithin /\ RefusalsWithin BY <2>0, <2>2, <2>4 DEF QueueWithin, RefusalsWithin
  <2>6. LeaseCaps BY <2>0, <2>3 DEF LeaseCaps, SenderLeases, LeasesFor
  <2> QED BY <2>5, <2>6, BudgetsAre DEF Init, LimitInv, WithinLimits
<1>2. IndInv /\ IndInv' /\ LimitInv /\ [Next]_vars => LimitInv' BY LimitStep
<1>3. LimitInv => WithinLimits BY DEF LimitInv
<1> QED BY <1>1, <1>2, <1>3, Invariance, PTL DEF Spec
===============================================================================
