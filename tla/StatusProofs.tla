----------------------------- MODULE StatusProofs -----------------------------
(***************************************************************************)
(* Proofs about StatusFlow for every set of messages, submissions and      *)
(* publishers, every lease length and every retry horizon.                 *)
(***************************************************************************)
EXTENDS StatusFlow, TLAPS

\* A snapshot the row justifies: of a revision it has reached, equal to the row
\* at the row's own revision, and terminal only if it is the row itself.
Genuine(s) ==
    /\ s.rev <= revision[s.key]
    /\ s.rev = revision[s.key] \/ s.state \in Terminal => s = Row(s.key)

\* Rows have revisions once they exist; publications are of terminal rows, and
\* their token is the one of the latest claim, or none.
RowsAgree ==
    \A k \in Keys :
        /\ state[k] = "none" <=> revision[k] = 0
        /\ pub[k] # "none" => state[k] \in Terminal
        /\ pubToken[k] \in {0, attempts[k]}

\* Everything signed is genuine, and what is on its way was stored.
SignedAgree ==
    /\ \A s \in stored : Genuine(s)
    /\ late \subseteq stored

\* What an actor under way has in hand.
ActorsAgree ==
    \A x \in Actors :
        /\ pc[x] # "idle" => task[x] \in Keys
        /\ pc[x] \in {"signing", "storing", "sending", "replied"} => state[task[x]] # "none"
        /\ pc[x] \in {"storing", "sending"} =>
             snap[x] \in Snapshots /\ snap[x].key = task[x] /\ Genuine(snap[x])
        /\ pc[x] = "sending" => snap[x] \in stored

\* A publisher under way works on a terminal row under a token of its own; it is
\* never told of a conflict, and an acknowledgement is earned.
PublishersAgree ==
    \A p \in Publishers : pc[p] # "idle" =>
        /\ pc[p] # "posted" /\ token[p] > 0
        /\ state[task[p]] \in Terminal
        /\ pc[p] \in {"storing", "sending"} => snap[p] = Row(task[p])
        /\ pc[p] = "replied" =>
             /\ reply[p] # "conflict"
             /\ reply[p] = "acknowledged" => mine[task[p]] = Row(task[p])

IndInv ==
    /\ TypeOK
    /\ RowsAgree
    /\ SignedAgree
    /\ ActorsAgree
    /\ PublishersAgree
    /\ AuthenticView
    /\ GapIsExact
    /\ AckIsTruthful
    /\ BlockedOnlyAtTheEnd

-----------------------------------------------------------------------------
(* The actions one by one, and what each variable can do in a step.         *)

LEMMA StepCases ==
    ASSUME Next
    PROVE  \/ \E k \in Keys : Hold(k) \/ \E s \in Terminal : End(k, s)
           \/ Close \/ Fence \/ Outage \/ Tick
           \/ \E x \in Actors : Read(x) \/ Store(x) \/ Break(x)
           \/ \E c \in Calls : (\E k \in Keys : Post(c, k)) \/ Arrive(c) \/ Ignore(c) \/ Answer(c)
           \/ \E p \in Publishers : \/ Push(p) \/ Delay(p) \/ Finish(p) \/ FinishNothing(p) \/ Crash(p)
                                    \/ \E k \in Keys : Claim(p, k)
           \/ \E s \in late : PushLate(s) \/ LoseLate(s)
BY DEF Next, Recipient, Sign, Submit, Publish

\* Only transitions and the acceptance of an envelope change a row.
LEMMA RowStep ==
    ASSUME Next
    PROVE  \/ UNCHANGED row
           \/ \E k \in Keys : Hold(k) \/ \E s \in Terminal : End(k, s)
           \/ Close
           \/ \E c \in Calls : Arrive(c)
BY StepCases DEF Fence, Outage, Tick, Read, Store, Break, Post, Ignore, Answer, Push, Delay,
    Finish, FinishNothing, Crash, Claim, PushLate, LoseLate, row

\* Only a transition that ends a message, closure, claim and finish change a
\* publication.
LEMMA PublicationStep ==
    ASSUME Next
    PROVE  \/ UNCHANGED publication
           \/ \E k \in Keys : \E s \in Terminal : End(k, s)
           \/ Close
           \/ \E p \in Publishers : Finish(p) \/ \E k \in Keys : Claim(p, k)
BY StepCases DEF Hold, Fence, Outage, Tick, Read, Store, Break, Post, Arrive, Ignore, Answer,
    Push, Delay, FinishNothing, Crash, PushLate, LoseLate, publication

\* The sender's view changes only through apply.
LEMMA ViewStep ==
    ASSUME Next
    PROVE  \/ UNCHANGED view
           \/ \E x \in Actors : pc[x] = "sending" /\ Apply(snap[x])
           \/ \E s \in late : Apply(s)
BY StepCases DEF Hold, End, Close, Fence, Outage, Tick, Read, Store, Break, Post, Arrive, Ignore,
    Answer, Push, Delay, Finish, FinishNothing, Crash, Claim, PushLate, LoseLate, view, Actors

LEMMA StoredStep ==
    ASSUME Next
    PROVE  /\ stored' = stored \/ \E x \in Actors : Store(x)
           /\ late' \subseteq late \/ \E p \in Publishers : Delay(p)
BY StepCases DEF Hold, End, Close, Fence, Outage, Tick, Read, Store, Break, Post, Arrive, Ignore,
    Answer, Push, Delay, Finish, FinishNothing, Crash, Claim, PushLate, LoseLate

\* The record of one actor, unchanged.
Same(x) ==
    /\ pc'[x] = pc[x] /\ task'[x] = task[x] /\ token'[x] = token[x]
    /\ snap'[x] = snap[x] /\ reply'[x] = reply[x]

LEMMA ActorStep ==
    ASSUME TypeOK, Next, NEW x \in Actors
    PROVE  \/ Same(x)
           \/ Read(x) \/ Store(x) \/ Break(x)
           \/ x \in Calls /\ \/ \E k \in Keys : Post(x, k)
                             \/ Arrive(x) \/ Ignore(x) \/ Answer(x)
           \/ x \in Publishers /\ \/ Push(x) \/ Delay(x) \/ Finish(x) \/ FinishNothing(x)
                                  \/ Crash(x) \/ \E k \in Keys : Claim(x, k)
<1> USE DEF TypeOK, Same, Actors, actor
<1>1. CASE UNCHANGED actor BY <1>1
<1>2. CASE \E y \in Actors : Read(y) \/ Store(y) \/ Break(y)
  BY <1>2 DEF Read, Store, Break, GiveUp, Rest
<1>3. CASE \E c \in Calls : (\E k \in Keys : Post(c, k)) \/ Arrive(c) \/ Ignore(c) \/ Answer(c)
  BY <1>3 DEF Post, Arrive, Ignore, Answer, Rest
<1>4. ASSUME NEW p \in Publishers, Push(p) \/ Delay(p)
      PROVE  Same(x) \/ (x \in Publishers /\ (Push(x) \/ Delay(x)))
  <2>1. CASE x = p BY <1>4, <2>1
  <2>2. CASE x # p /\ Push(p)
    <3>1. PICK r : reply' = [reply EXCEPT ![p] = r] BY <2>2 DEF Push
    <3> QED BY <2>2, <3>1 DEF Push
  <2>3. CASE x # p /\ Delay(p) BY <2>3 DEF Delay, GiveUp, Rest
  <2> QED BY <1>4, <2>1, <2>2, <2>3
<1>5. ASSUME NEW p \in Publishers,
             Finish(p) \/ FinishNothing(p) \/ Crash(p) \/ \E k \in Keys : Claim(p, k)
      PROVE  \/ Same(x)
             \/ /\ x \in Publishers
                /\ Finish(x) \/ FinishNothing(x) \/ Crash(x) \/ \E k \in Keys : Claim(x, k)
  <2>1. CASE x = p BY <1>5, <2>1
  <2>2. CASE x # p /\ (Finish(p) \/ FinishNothing(p) \/ Crash(p))
    <3>1. Rest(p) /\ reply' = [reply EXCEPT ![p] = "none"]
      BY <2>2 DEF Finish, FinishNothing, Crash
    <3> QED BY <2>2, <3>1 DEF Rest
  <2>3. CASE x # p /\ \E k \in Keys : Claim(p, k) BY <2>3 DEF Claim
  <2> QED BY <1>5, <2>1, <2>2, <2>3
<1>6. CASE \/ \E k \in Keys : Hold(k) \/ \E s \in Terminal : End(k, s)
           \/ Close \/ Fence \/ Outage \/ Tick
           \/ \E s \in late : PushLate(s) \/ LoseLate(s)
  BY <1>1, <1>6 DEF Hold, End, Close, Fence, Outage, Tick, PushLate, LoseLate
<1> QED BY <1>2, <1>3, <1>4, <1>5, <1>6, StepCases

-----------------------------------------------------------------------------
(* Rows, snapshots and the sender's view.                                   *)

\* A row stays as it is, or is not terminal and moves to its next revision.
LEMMA RowMoves ==
    ASSUME TypeOK, RowsAgree, Next, NEW k \in Keys
    PROVE  \/ UNCHANGED <<state[k], revision[k], endedAt[k]>>
           \/ /\ state[k] \notin Terminal /\ state'[k] \in States
              /\ revision'[k] = revision[k] + 1
<1> USE DEF TypeOK, Pending, Terminal, States
<1> DEFINE Stays == UNCHANGED <<state[k], revision[k], endedAt[k]>>
           Moves == /\ state[k] \notin Terminal /\ state'[k] \in States
                    /\ revision'[k] = revision[k] + 1
<1>1. CASE UNCHANGED row BY <1>1 DEF row
<1>2. ASSUME NEW j \in Keys, Hold(j) PROVE Stays \/ Moves
  BY <1>2 DEF Hold
<1>3. ASSUME NEW j \in Keys, NEW t \in Terminal, End(j, t) PROVE Stays \/ Moves
  BY <1>3 DEF End
<1>4. CASE Close BY <1>4 DEF Close
<1>5. ASSUME NEW c \in Calls, Arrive(c) PROVE Stays \/ Moves
  BY <1>5 DEF Arrive, RowsAgree
<1> QED BY <1>1, <1>2, <1>3, <1>4, <1>5, RowStep

\* A snapshot that the row justifies is justified after every step.
LEMMA GenuineStays ==
    ASSUME TypeOK, RowsAgree, Next, NEW s \in Snapshots, Genuine(s)
    PROVE  Genuine(s)'
<1>1. s.key \in Keys /\ s.rev \in Nat /\ s.state \in States BY DEF Snapshots
<1>2. CASE UNCHANGED <<state[s.key], revision[s.key], endedAt[s.key]>>
  BY <1>1, <1>2 DEF Genuine, Row
<1>3. CASE /\ state[s.key] \notin Terminal
           /\ revision'[s.key] = revision[s.key] + 1
  <2>1. s.state \notin Terminal BY <1>3 DEF Genuine, Row
  <2>2. revision[s.key] \in Nat BY <1>1 DEF TypeOK
  <2> QED BY <1>1, <1>3, <2>1, <2>2 DEF Genuine
<1> QED BY <1>1, <1>2, <1>3, RowMoves

\* What apply does to one message.
LEMMA ApplyFact ==
    ASSUME TypeOK, NEW s \in Snapshots, Apply(s), NEW k \in Keys
    PROVE  \/ UNCHANGED <<mine[k], gap[k], applied[k]>>
           \/ /\ k = s.key /\ News(s) /\ mine'[k] = s
              /\ applied'[k] = applied[k] + 1
              /\ gap'[k] = gap[k] + (s.rev - (IF mine[k] = NoSnap THEN 0 ELSE mine[k].rev) - 1)
BY DEF Apply, TypeOK, view

\* The view of a message stays, or becomes a newer snapshot that was stored.
LEMMA ViewFact ==
    ASSUME TypeOK, SignedAgree, ActorsAgree, Next, NEW k \in Keys
    PROVE  \/ UNCHANGED <<mine[k], gap[k], applied[k]>>
           \/ \E s \in stored :
                /\ s.key = k /\ mine'[k] = s /\ News(s)
                /\ applied'[k] = applied[k] + 1
                /\ gap'[k] = gap[k] + (s.rev - (IF mine[k] = NoSnap THEN 0 ELSE mine[k].rev) - 1)
<1> DEFINE Stays == UNCHANGED <<mine[k], gap[k], applied[k]>>
           Takes(s) ==
             /\ s.key = k /\ mine'[k] = s /\ News(s)
             /\ applied'[k] = applied[k] + 1
             /\ gap'[k] = gap[k] + (s.rev - (IF mine[k] = NoSnap THEN 0 ELSE mine[k].rev) - 1)
<1>1. CASE UNCHANGED view BY <1>1 DEF view
<1>2. ASSUME NEW s \in stored, Apply(s) PROVE Stays \/ \E t \in stored : Takes(t)
  <2>1. s \in Snapshots BY DEF TypeOK
  <2> QED BY <1>2, <2>1, ApplyFact
<1>3. ASSUME NEW x \in Actors, pc[x] = "sending", Apply(snap[x]) PROVE Stays \/ \E t \in stored : Takes(t)
  BY <1>2, <1>3 DEF ActorsAgree
<1>4. ASSUME NEW s \in late, Apply(s) PROVE Stays \/ \E t \in stored : Takes(t)
  BY <1>2, <1>4 DEF SignedAgree
<1> QED BY <1>1, <1>3, <1>4, ViewStep

\* Once the sender has the row's own snapshot of a terminal row, both stay.
LEMMA SettledStays ==
    ASSUME TypeOK, RowsAgree, SignedAgree, ActorsAgree, Next, NEW k \in Keys,
           state[k] \in Terminal
    PROVE  /\ Row(k)' = Row(k) /\ state'[k] = state[k] /\ endedAt'[k] = endedAt[k]
           /\ mine[k] = Row(k) => mine'[k] = mine[k]
<1>1. UNCHANGED <<state[k], revision[k], endedAt[k]>> BY RowMoves
<1>2. Row(k)' = Row(k) BY <1>1 DEF Row
<1>3. ASSUME mine[k] = Row(k), NEW s \in stored, s.key = k, News(s) PROVE FALSE
  <2>1. Row(k).rev = revision[k] /\ revision[k] \in Nat BY DEF Row, TypeOK
  <2>2. s \in Snapshots /\ s.rev <= revision[k] BY <1>3 DEF SignedAgree, Genuine, TypeOK
  <2>3. Row(k) # NoSnap
    <3>1. Row(k) \in Snapshots
      BY <2>2, <1>3, <2>1 DEF Row, Snapshots, States, TypeOK
    <3> QED BY <3>1, StatusAssumption
  <2> QED BY <1>3, <2>1, <2>2, <2>3 DEF News, Snapshots
<1> QED BY <1>1, <1>2, <1>3, ViewFact

-----------------------------------------------------------------------------
(* The parts of the invariant.                                              *)

\* The signer's one read of a row that exists gives a snapshot.
LEMMA RowIsSnapshot ==
    ASSUME TypeOK, RowsAgree, NEW k \in Keys, state[k] # "none"
    PROVE  Row(k) \in Snapshots
BY DEF Row, Snapshots, TypeOK, RowsAgree, States

LEMMA VerdictType ==
    ASSUME NEW s
    PROVE  Verdict(s) \in Verdicts
BY DEF Verdict, Verdicts

\* apply keeps the types: the gap never becomes negative.
LEMMA ApplyType ==
    ASSUME TypeOK, NEW s \in Snapshots, Apply(s)
    PROVE  /\ mine' \in [Keys -> Snapshots \cup {NoSnap}]
           /\ gap' \in [Keys -> Nat] /\ applied' \in [Keys -> Nat]
<1> DEFINE k == s.key
           before == IF mine[k] = NoSnap THEN 0 ELSE mine[k].rev
<1>1. k \in Keys /\ s.rev \in Nat \ {0} BY DEF Snapshots
<1>2. before \in Nat BY <1>1 DEF TypeOK, Snapshots
<1>3. CASE News(s)
  <2>1. s.rev - before - 1 \in Nat BY <1>1, <1>2, <1>3 DEF News
  <2>2. /\ mine' = [mine EXCEPT ![k] = s]
        /\ gap' = [gap EXCEPT ![k] = gap[k] + (s.rev - before - 1)]
        /\ applied' = [applied EXCEPT ![k] = applied[k] + 1]
    BY <1>3 DEF Apply
  <2> HIDE DEF before
  <2> QED BY <1>1, <2>1, <2>2 DEF TypeOK
<1>4. CASE ~News(s) BY <1>4 DEF Apply, TypeOK, view
<1> QED BY <1>3, <1>4

\* Every step keeps the types.
LEMMA TypeStep ==
    ASSUME TypeOK, RowsAgree, SignedAgree, ActorsAgree, Next
    PROVE  TypeOK'
<1> USE StatusAssumption
<1> USE DEF row, publication, actor, view, Pending, Terminal, States
<1>1. ASSUME NEW k \in Keys, Hold(k) PROVE TypeOK' BY <1>1 DEF TypeOK, Hold
<1>2. ASSUME NEW k \in Keys, NEW s \in Terminal, End(k, s) PROVE TypeOK'
  BY <1>2 DEF TypeOK, End
<1>3. CASE Close BY <1>3 DEF TypeOK, Close
<1>4. CASE Fence \/ Outage \/ Tick
  <2>1. CASE Fence BY <2>1 DEF TypeOK, Fence
  <2>2. CASE Outage
    <3>1. reachable' \in BOOLEAN BY <2>2, Zenon DEF Outage
    <3>2. UNCHANGED <<now, account, row, stored, publication, actor, late, view>>
      BY <2>2 DEF Outage
    <3> QED BY <3>1, <3>2 DEF TypeOK
  <2>3. CASE Tick BY <2>3 DEF TypeOK, Tick
  <2> QED BY <1>4, <2>1, <2>2, <2>3
<1>5. ASSUME NEW x \in Actors, Read(x) PROVE TypeOK'
  <2>1. Row(task[x]) \in Snapshots BY <1>5, RowIsSnapshot DEF Read, ActorsAgree
  <2> QED BY <1>5, <2>1 DEF TypeOK, Read
<1>6. ASSUME NEW x \in Actors, Store(x) PROVE TypeOK'
  BY <1>6 DEF TypeOK, Store, ActorsAgree
<1>7. ASSUME NEW x \in Actors, Break(x) PROVE TypeOK'
  BY SMTT(40), <1>7 DEF TypeOK, Break, GiveUp, Rest
<1>8. ASSUME NEW c \in Calls, NEW k \in Keys, Post(c, k) PROVE TypeOK'
  BY <1>8 DEF TypeOK, Post, Actors
<1>9. ASSUME NEW c \in Calls, Arrive(c) PROVE TypeOK'
  BY <1>9 DEF TypeOK, Arrive, Actors
<1>10. ASSUME NEW c \in Calls, Ignore(c) PROVE TypeOK'
  BY <1>10 DEF TypeOK, Ignore, Rest, Actors
<1>11. ASSUME NEW c \in Calls, Answer(c) PROVE TypeOK'
  <2>1. snap[c] \in Snapshots /\ Apply(snap[c]) BY <1>11 DEF Answer, ActorsAgree, Actors
  <2>2. Verdict(snap[c]) \in Verdicts BY VerdictType
  <2> HIDE DEF view
  <2> QED BY <1>11, <2>1, <2>2, ApplyType DEF TypeOK, Answer, Rest, Actors
<1>12. ASSUME NEW p \in Publishers, Push(p) PROVE TypeOK'
  <2>1. snap[p] \in Snapshots /\ Apply(snap[p]) BY <1>12 DEF Push, ActorsAgree, Actors
  <2>2. Verdict(snap[p]) \in Verdicts BY VerdictType
  <2>3. PICK r \in {Verdict(snap[p]), "none"} : reply' = [reply EXCEPT ![p] = r]
    BY <1>12 DEF Push
  <2>4. reply' \in [Actors -> Verdicts \cup {"none"}] BY <2>2, <2>3 DEF TypeOK
  <2> QED BY <1>12, <2>1, <2>4, ApplyType DEF TypeOK, Push, Actors
<1>13. ASSUME NEW p \in Publishers, Delay(p) PROVE TypeOK'
  BY <1>13 DEF TypeOK, Delay, GiveUp, Rest, Actors, ActorsAgree
<1>14. ASSUME NEW p \in Publishers, Finish(p) PROVE TypeOK'
  <2> DEFINE k == task[p]
  <2>1. k \in Keys BY <1>14 DEF Finish, ActorsAgree, Actors
  <2>2. Outcome(p) \in {"acknowledged", "blocked", "retry"} BY DEF Outcome
  <2>3. pubNext' \in [Keys -> Nat]
    <3>1. CASE UNCHANGED pubNext BY <3>1 DEF TypeOK
    <3>2. ASSUME NEW t \in (now + 1) .. Horizon(k), pubNext' = [pubNext EXCEPT ![k] = t]
          PROVE  pubNext' \in [Keys -> Nat]
      <4>1. Horizon(k) \in Nat /\ now \in Nat BY <2>1 DEF Horizon, TypeOK
      <4> QED BY <2>1, <3>2, <4>1 DEF TypeOK
    <3> QED BY <1>14, <3>1, <3>2 DEF Finish
  <2> QED BY <1>14, <2>1, <2>2, <2>3 DEF TypeOK, Finish, Rest, Actors
<1>15. ASSUME NEW p \in Publishers, FinishNothing(p) \/ Crash(p) PROVE TypeOK'
  BY <1>15 DEF TypeOK, FinishNothing, Crash, Rest, Actors
<1>16. ASSUME NEW p \in Publishers, NEW k \in Keys, Claim(p, k) PROVE TypeOK'
  BY <1>16 DEF TypeOK, Claim, Actors
<1>17. ASSUME NEW s \in late, PushLate(s) PROVE TypeOK'
  <2>1. s \in Snapshots BY DEF TypeOK
  <2> QED BY <1>17, <2>1, ApplyType DEF TypeOK, PushLate
<1>18. ASSUME NEW s \in late, LoseLate(s) PROVE TypeOK' BY <1>18 DEF TypeOK, LoseLate
<1> QED
  BY <1>1, <1>2, <1>3, <1>4, <1>5, <1>6, <1>7, <1>8, <1>9, <1>10, <1>11, <1>12, <1>13,
     <1>14, <1>15, <1>16, <1>17, <1>18, StepCases

LEMMA RowsStep ==
    ASSUME TypeOK, RowsAgree, ActorsAgree, PublishersAgree, Next
    PROVE  RowsAgree'
<1> SUFFICES ASSUME NEW k \in Keys
             PROVE  /\ state'[k] = "none" <=> revision'[k] = 0
                    /\ pub'[k] # "none" => state'[k] \in Terminal
                    /\ pubToken'[k] \in {0, attempts'[k]}
  BY DEF RowsAgree
<1>1. state'[k] = "none" <=> revision'[k] = 0
  BY RowMoves DEF RowsAgree, TypeOK, States, Pending, Terminal
<1>2. state[k] \in Terminal => state'[k] \in Terminal BY RowMoves
<1>3. CASE UNCHANGED publication
  BY <1>1, <1>2, <1>3 DEF RowsAgree, publication
<1>4. ASSUME NEW j \in Keys, NEW t \in Terminal, End(j, t)
      PROVE  /\ pub'[k] # "none" => state'[k] \in Terminal
             /\ pubToken'[k] \in {0, attempts'[k]}
  BY <1>2, <1>4 DEF End, RowsAgree, TypeOK
<1>5. CASE Close
  BY <1>1, <1>2, <1>5 DEF Close, RowsAgree, TypeOK, Open
<1>6. ASSUME NEW p \in Publishers, Finish(p)
      PROVE  /\ pub'[k] # "none" => state'[k] \in Terminal
             /\ pubToken'[k] \in {0, attempts'[k]}
  BY <1>2, <1>6 DEF Finish, RowsAgree, TypeOK, Owns, Open
<1>7. ASSUME NEW p \in Publishers, NEW j \in Keys, Claim(p, j)
      PROVE  /\ pub'[k] # "none" => state'[k] \in Terminal
             /\ pubToken'[k] \in {0, attempts'[k]}
  BY <1>2, <1>7 DEF Claim, RowsAgree, TypeOK
<1> QED BY <1>1, <1>3, <1>4, <1>5, <1>6, <1>7, PublicationStep

LEMMA SignedStep ==
    ASSUME TypeOK, RowsAgree, SignedAgree, ActorsAgree, Next
    PROVE  SignedAgree'
<1>1. ASSUME NEW s \in stored PROVE Genuine(s)'
  BY GenuineStays DEF SignedAgree, TypeOK
<1>2. ASSUME NEW s \in stored' PROVE Genuine(s)'
  <2>1. CASE s \in stored BY <1>1, <2>1
  <2>2. CASE s \notin stored
    <3>1. PICK x \in Actors : Store(x) BY <2>2, StoredStep
    <3>2. s = snap[x] /\ pc[x] = "storing" BY <2>2, <3>1 DEF Store
    <3> QED BY <3>2, GenuineStays DEF ActorsAgree
  <2> QED BY <2>1, <2>2
<1>3. stored \subseteq stored' BY StoredStep DEF Store
<1>4. late' \subseteq stored'
  <2>1. CASE late' \subseteq late BY <1>3, <2>1 DEF SignedAgree
  <2>2. ASSUME NEW p \in Publishers, Delay(p) PROVE late' \subseteq stored'
    BY <1>3, <2>2 DEF Delay, ActorsAgree, Actors, SignedAgree
  <2> QED BY <2>1, <2>2, StoredStep
<1> QED BY <1>2, <1>4 DEF SignedAgree

LEMMA ActorsStep ==
    ASSUME TypeOK, RowsAgree, SignedAgree, ActorsAgree, Next
    PROVE  ActorsAgree'
<1> DEFINE Part(x) ==
        /\ pc[x] # "idle" => task[x] \in Keys
        /\ pc[x] \in {"signing", "storing", "sending", "replied"} => state[task[x]] # "none"
        /\ pc[x] \in {"storing", "sending"} =>
             snap[x] \in Snapshots /\ snap[x].key = task[x] /\ Genuine(snap[x])
        /\ pc[x] = "sending" => snap[x] \in stored
<1> SUFFICES ASSUME NEW x \in Actors PROVE Part(x)' BY DEF ActorsAgree
<1>0. Part(x) BY DEF ActorsAgree
<1>1. stored \subseteq stored' BY StoredStep DEF Store
<1>2. ASSUME NEW k \in Keys, state[k] # "none" PROVE state'[k] # "none"
  BY <1>2, RowMoves DEF States, Pending, Terminal
<1>3. ASSUME NEW s \in Snapshots, Genuine(s) PROVE Genuine(s)' BY <1>3, GenuineStays
<1>4. CASE Same(x)
  <2>1. ASSUME pc[x] \in {"storing", "sending"} PROVE Genuine(snap[x])'
    <3>1. PICK s \in Snapshots : s = snap[x] /\ Genuine(s) BY <1>0, <2>1
    <3>2. Genuine(s)' /\ snap'[x] = s BY <1>3, <1>4, <3>1 DEF Same
    <3> QED BY <3>2 DEF Genuine, Row
  <2>2. pc'[x] = pc[x] /\ task'[x] = task[x] /\ snap'[x] = snap[x] BY <1>4 DEF Same
  <2> QED BY <1>0, <1>1, <1>2, <2>1, <2>2
<1>5. CASE pc'[x] = "idle" BY <1>5
<1>6. CASE Read(x)
  <2>1. task[x] \in Keys /\ state[task[x]] # "none" BY <1>0, <1>6 DEF Read
  <2>2. Row(task[x]) \in Snapshots BY <2>1, RowIsSnapshot
  <2>3. /\ pc'[x] = "storing" /\ task'[x] = task[x] /\ snap'[x] = Row(task[x])
        /\ UNCHANGED row
    BY <1>6 DEF Read, TypeOK
  <2>4. snap'[x] = [key |-> task[x], rev |-> revision[task[x]], state |-> state[task[x]]]
    BY <2>3 DEF Row
  <2>5. revision[task[x]] \in Nat BY <2>1 DEF TypeOK
  <2>6. Genuine(snap[x])' BY <2>1, <2>3, <2>4, <2>5 DEF Genuine, Row, row
  <2> QED BY <2>1, <2>2, <2>3, <2>4, <2>6 DEF row
<1>7. CASE Store(x)
  <2>1. pc'[x] = "sending" /\ UNCHANGED <<task, snap, row>> /\ snap[x] \in stored'
    BY <1>7 DEF Store, TypeOK
  <2> QED BY <1>0, <1>7, <2>1 DEF Store, Genuine, Row, row
<1>8. ASSUME pc'[x] \in {"posted", "signing", "replied"},
             task'[x] \in Keys, pc'[x] # "posted" => state'[task'[x]] # "none"
      PROVE  Part(x)'
  BY <1>8
<1>9. CASE Break(x)
  BY <1>0, <1>5, <1>8, <1>9 DEF Break, GiveUp, Rest, TypeOK, row
<1>10. CASE \E k \in Keys : Post(x, k) BY <1>8, <1>10 DEF Post, TypeOK
<1>11. CASE Arrive(x)
  BY <1>0, <1>8, <1>11 DEF Arrive, TypeOK
<1>12. CASE Ignore(x) \/ Answer(x) BY <1>5, <1>12 DEF Ignore, Answer, Rest, TypeOK
<1>13. CASE Push(x) BY <1>0, <1>8, <1>13 DEF Push, TypeOK, row
<1>14. CASE Delay(x) BY <1>0, <1>5, <1>8, <1>14 DEF Delay, GiveUp, Rest, TypeOK, row
<1>15. CASE Finish(x) \/ FinishNothing(x) \/ Crash(x)
  BY <1>5, <1>15 DEF Finish, FinishNothing, Crash, Rest, TypeOK
<1>16. ASSUME NEW k \in Keys, Claim(x, k) PROVE Part(x)'
  <2>1. state[k] \in Terminal BY <1>16 DEF Claim, Due, Open, RowsAgree
  <2> QED BY <1>8, <1>16, <2>1 DEF Claim, TypeOK, row, Terminal
<1> QED
  BY <1>4, <1>6, <1>7, <1>9, <1>10, <1>11, <1>12, <1>13, <1>14, <1>15, <1>16, ActorStep

\* The receiver never refuses the snapshot of a terminal row, and acknowledges
\* it only when the sender has it or takes it in that step.
LEMMA TerminalVerdict ==
    ASSUME TypeOK, RowsAgree, SignedAgree, AuthenticView, NEW k \in Keys, state[k] \in Terminal
    PROVE  /\ Verdict(Row(k)) # "conflict"
           /\ Verdict(Row(k)) = "acknowledged" => mine[k] = Row(k) \/ News(Row(k))
<1> DEFINE s == Row(k)
<1>1. s.key = k /\ s.rev = revision[k] /\ s.state = state[k] BY DEF Row
<1>2. state[k] # "on-hold" /\ state[k] # "accepted" BY DEF Terminal
<1>3. CASE mine[k] = NoSnap BY <1>1, <1>2, <1>3 DEF Verdict, News
<1>4. CASE mine[k] # NoSnap
  <2>1. mine[k] \in Snapshots /\ mine[k].key = k /\ Genuine(mine[k])
    BY <1>4 DEF AuthenticView, SignedAgree, TypeOK
  <2>2. mine[k].rev \in Nat /\ revision[k] \in Nat BY <2>1 DEF Snapshots, TypeOK
  <2>3. CASE mine[k] = s
    <3>1. Verdict(s) \in {"acknowledged", "unknown"} BY <1>1, <1>4, <2>3 DEF Verdict
    <3> QED BY <2>3, <3>1
  <2>4. CASE mine[k] # s
    <3>1. mine[k].rev < revision[k] /\ mine[k].state \notin Terminal
      BY <2>1, <2>2, <2>4 DEF Genuine
    <3> HIDE DEF s
    <3>2. Verdict(s) \in {"acknowledged", "unknown"}
      BY <1>1, <1>2, <1>4, <2>2, <2>4, <3>1 DEF Verdict
    <3>3. Verdict(s) = "acknowledged" => News(s) BY <1>1, <2>2, <3>1 DEF News
    <3> QED BY <3>2, <3>3 DEF s
  <2> QED BY <2>3, <2>4
<1> QED BY <1>3, <1>4

LEMMA PublishersStep ==
    ASSUME TypeOK, RowsAgree, SignedAgree, ActorsAgree, PublishersAgree, AuthenticView, Next
    PROVE  PublishersAgree'
<1> DEFINE Part(p) ==
        /\ pc[p] # "posted" /\ token[p] > 0
        /\ state[task[p]] \in Terminal
        /\ pc[p] \in {"storing", "sending"} => snap[p] = Row(task[p])
        /\ pc[p] = "replied" =>
             /\ reply[p] # "conflict"
             /\ reply[p] = "acknowledged" => mine[task[p]] = Row(task[p])
<1> SUFFICES ASSUME NEW p \in Publishers, pc'[p] # "idle" PROVE Part(p)'
  BY DEF PublishersAgree
<1>k. PICK k : k = task[p] OBVIOUS
<1>0. p \in Actors /\ p \notin Calls BY StatusAssumption DEF Actors
<1>1. pc[p] # "idle" => Part(p) /\ k \in Keys BY <1>0, <1>k DEF PublishersAgree, ActorsAgree
<1>2. ASSUME pc[p] # "idle"
      PROVE  /\ Row(k)' = Row(k) /\ state'[k] \in Terminal
             /\ mine[k] = Row(k) => mine'[k] = Row(k)'
  <2>1. k \in Keys /\ state[k] \in Terminal BY <1>1, <1>2, <1>k
  <2> QED BY <2>1, SettledStays
<1>3. CASE Same(p)
  <2>1. pc[p] # "idle" BY <1>3 DEF Same
  <2>2. pc'[p] = pc[p] /\ task'[p] = k /\ token'[p] = token[p] /\ snap'[p] = snap[p]
        /\ reply'[p] = reply[p]
    BY <1>k, <1>3 DEF Same
  <2>3. Row(task[p])' = Row(k)' BY <2>2 DEF Row
  <2> QED BY <1>k, <1>1, <1>2, <2>1, <2>2, <2>3
<1>4. CASE Read(p)
  <2>1. /\ pc[p] = "signing" /\ pc'[p] = "storing" /\ task'[p] = k /\ token'[p] = token[p]
        /\ snap'[p] = Row(k)
    BY <1>k, <1>0, <1>4 DEF Read, TypeOK
  <2>2. Row(task[p])' = Row(k)' BY <2>1 DEF Row
  <2> QED BY <1>k, <1>1, <1>2, <2>1, <2>2
<1>5. CASE Store(p)
  <2>1. /\ pc[p] = "storing" /\ pc'[p] = "sending" /\ task'[p] = k /\ token'[p] = token[p]
        /\ snap'[p] = snap[p]
    BY <1>k, <1>0, <1>5 DEF Store, TypeOK
  <2>2. Row(task[p])' = Row(k)' BY <2>1 DEF Row
  <2> QED BY <1>k, <1>1, <1>2, <2>1, <2>2
<1>6. CASE Break(p) \/ Delay(p)
  <2>1. /\ pc[p] # "idle" /\ pc'[p] = "replied" /\ task'[p] = k /\ token'[p] = token[p]
        /\ reply'[p] = "none"
    BY <1>k, <1>0, <1>6 DEF Break, Delay, GiveUp, TypeOK
  <2> QED BY <1>k, <1>1, <1>2, <2>1
<1>7. CASE Push(p)
  <2>1. /\ pc[p] = "sending" /\ pc'[p] = "replied" /\ task'[p] = k /\ token'[p] = token[p]
        /\ snap[p] = Row(k) /\ Apply(Row(k))
    BY <1>k, <1>0, <1>1, <1>7 DEF Push, TypeOK
  <2>2. reply'[p] \in {Verdict(Row(k)), "none"}
    <3>1. PICK r \in {Verdict(Row(k)), "none"} : reply' = [reply EXCEPT ![p] = r]
      BY <1>k, <1>7, <2>1 DEF Push
    <3> QED BY <1>0, <3>1 DEF TypeOK
  <2>3. k \in Keys /\ state[k] \in Terminal BY <1>k, <1>1, <2>1
  <2>4. /\ Verdict(Row(k)) # "conflict"
        /\ Verdict(Row(k)) = "acknowledged" => mine[k] = Row(k) \/ News(Row(k))
    BY <2>3, TerminalVerdict
  <2>5. News(Row(k)) => mine'[k] = Row(k)
    <3>1. Row(k).key = k BY DEF Row
    <3> QED BY <2>1, <2>3, <3>1 DEF Apply, TypeOK
  <2>6. Row(task[p])' = Row(k)' BY <2>1 DEF Row
  <2> QED BY <1>k, <1>1, <1>2, <2>1, <2>2, <2>4, <2>5, <2>6
<1>8. CASE Finish(p) \/ FinishNothing(p) \/ Crash(p)
  BY <1>0, <1>8 DEF Finish, FinishNothing, Crash, Rest, TypeOK
<1>9. ASSUME NEW j \in Keys, Claim(p, j) PROVE Part(p)'
  <2>1. state[j] \in Terminal BY <1>9 DEF Claim, Due, Open, RowsAgree
  <2>2. /\ pc'[p] = "signing" /\ task'[p] = j /\ token'[p] = attempts[j] + 1
        /\ state' = state /\ attempts[j] \in Nat
    BY <1>0, <1>9 DEF Claim, TypeOK, row
  <2> QED BY <2>1, <2>2
<1> QED BY <1>0, <1>3, <1>4, <1>5, <1>6, <1>7, <1>8, <1>9, ActorStep

LEMMA AuthenticStep ==
    ASSUME TypeOK, RowsAgree, SignedAgree, ActorsAgree, AuthenticView, Next
    PROVE  AuthenticView'
<1> SUFFICES ASSUME NEW k \in Keys, mine'[k] # NoSnap
             PROVE  /\ mine'[k] \in stored' /\ mine'[k].key = k
                    /\ mine'[k].rev <= revision'[k]
                    /\ mine'[k].rev = revision'[k] => mine'[k] = Row(k)'
  BY DEF AuthenticView
<1>1. stored \subseteq stored' BY StoredStep DEF Store
<1>2. mine'[k] \in stored' /\ mine'[k].key = k BY <1>1, ViewFact DEF AuthenticView
<1>3. PICK s \in stored' : s = mine'[k] BY <1>2
<1>4. Genuine(s)' BY SignedStep DEF SignedAgree
<1> QED BY <1>2, <1>3, <1>4 DEF Genuine, Row

LEMMA GapStep ==
    ASSUME TypeOK, SignedAgree, ActorsAgree, GapIsExact, Next
    PROVE  GapIsExact'
<1> SUFFICES ASSUME NEW k \in Keys
             PROVE  gap'[k] + applied'[k] = IF mine'[k] = NoSnap THEN 0 ELSE mine'[k].rev
  BY DEF GapIsExact
<1>1. gap[k] + applied[k] = IF mine[k] = NoSnap THEN 0 ELSE mine[k].rev BY DEF GapIsExact
<1>2. CASE UNCHANGED <<mine[k], gap[k], applied[k]>> BY <1>1, <1>2
<1>3. ASSUME NEW s \in stored, mine'[k] = s, applied'[k] = applied[k] + 1,
             gap'[k] = gap[k] + (s.rev - (IF mine[k] = NoSnap THEN 0 ELSE mine[k].rev) - 1)
      PROVE  gap'[k] + applied'[k] = IF mine'[k] = NoSnap THEN 0 ELSE mine'[k].rev
  <2>1. s \in Snapshots /\ s # NoSnap /\ s.rev \in Nat
    BY StatusAssumption DEF TypeOK, Snapshots
  <2>2. gap[k] \in Nat /\ applied[k] \in Nat BY DEF TypeOK
  <2> DEFINE before == IF mine[k] = NoSnap THEN 0 ELSE mine[k].rev
  <2>3. gap[k] + applied[k] = before BY <1>1
  <2>4. gap'[k] = gap[k] + (s.rev - before - 1) BY <1>3
  <2> HIDE DEF before
  <2> QED BY <1>3, <2>1, <2>2, <2>3, <2>4
<1> QED BY <1>2, <1>3, ViewFact

LEMMA AckStep ==
    ASSUME TypeOK, RowsAgree, SignedAgree, ActorsAgree, PublishersAgree, AckIsTruthful, Next
    PROVE  AckIsTruthful'
<1> SUFFICES ASSUME NEW k \in Keys, pub'[k] = "acknowledged"
             PROVE  state'[k] \in Terminal /\ mine'[k] = Row(k)'
  BY DEF AckIsTruthful
<1>1. CASE pub[k] = "acknowledged"
  BY <1>1, SettledStays DEF AckIsTruthful
<1>2. CASE pub[k] # "acknowledged"
  <2>1. PICK p \in Publishers : Finish(p)
    BY <1>2, PublicationStep DEF publication, End, Close, Claim, TypeOK
  <2>2. k = task[p] /\ Outcome(p) = "acknowledged" BY <1>2, <2>1 DEF Finish, TypeOK
  <2>3. reply[p] = "acknowledged" BY <2>2 DEF Outcome
  <2>4. state[k] \in Terminal /\ mine[k] = Row(k)
    BY <2>1, <2>2, <2>3 DEF Finish, PublishersAgree
  <2> QED BY <2>4, SettledStays
<1> QED BY <1>1, <1>2

LEMMA BlockedStep ==
    ASSUME TypeOK, RowsAgree, SignedAgree, ActorsAgree, PublishersAgree, BlockedOnlyAtTheEnd,
           Next
    PROVE  BlockedOnlyAtTheEnd'
<1> SUFFICES ASSUME NEW k \in Keys, pub'[k] = "blocked"
             PROVE  account' = "closed" \/ now' >= Horizon(k)'
  BY DEF BlockedOnlyAtTheEnd
<1>1. account = "closed" => account' = "closed"
  BY StepCases DEF Hold, End, Close, Fence, Outage, Tick, Read, Store, Break, Post, Arrive,
     Ignore, Answer, Push, Delay, Finish, FinishNothing, Crash, Claim, PushLate, LoseLate
<1>2. now' = now \/ now' = now + 1
  BY StepCases DEF Hold, End, Close, Fence, Outage, Tick, Read, Store, Break, Post, Arrive,
     Ignore, Answer, Push, Delay, Finish, FinishNothing, Crash, Claim, PushLate, LoseLate
<1>3. now \in Nat /\ endedAt[k] \in Nat /\ Replay \in Nat /\ RetryFor \in Nat
  BY StatusAssumption DEF TypeOK
<1>4. state[k] \in Terminal => Horizon(k)' = Horizon(k) BY SettledStays DEF Horizon
<1>5. CASE pub[k] = "blocked"
  <2>1. state[k] \in Terminal /\ (account = "closed" \/ now >= Horizon(k))
    BY <1>5 DEF RowsAgree, BlockedOnlyAtTheEnd
  <2>2. Horizon(k) \in Nat BY <1>3 DEF Horizon
  <2> QED BY <1>1, <1>2, <1>3, <1>4, <2>1, <2>2
<1>6. CASE pub[k] # "blocked"
  <2>1. CASE Close BY <2>1 DEF Close
  <2>2. CASE ~Close
    <3>1. PICK p \in Publishers : Finish(p)
      BY <1>6, <2>2, PublicationStep DEF publication, End, Claim, TypeOK
    <3>2. k = task[p] /\ Outcome(p) = "blocked" /\ now' = now
      BY <1>6, <3>1 DEF Finish, TypeOK
    <3>3. state[k] \in Terminal /\ reply[p] # "conflict"
      BY <3>1, <3>2 DEF Finish, PublishersAgree
    <3>4. now >= Horizon(k) BY <3>2, <3>3 DEF Outcome
    <3> QED BY <1>4, <3>2, <3>3, <3>4
  <2> QED BY <2>1, <2>2
<1> QED BY <1>5, <1>6

-----------------------------------------------------------------------------
(* The theorems.                                                            *)

LEMMA InvInit == Init => IndInv
<1> SUFFICES ASSUME Init PROVE IndInv OBVIOUS
<1> USE StatusAssumption DEF Init
<1>1. TypeOK BY DEF TypeOK
<1>2. RowsAgree /\ SignedAgree BY DEF RowsAgree, SignedAgree
<1>3. ActorsAgree /\ PublishersAgree BY DEF ActorsAgree, PublishersAgree, Actors
<1>4. AuthenticView /\ GapIsExact BY DEF AuthenticView, GapIsExact
<1>5. AckIsTruthful /\ BlockedOnlyAtTheEnd BY DEF AckIsTruthful, BlockedOnlyAtTheEnd
<1> QED BY <1>1, <1>2, <1>3, <1>4, <1>5 DEF IndInv

LEMMA InvNext == IndInv /\ [Next]_vars => IndInv'
<1> SUFFICES ASSUME IndInv, [Next]_vars PROVE IndInv' OBVIOUS
<1>1. CASE Next
  <2> USE <1>1 DEF IndInv
  <2>1. TypeOK' BY TypeStep
  <2>2. RowsAgree' BY RowsStep
  <2>3. SignedAgree' BY SignedStep
  <2>4. ActorsAgree' BY ActorsStep
  <2>5. PublishersAgree' BY PublishersStep
  <2>6. AuthenticView' BY AuthenticStep
  <2>7. GapIsExact' BY GapStep
  <2>8. AckIsTruthful' BY AckStep
  <2>9. BlockedOnlyAtTheEnd' BY BlockedStep
  <2> QED BY <2>1, <2>2, <2>3, <2>4, <2>5, <2>6, <2>7, <2>8, <2>9
<1>2. CASE UNCHANGED vars
  <2> USE <1>2 DEF IndInv, vars, row, publication, actor, view
  <2>1. TypeOK' BY DEF TypeOK
  <2>2. RowsAgree' BY DEF RowsAgree
  <2>3. SignedAgree' BY DEF SignedAgree, Genuine, Row
  <2>4. ActorsAgree' BY DEF ActorsAgree, Genuine, Row
  <2>5. PublishersAgree' BY DEF PublishersAgree, Row
  <2>6. AuthenticView' BY DEF AuthenticView, Row
  <2>7. GapIsExact' BY DEF GapIsExact
  <2>8. AckIsTruthful' BY DEF AckIsTruthful, Row
  <2>9. BlockedOnlyAtTheEnd' BY DEF BlockedOnlyAtTheEnd, Horizon
  <2> QED BY <2>1, <2>2, <2>3, <2>4, <2>5, <2>6, <2>7, <2>8, <2>9
<1> QED BY <1>1, <1>2

LEMMA Invariance == Spec => []IndInv
BY InvInit, InvNext, PTL DEF Spec

\* Every variable keeps its type; in particular the audit gap never becomes
\* negative (status-receiver.ts, apply).
THEOREM StatusTypes == Spec => []TypeOK
<1>1. IndInv => TypeOK BY DEF IndInv
<1> QED BY <1>1, Invariance, PTL

\* What the sender believes was signed and stored by the recipient, at a
\* revision its row has reached.
THEOREM StatusAuthentic == Spec => []AuthenticView
<1>1. IndInv => AuthenticView BY DEF IndInv
<1> QED BY <1>1, Invariance, PTL

\* The audit gap counts exactly the revisions the sender never stored.
THEOREM GapCounts == Spec => []GapIsExact
<1>1. IndInv => GapIsExact BY DEF IndInv
<1> QED BY <1>1, Invariance, PTL

\* An acknowledged publication means that the sender holds the terminal state.
THEOREM AckTruth == Spec => []AckIsTruthful
<1>1. IndInv => AckIsTruthful BY DEF IndInv
<1> QED BY <1>1, Invariance, PTL

\* A publication is blocked only by closure or after the retry horizon.
THEOREM NeverRefused == Spec => []BlockedOnlyAtTheEnd
<1>1. IndInv => BlockedOnlyAtTheEnd BY DEF IndInv
<1> QED BY <1>1, Invariance, PTL

\* The sender's revision only grows and its terminal state stays: stale and
\* repeated snapshots change nothing.
THEOREM ViewMonotone == Spec => ViewMoves
<1> DEFINE Moves == \A k \in Keys : mine[k] # NoSnap =>
         /\ mine'[k] # NoSnap /\ mine'[k].rev >= mine[k].rev
         /\ mine[k].state \in Terminal => mine'[k] = mine[k]
<1>1. IndInv /\ [Next]_vars => [Moves]_vars
  <2> SUFFICES ASSUME IndInv, Next, NEW k \in Keys, mine[k] # NoSnap
               PROVE  /\ mine'[k] # NoSnap /\ mine'[k].rev >= mine[k].rev
                      /\ mine[k].state \in Terminal => mine'[k] = mine[k]
    OBVIOUS
  <2> USE DEF IndInv
  <2>1. mine[k] \in Snapshots /\ mine[k].key = k /\ Genuine(mine[k])
    BY DEF AuthenticView, SignedAgree, TypeOK
  <2>2. mine[k].rev \in Nat /\ revision[k] \in Nat BY <2>1 DEF Snapshots, TypeOK
  <2>3. CASE mine'[k] = mine[k] BY <2>2, <2>3
  <2>4. ASSUME NEW s \in stored, s.key = k, mine'[k] = s, News(s)
        PROVE  /\ mine'[k] # NoSnap /\ mine'[k].rev >= mine[k].rev
               /\ mine[k].state \notin Terminal
    <3>1. s \in Snapshots /\ s # NoSnap /\ s.rev \in Nat
      BY StatusAssumption DEF TypeOK, Snapshots
    <3>2. s.rev > mine[k].rev BY <2>4 DEF News
    <3>3. s.rev <= revision[k] BY <2>4 DEF SignedAgree, Genuine
    <3>4. mine[k] # Row(k) BY <2>2, <3>1, <3>2, <3>3 DEF Row
    <3>5. mine[k].state \notin Terminal BY <2>1, <3>4 DEF Genuine
    <3> QED BY <2>2, <2>4, <3>1, <3>2, <3>5
  <2> QED BY <2>3, <2>4, ViewFact
<1> QED BY <1>1, Invariance, PTL DEF Spec, ViewMoves

\* A publisher whose lease was taken over ends without writing the publication.
THEOREM LatePublishers == Spec => LatePublisherHarmless
<1> DEFINE Harmless == \A p \in Publishers :
         pc[p] = "replied" /\ pc'[p] = "idle" /\ token[p] < attempts[task[p]]
         => UNCHANGED publication
<1>1. IndInv /\ [Next]_vars => [Harmless]_vars
  <2> SUFFICES ASSUME IndInv, Next, NEW p \in Publishers, pc[p] = "replied", pc'[p] = "idle",
                      token[p] < attempts[task[p]]
               PROVE  UNCHANGED publication
    OBVIOUS
  <2> USE DEF IndInv
  <2>1. p \in Actors /\ p \notin Calls BY StatusAssumption DEF Actors
  <2>2. task[p] \in Keys /\ token[p] > 0 BY <2>1 DEF ActorsAgree, PublishersAgree
  <2>3. ~Owns(p)
    <3>1. token[p] \in Nat /\ attempts[task[p]] \in Nat BY <2>1, <2>2 DEF TypeOK
    <3> QED BY <2>2, <3>1 DEF Owns, RowsAgree
  <2>4. ~Same(p) BY DEF Same
  <2>5. FinishNothing(p) \/ Crash(p)
    BY <2>1, <2>3, <2>4, ActorStep DEF Read, Store, Break, Push, Delay, Finish, Claim
  <2> QED BY <2>5 DEF FinishNothing, Crash
<1> QED BY <1>1, Invariance, PTL DEF Spec, LatePublisherHarmless

=============================================================================
