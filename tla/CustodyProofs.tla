---------------------------- MODULE CustodyProofs ----------------------------
(***************************************************************************)
(* Proofs about Custody for every number of requests, Grants, keys,        *)
(* generations and faults.                                                 *)
(***************************************************************************)
EXTENDS Custody, TLAPS

\* Every identity key the directory has named
PlcKeys == {plc[i].key : i \in 1..Len(plc)}

\* Requests: what is signed for the present generation is signed by its key.
RequestRows == [grant : Grants, status : {"active", "revoked"}, revision : Revisions, key : Keys,
                generation : 1..MaxGeneration]

RequestInv ==
    /\ request \in RequestRows \cup {None}
    /\ request # None => /\ request.generation <= account.generation
                         /\ request.generation = account.generation => request.key = account.key

\* A revision is a Grant signed by itself or a generation that replaced it; a signed
\* request counts already.
RevisionInv ==
    \A g \in Grants : /\ grants[g].revision <= signed + account.generation
                      /\ request # None => grants[g].revision + 1 <= signed + account.generation
                      /\ grants[g].status = "active" => grants[g].revision # 0

\* A transition to the provider succeeds every Grant that is active: none is stored while
\* it is open.
SuccessorInv ==
    open.state # "none" /\ open.dir = "managed" => \A g \in Active : open.succ[g] # 0

\* Keys are drawn once: what the directory and the provider have is older than the next key.
KeyInv ==
    /\ \A k \in PlcKeys : k < fresh
    /\ account.key \in PlcKeys /\ provider \subseteq PlcKeys
    /\ vault < fresh
    /\ file = "key" => /\ account.kind = "managed" /\ vault \in Keys
                       /\ open.state = "none" => vault \notin PlcKeys

\* The transition that is not complete: it leaves the present generation, its new key is
\* unknown to the directory until the directory's last operation names it, and a transition
\* to the owner keeps the command line on the key it was prepared for.
OpenInv ==
    open.state # "none" =>
        /\ open.from = account.generation /\ open.from < MaxGeneration
        /\ open.dir # account.kind /\ open.old = account.key
        /\ open.prev <= Len(plc)
        /\ open.new \in Keys /\ open.new < fresh
        /\ Head1.key # open.new => open.new \notin PlcKeys
        /\ open.state = "recorded" => file = "state"
        /\ open.dir = "owner" => file \in {"key", "state"} /\ open.new \notin provider

\* A request that has reviewed the present generation proposes a key of its own, or the one
\* in the owner's vault, which stays there.
ReviewInv ==
    \A c \in Calls : calls[c].at = "prepare" =>
        /\ calls[c].prev <= Len(plc) /\ calls[c].from <= account.generation
        /\ calls[c].from = account.generation =>
             /\ calls[c].from < MaxGeneration
             /\ calls[c].new \in Keys /\ calls[c].new < fresh
             /\ open.state = "none" => calls[c].new \notin PlcKeys
             /\ calls[c].dir = "owner" =>
                  vault = calls[c].new /\ (file = "key" \/ (file = "state" /\ open.state # "none"))

\* A request that commits belongs to the recorded transition or is left over from one that
\* the directory has passed.
Current(c) == open.state = "recorded" /\ calls[c].new = open.new /\ calls[c].prev = open.prev
Left(c) == /\ calls[c].prev < Len(plc) /\ calls[c].new \in PlcKeys
           /\ open.state # "none" => calls[c].new # open.new

CommitInv ==
    \A c \in Calls :
        /\ calls[c].at \in {"look", "send", "sent", "confirm", "materialize"} =>
             calls[c].new \in Keys /\ (Current(c) \/ Left(c))
        /\ calls[c].at = "materialize" /\ Current(c) => Head1.key = open.new /\ open.prev < Len(plc)

\* So does an operation on its way to the directory.
FlightInv ==
    \A op \in inflight :
        \/ op.prev < Len(plc)
        \/ op.prev = Len(plc) /\ open.state = "recorded" /\ op.prev = open.prev /\ op.key = open.new

IndInv ==
    /\ TypeOK /\ RequestInv /\ RevisionInv /\ SuccessorInv
    /\ KeyInv /\ OpenInv /\ ReviewInv /\ CommitInv /\ FlightInv
    /\ IdentityIsHeld /\ ManagedGrantsFollow
-----------------------------------------------------------------------------
AccountRows == [kind : Directions, key : Keys, generation : 1..MaxGeneration]
OpenRows == [state : {"none", "prepared", "recorded"}, dir : Directions, prev : Nat, old : 0..MaxKey,
             new : 0..MaxKey, from : 0..MaxGeneration, succ : Revised, live : BOOLEAN]
CallRows == [at : {"idle", "prepare", "look", "send", "sent", "confirm", "materialize"},
             dir : Directions, prev : Nat, old : 0..MaxKey, new : 0..MaxKey,
             from : 0..MaxGeneration, succ : Revised]
GrantRows == [status : {"none", "active", "revoked"}, revision : Revisions, signer : 0..MaxKey,
              acked : BOOLEAN]
Entries == [key : Keys, own : BOOLEAN]

\* The types, with the rows named.
LEMMA Rows ==
    TypeOK <=>
    /\ account \in AccountRows
    /\ provider \subseteq Keys /\ vault \in 0..MaxKey /\ fresh \in 1..(MaxKey + 1)
    /\ plc \in Seq(Entries)
    /\ shown \in 1..Len(plc) /\ retained \in 1..Len(plc)
    /\ inflight \subseteq [prev : Nat, key : Keys]
    /\ open \in OpenRows
    /\ calls \in [Calls -> CallRows]
    /\ file \in {"none", "key", "state"}
    /\ grants \in [Grants -> GrantRows]
    /\ signed \in 0..MaxSigned /\ publishing \in BOOLEAN /\ faults \in 0..MaxFaults
BY DEF TypeOK, AccountRows, OpenRows, CallRows, GrantRows, Entries

\* The empty rows.
LEMMA EmptyRows ==
    /\ NoTransition \in OpenRows /\ NoTransition.state = "none"
    /\ Idle \in CallRows /\ Idle.at = "idle"
<1>1. [g \in Grants |-> 0] \in Revised BY CustodyAssumption DEF Revised, Revisions
<1>2. 0 \in 0..MaxKey /\ 0 \in 0..MaxGeneration /\ 0 \in Nat BY CustodyAssumption
<1> QED BY <1>1, <1>2 DEF NoTransition, Idle, OpenRows, CallRows, Directions

\* What the directory's log has when it grows by one.
LEMMA LogGrows ==
    ASSUME NEW log \in Seq(Entries), NEW e \in Entries
    PROVE  /\ Append(log, e) \in Seq(Entries)
           /\ Len(Append(log, e)) = Len(log) + 1
           /\ Append(log, e)[Len(log) + 1] = e
           /\ {Append(log, e)[i].key : i \in 1..Len(Append(log, e))}
                = {log[i].key : i \in 1..Len(log)} \cup {e.key}
<1> DEFINE more == Append(log, e)
<1>1. more \in Seq(Entries) /\ Len(more) = Len(log) + 1 OBVIOUS
<1>2. more[Len(log) + 1] = e /\ \A i \in 1..Len(log) : more[i] = log[i] OBVIOUS
<1>3. Len(log) \in Nat OBVIOUS
<1> HIDE DEF more
<1>4. 1..Len(more) = (1..Len(log)) \cup {Len(log) + 1} BY <1>1, <1>3
<1>5. {more[i].key : i \in 1..Len(more)} = {log[i].key : i \in 1..Len(log)} \cup {e.key}
  BY SMTT(40), <1>2, <1>4
<1> QED BY <1>1, <1>2, <1>5 DEF more

\* The log is never empty, and its keys are keys.
LEMMA LogFacts ==
    ASSUME TypeOK
    PROVE  /\ Len(plc) \in Nat \ {0} /\ Head1 \in Entries /\ Head1.key \in PlcKeys
           /\ \A i \in 1..Len(plc) : plc[i] \in Entries /\ plc[i].key \in PlcKeys
           /\ PlcKeys \subseteq Keys
<1>1. plc \in Seq(Entries) /\ shown \in 1..Len(plc) BY Rows
<1>2. Len(plc) \in Nat \ {0} BY <1>1
<1>3. \A i \in 1..Len(plc) : plc[i] \in Entries BY <1>1
<1>4. \A i \in 1..Len(plc) : plc[i].key \in PlcKeys BY DEF PlcKeys
<1>5. Len(plc) \in 1..Len(plc) BY <1>2
<1>6. PlcKeys \subseteq Keys BY <1>3 DEF PlcKeys, Entries
<1> QED BY <1>2, <1>3, <1>4, <1>5, <1>6 DEF Head1

\* An operation is added to the log.
LEMMA Appended ==
    ASSUME TypeOK, NEW e \in Entries, plc' = Append(plc, e)
    PROVE  /\ plc' \in Seq(Entries) /\ Len(plc') = Len(plc) + 1
           /\ Head1' = e /\ PlcKeys' = PlcKeys \cup {e.key}
<1>1. plc \in Seq(Entries) BY Rows
<1>2. /\ plc' \in Seq(Entries) /\ Len(plc') = Len(plc) + 1 /\ plc'[Len(plc) + 1] = e
      /\ {plc'[i].key : i \in 1..Len(plc')} = {plc[i].key : i \in 1..Len(plc)} \cup {e.key}
  BY <1>1, LogGrows
<1> QED BY <1>2 DEF Head1, PlcKeys

\* A fault is counted.
LEMMA FaultCounted == ASSUME NEW kind, TypeOK, Fault(kind) PROVE faults' \in 0..MaxFaults
BY CustodyAssumption DEF TypeOK, Fault

\* A request's row changes its place, or is cleared.
LEMMA CallsKept ==
    ASSUME TypeOK, NEW c \in Calls
    PROVE  /\ Leave(c) => calls' \in [Calls -> CallRows]
           /\ \A at \in {"idle", "prepare", "look", "send", "sent", "confirm", "materialize"} :
                 Go(c, at) => calls' \in [Calls -> CallRows]
<1>1. calls \in [Calls -> CallRows] BY Rows
<1>2. Leave(c) => calls' \in [Calls -> CallRows] BY <1>1, EmptyRows DEF Leave
<1>3. ASSUME NEW at \in {"idle", "prepare", "look", "send", "sent", "confirm", "materialize"}, Go(c, at)
      PROVE  calls' \in [Calls -> CallRows]
  <2>1. [calls[c] EXCEPT !.at = at] \in CallRows BY <1>1 DEF CallRows
  <2>2. calls' = [calls EXCEPT ![c] = [calls[c] EXCEPT !.at = at]] BY <1>3 DEF Go
  <2> QED BY <1>1, <2>1, <2>2
<1> QED BY <1>2, <1>3

\* Every step keeps the types.
LEMMA TypeStep ==
    ASSUME TypeOK, RequestInv, RevisionInv, OpenInv, CommitInv, [Next]_vars
    PROVE  TypeOK'
<1> DEFINE Typed ==
      /\ account \in AccountRows
      /\ provider \subseteq Keys /\ vault \in 0..MaxKey /\ fresh \in 1..(MaxKey + 1)
      /\ plc \in Seq(Entries)
      /\ shown \in 1..Len(plc) /\ retained \in 1..Len(plc)
      /\ inflight \subseteq [prev : Nat, key : Keys]
      /\ open \in OpenRows
      /\ calls \in [Calls -> CallRows]
      /\ file \in {"none", "key", "state"}
      /\ grants \in [Grants -> GrantRows]
      /\ signed \in 0..MaxSigned /\ publishing \in BOOLEAN /\ faults \in 0..MaxFaults
<1>a. Typed BY Rows
<1>b. Typed' => TypeOK' BY DEF TypeOK, AccountRows, OpenRows, CallRows, GrantRows, Entries
<1> SUFFICES Typed' BY <1>b
<1>c. MaxKey \in Nat /\ MaxGeneration \in Nat /\ MaxSigned \in Nat /\ MaxFaults \in Nat BY CustodyAssumption
<1>d. Len(plc) \in Nat \ {0} /\ Head1 \in Entries BY LogFacts
<1> USE DEF keyVars, plcVars, grantVars
<1>1. CASE ReplaceVault
  <2>1. faults' \in 0..MaxFaults BY <1>1, <1>a, FaultCounted DEF ReplaceVault
  <2>2. vault' \in 0..MaxKey /\ fresh' \in 1..(MaxKey + 1)
    BY <1>1, <1>a, <1>c DEF ReplaceVault, FreshIdentity, Keys
  <2> QED BY <1>1, <1>a, <2>1, <2>2 DEF ReplaceVault
<1>2. CASE SaveState \/ Finish BY <1>2, <1>a DEF SaveState, Finish
<1>3. CASE Expire
  <2>1. faults' \in 0..MaxFaults BY <1>3, FaultCounted DEF Expire
  <2>2. open' = [open EXCEPT !.live = FALSE] BY <1>3 DEF Expire
  <2>3. open' \in OpenRows BY <1>a, <2>2 DEF OpenRows
  <2> QED BY <1>3, <1>a, <2>1, <2>3 DEF Expire
<1>4. CASE OwnOperation
  <2>1. faults' \in 0..MaxFaults BY <1>4, FaultCounted DEF OwnOperation
  <2>2. [key |-> Head1.key, own |-> TRUE] \in Entries BY <1>d DEF Entries
  <2>3. plc' \in Seq(Entries) /\ Len(plc') = Len(plc) + 1 BY <1>4, <2>2, Appended DEF OwnOperation
  <2>4. shown' \in 1..Len(plc') /\ retained' \in 1..Len(plc') BY <1>4, <1>a, <1>d, <2>3 DEF OwnOperation
  <2> QED BY <1>4, <1>a, <2>1, <2>3, <2>4 DEF OwnOperation
<1>5. CASE Mirror \/ FailOver
  <2>1. faults' \in 0..MaxFaults BY <1>5, <1>a, FaultCounted DEF Mirror, FailOver
  <2>2. shown' \in 1..Len(plc) BY <1>5, <1>a, <1>d DEF Mirror, FailOver
  <2> QED BY <1>5, <1>a, <2>1, <2>2 DEF Mirror, FailOver
<1>6. CASE Store
  <2>1. request \in RequestRows BY <1>6 DEF Store, RequestInv
  <2>2. /\ request.grant \in Grants
        /\ [status |-> request.status, revision |-> request.revision, signer |-> request.key,
            acked |-> FALSE] \in GrantRows
    BY <2>1, <1>c DEF RequestRows, GrantRows, Keys
  <2>3. grants' \in [Grants -> GrantRows] BY <1>6, <1>a, <2>2 DEF Store
  <2> QED BY <1>6, <1>a, <2>3 DEF Store
<1>7. ASSUME NEW op \in inflight, Land(op) PROVE Typed'
  <2>1. op.key \in Keys BY <1>a
  <2>2. [key |-> op.key, own |-> FALSE] \in Entries BY <2>1 DEF Entries
  <2>3. \/ plc' = plc
        \/ plc' \in Seq(Entries) /\ Len(plc') = Len(plc) + 1
    BY <1>7, <2>2, Appended DEF Land
  <2>4. plc' \in Seq(Entries) BY <1>a, <2>3
  <2>5. shown' \in 1..Len(plc') /\ retained' \in 1..Len(plc') BY <1>7, <1>a, <1>d, <2>3 DEF Land
  <2>6. inflight' \subseteq [prev : Nat, key : Keys] BY <1>7, <1>a DEF Land
  <2> QED BY <1>7, <1>a, <2>4, <2>5, <2>6 DEF Land
<1>8. ASSUME NEW c \in Calls, NEW dir \in Directions, NEW key \in 0..MaxKey, NEW succ \in Revised,
             Reads(c, dir, key, succ)
      PROVE  calls' \in [Calls -> CallRows] /\ retained' \in 1..Len(plc)
  <2> DEFINE row == [at |-> "prepare", dir |-> dir, prev |-> shown, old |-> account.key, new |-> key,
                     from |-> account.generation, succ |-> succ]
  <2>1. shown \in Nat /\ account.key \in 0..MaxKey /\ account.generation \in 0..MaxGeneration
    BY <1>a, <1>c DEF AccountRows, Keys
  <2>2. row \in CallRows BY <2>1 DEF CallRows
  <2>3. calls' = [calls EXCEPT ![c] = row] BY <1>8 DEF Reads
  <2> HIDE DEF row
  <2>4. calls' \in [Calls -> CallRows] BY <1>a, <2>2, <2>3
  <2> QED BY <1>8, <1>a, <2>4 DEF Reads, Retain
<1>9. Predecessors \in Revised /\ [g \in Grants |-> 0] \in Revised
  <2>1. 0 \in Revisions BY <1>c DEF Revisions
  <2>2. \A g \in Grants : grants[g].revision \in Revisions BY <1>a DEF GrantRows
  <2> QED BY <2>1, <2>2 DEF Predecessors, Revised
<1>10. ASSUME NEW c \in Calls, ReviewOwner(c) PROVE Typed'
  <2>1. calls' \in [Calls -> CallRows] /\ retained' \in 1..Len(plc)
    BY <1>8, <1>9, <1>10, <1>a DEF ReviewOwner, Directions
  <2> QED BY <1>10, <1>a, <2>1 DEF ReviewOwner
<1>11. ASSUME NEW c \in Calls, ReviewManaged(c) PROVE Typed'
  <2>1. fresh \in Keys /\ fresh \in 0..MaxKey BY <1>11 DEF ReviewManaged, Keys
  <2>2. calls' \in [Calls -> CallRows] /\ retained' \in 1..Len(plc)
    BY <1>8, <1>9, <1>11, <2>1 DEF ReviewManaged, Directions
  <2>3. fresh' \in 1..(MaxKey + 1) BY <1>11, <1>c, <2>1 DEF ReviewManaged, Keys
  <2> QED BY <1>11, <1>a, <2>2, <2>3 DEF ReviewManaged
<1>12. ASSUME NEW c \in Calls, Prepare(c) PROVE Typed'
  <2>1. calls' \in [Calls -> CallRows] BY <1>12, CallsKept DEF Prepare
  <2> DEFINE row == [state |-> "prepared", dir |-> calls[c].dir, prev |-> calls[c].prev,
                     old |-> calls[c].old, new |-> calls[c].new, from |-> calls[c].from,
                     succ |-> Succeeded(c), live |-> TRUE]
  <2>2. calls[c] \in CallRows BY <1>a
  <2>3. Succeeded(c) \in Revised BY <1>9, <2>2 DEF Succeeded, CallRows
  <2>4. row \in OpenRows BY <2>2, <2>3 DEF CallRows, OpenRows
  <2>5. open' = row \/ open' = open BY <1>12 DEF Prepare
  <2> HIDE DEF row
  <2>6. open' \in OpenRows BY <1>a, <2>4, <2>5
  <2> QED BY <1>12, <1>a, <2>1, <2>6 DEF Prepare
<1>13. ASSUME NEW c \in Calls, Record(c) PROVE Typed'
  <2>1. open' = [open EXCEPT !.state = "recorded"] BY <1>13 DEF Record
  <2>2. open' \in OpenRows BY <1>a, <2>1 DEF OpenRows
  <2> DEFINE row == [at |-> "look", dir |-> open.dir, prev |-> open.prev, old |-> open.old,
                     new |-> open.new, from |-> open.from, succ |-> open.succ]
  <2>3. row \in CallRows BY <1>a DEF OpenRows, CallRows
  <2>4. calls' = [calls EXCEPT ![c] = row] BY <1>13 DEF Record
  <2> HIDE DEF row
  <2>5. calls' \in [Calls -> CallRows] BY <1>a, <2>3, <2>4
  <2> QED BY <1>13, <1>a, <2>2, <2>5 DEF Record
<1>14. ASSUME NEW c \in Calls, Look(c) PROVE Typed'
  <2>1. calls' \in [Calls -> CallRows] BY <1>14, CallsKept DEF Look
  <2> QED BY <1>14, <1>a, <2>1 DEF Look
<1>15. ASSUME NEW c \in Calls, Send(c) PROVE Typed'
  <2>1. calls' \in [Calls -> CallRows] BY <1>15, CallsKept DEF Send
  <2>2. calls[c].prev \in Nat /\ calls[c].new \in Keys BY <1>15, <1>a DEF Send, CommitInv, CallRows
  <2>3. inflight' \subseteq [prev : Nat, key : Keys] BY <1>15, <1>a, <2>2 DEF Send
  <2> QED BY <1>15, <1>a, <2>1, <2>3 DEF Send
<1>16. ASSUME NEW c \in Calls, Sent(c) PROVE Typed'
  <2>1. calls' \in [Calls -> CallRows] BY <1>16, CallsKept DEF Sent
  <2>2. faults' \in 0..MaxFaults BY <1>16, <1>a, FaultCounted DEF Sent
  <2> QED BY <1>16, <1>a, <2>1, <2>2 DEF Sent
<1>17. ASSUME NEW c \in Calls, Confirm(c) PROVE Typed'
  <2>1. calls' \in [Calls -> CallRows] BY <1>17, CallsKept DEF Confirm
  <2>2. retained' \in 1..Len(plc) BY <1>17, <1>a DEF Confirm, Retain
  <2> QED BY <1>17, <1>a, <2>1, <2>2 DEF Confirm
<1>18. ASSUME NEW c \in Calls, Materialize(c) PROVE Typed'
  <2>1. calls' \in [Calls -> CallRows] BY <1>18, CallsKept DEF Materialize
  <2>2. CASE UNCHANGED <<account, provider, grants, open>>
    BY <1>18, <1>a, <2>1, <2>2 DEF Materialize
  <2>3. CASE Materializes(c)
    <3>1. /\ open.new \in Keys /\ open.dir \in Directions /\ account.generation < MaxGeneration
          /\ account.generation \in 1..MaxGeneration
      BY <1>a, <2>3 DEF OpenInv, OpenRows, Materializes, AccountRows
    <3>2. account' = [kind |-> open.dir, key |-> open.new, generation |-> account.generation + 1]
      BY <1>18, <2>3 DEF Materialize
    <3>3. account.generation + 1 \in 1..MaxGeneration BY <1>c, <3>1
    <3>4. account' \in AccountRows BY <3>1, <3>2, <3>3 DEF AccountRows
    <3>5. provider' \subseteq Keys BY <1>18, <1>a, <2>3, <3>1 DEF Materialize
    <3>6. ASSUME NEW g \in Grants
          PROVE  [grants[g] EXCEPT !.revision = @ + 1, !.signer = open.new, !.acked = FALSE] \in GrantRows
      <4>1. grants[g] \in GrantRows /\ signed \in 0..MaxSigned BY <1>a
      <4>2. grants[g].revision \in Revisions BY <4>1 DEF GrantRows
      <4>3. grants[g].revision <= signed + account.generation BY DEF RevisionInv
      <4>4. grants[g].revision + 1 \in Revisions BY <1>c, <3>1, <4>1, <4>2, <4>3 DEF Revisions
      <4>5. open.new \in 0..MaxKey BY <3>1 DEF Keys
      <4> QED BY <4>1, <4>4, <4>5 DEF GrantRows
    <3>7. grants' = [g \in Grants |-> IF open.succ[g] = 0 THEN grants[g]
                        ELSE [grants[g] EXCEPT !.revision = @ + 1, !.signer = open.new, !.acked = FALSE]]
      BY <1>18, <2>3 DEF Materialize
    <3>8. grants' \in [Grants -> GrantRows] BY <1>a, <3>6, <3>7
    <3>9. open' \in OpenRows BY <1>18, <2>3, EmptyRows DEF Materialize
    <3> QED BY <1>18, <1>a, <2>1, <3>4, <3>5, <3>8, <3>9 DEF Materialize
  <2> QED BY <1>18, <2>2, <2>3 DEF Materialize
<1>19. ASSUME NEW g \in Grants, NEW status \in {"active", "revoked"}, Signs(g, status) PROVE Typed'
  <2>1. signed' \in 0..MaxSigned BY <1>19, <1>a, <1>c DEF Signs
  <2> QED BY <1>19, <1>a, <2>1 DEF Signs
<1>20. ASSUME NEW g \in Grants, Acknowledge(g) PROVE Typed'
  <2>1. grants[g] \in GrantRows BY <1>a
  <2>2. [grants[g] EXCEPT !.acked = TRUE] \in GrantRows BY <2>1 DEF GrantRows
  <2>3. grants' = [grants EXCEPT ![g] = [grants[g] EXCEPT !.acked = TRUE]] BY <1>20 DEF Acknowledge
  <2>4. grants' \in [Grants -> GrantRows] BY <1>a, <2>2, <2>3
  <2> QED BY <1>20, <1>a, <2>4 DEF Acknowledge
<1>21. CASE UNCHANGED vars BY <1>21, <1>a DEF vars
<1>22. ASSUME NEW c \in Calls, Abandon(c) PROVE Typed'
  <2>1. calls' \in [Calls -> CallRows] /\ faults' \in 0..MaxFaults
    BY <1>22, CallsKept, FaultCounted DEF Abandon
  <2> QED BY <1>22, <1>a, <2>1 DEF Abandon
<1>23. CASE Publish \/ EndPublication BY <1>23, <1>a DEF Publish, EndPublication
<1> HIDE DEF Typed
<1> QED BY <1>1, <1>2, <1>3, <1>4, <1>5, <1>6, <1>7, <1>10, <1>11, <1>12, <1>13, <1>14, <1>15, <1>16, <1>17,
           <1>18, <1>19, <1>20, <1>21, <1>22, <1>23 DEF Next, Serve, Issue, Change

\* Every step keeps what is known of the account's Grants.
LEMMA GrantStep ==
    ASSUME TypeOK, RequestInv, RevisionInv, SuccessorInv, OpenInv, ManagedGrantsFollow, [Next]_vars
    PROVE  RequestInv' /\ RevisionInv' /\ SuccessorInv' /\ ManagedGrantsFollow'
<1> DEFINE Kept == RequestInv /\ RevisionInv /\ SuccessorInv /\ ManagedGrantsFollow
<1> SUFFICES Kept' OBVIOUS
<1>a. /\ account \in AccountRows /\ open \in OpenRows /\ calls \in [Calls -> CallRows]
      /\ grants \in [Grants -> GrantRows] /\ signed \in 0..MaxSigned
  BY Rows
<1>b. MaxKey \in Nat /\ MaxGeneration \in Nat /\ MaxSigned \in Nat BY CustodyAssumption
<1>c. /\ account.generation \in 1..MaxGeneration /\ account.key \in Keys /\ signed \in Nat
      /\ account.generation \in Nat
  BY <1>a, <1>b DEF AccountRows
<1>d. \A g \in Grants : grants[g].revision \in Nat /\ grants[g].revision \in Revisions
  BY <1>a, <1>b DEF GrantRows, Revisions
<1> USE DEF keyVars, plcVars, grantVars
<1>1. ASSUME UNCHANGED <<account, grants, request, signed>>,
             \/ open' = open
             \/ /\ open.state # "none" /\ open'.dir = open.dir /\ open'.succ = open.succ
      PROVE  Kept'
  <2>1. RequestInv' /\ RevisionInv' BY <1>1 DEF RequestInv, RevisionInv
  <2>2. Active' = Active BY <1>1 DEF Active
  <2>3. SuccessorInv' BY <1>1, <2>2 DEF SuccessorInv
  <2>4. ManagedGrantsFollow' BY <1>1, <2>2 DEF ManagedGrantsFollow
  <2> QED BY <2>1, <2>3, <2>4
<1>2. CASE ReplaceVault \/ SaveState \/ Finish \/ OwnOperation \/ Mirror \/ FailOver \/ Publish \/ EndPublication
  BY <1>1, <1>2 DEF ReplaceVault, SaveState, Finish, OwnOperation, Mirror, FailOver, Publish, EndPublication
<1>3. CASE Expire
  <2>1. open' = [open EXCEPT !.live = FALSE] /\ open.live BY <1>3 DEF Expire
  <2>2. open'.dir = open.dir /\ open'.succ = open.succ /\ open'.state = open.state
    BY <1>a, <2>1 DEF OpenRows
  <2>3. CASE open.state # "none" BY <1>1, <1>3, <2>2, <2>3 DEF Expire
  <2>4. CASE open.state = "none"
    <3>1. RequestInv' /\ RevisionInv' BY <1>3 DEF Expire, RequestInv, RevisionInv
    <3>2. SuccessorInv' BY <2>2, <2>4 DEF SuccessorInv
    <3>3. ManagedGrantsFollow' BY <1>3 DEF Expire, ManagedGrantsFollow, Active
    <3> QED BY <3>1, <3>2, <3>3
  <2> QED BY <2>3, <2>4
<1>4. ASSUME NEW op \in inflight, Land(op) PROVE Kept' BY <1>1, <1>4 DEF Land
<1>5. ASSUME NEW c \in Calls,
             ReviewOwner(c) \/ ReviewManaged(c) \/ Look(c) \/ Send(c) \/ Sent(c) \/ Confirm(c) \/ Abandon(c)
      PROVE  Kept'
  BY <1>1, <1>5 DEF ReviewOwner, ReviewManaged, Look, Send, Sent, Confirm, Abandon
<1>6. ASSUME NEW c \in Calls, Record(c) PROVE Kept'
  <2>1. open' = [open EXCEPT !.state = "recorded"] /\ open.state # "none" BY <1>6 DEF Record
  <2>2. open'.dir = open.dir /\ open'.succ = open.succ BY <1>a, <2>1 DEF OpenRows
  <2> QED BY <1>1, <1>6, <2>1, <2>2 DEF Record
<1>7. ASSUME NEW c \in Calls, Prepare(c) PROVE Kept'
  <2>1. UNCHANGED <<account, grants, request, signed>> BY <1>7 DEF Prepare
  <2>2. CASE open' = open BY <1>1, <2>1, <2>2
  <2>3. CASE open' # open
    <3>1. /\ open' = [state |-> "prepared", dir |-> calls[c].dir, prev |-> calls[c].prev,
                      old |-> calls[c].old, new |-> calls[c].new, from |-> calls[c].from,
                      succ |-> Succeeded(c), live |-> TRUE]
      BY <1>7, <2>3 DEF Prepare
    <3>2. open'.dir = calls[c].dir /\ open'.succ = Succeeded(c) BY <3>1
    <3>3. Active' = Active /\ Active \subseteq Grants BY <2>1 DEF Active
    <3>4. \A g \in Active : Predecessors[g] # 0
      BY <3>3 DEF Predecessors, RevisionInv, Active
    <3>5. SuccessorInv' BY <3>2, <3>3, <3>4 DEF SuccessorInv, Succeeded
    <3>6. RequestInv' /\ RevisionInv' BY <2>1 DEF RequestInv, RevisionInv
    <3>7. ManagedGrantsFollow' BY <2>1, <3>3 DEF ManagedGrantsFollow
    <3> QED BY <3>5, <3>6, <3>7
  <2> QED BY <2>2, <2>3
<1>8. ASSUME NEW c \in Calls, Materialize(c) PROVE Kept'
  <2>1. request' = request /\ signed' = signed BY <1>8 DEF Materialize
  <2>2. CASE UNCHANGED <<account, provider, grants, open>> BY <1>1, <2>1, <2>2
  <2>3. CASE Materializes(c)
    <3>1. /\ account' = [kind |-> open.dir, key |-> open.new, generation |-> account.generation + 1]
          /\ grants' = [g \in Grants |-> IF open.succ[g] = 0 THEN grants[g]
                           ELSE [grants[g] EXCEPT !.revision = @ + 1, !.signer = open.new, !.acked = FALSE]]
          /\ open' = NoTransition
      BY <1>8, <2>3 DEF Materialize
    <3>2. /\ account'.generation = account.generation + 1 /\ account'.kind = open.dir
          /\ account'.key = open.new
      BY <3>1
    <3>3. RequestInv'
      <4>1. ASSUME request # None PROVE request.generation \in Nat /\ request.generation <= account.generation
        BY <1>b, <4>1 DEF RequestInv, RequestRows
      <4> QED BY <1>c, <2>1, <3>2, <4>1 DEF RequestInv
    <3>4. \A g \in Grants :
            /\ grants'[g].status = grants[g].status
            /\ grants'[g].revision = grants[g].revision \/ grants'[g].revision = grants[g].revision + 1
            /\ open.succ[g] # 0 => grants'[g].signer = open.new
      BY <1>a, <3>1 DEF GrantRows
    <3>5. RevisionInv'
      <4> SUFFICES ASSUME NEW g \in Grants
                   PROVE  /\ grants'[g].revision <= signed' + account'.generation
                          /\ request' # None => grants'[g].revision + 1 <= signed' + account'.generation
                          /\ grants'[g].status = "active" => grants'[g].revision # 0
        BY DEF RevisionInv
      <4> QED BY <1>c, <1>d, <2>1, <3>2, <3>4 DEF RevisionInv
    <3>6. SuccessorInv' BY <3>1, EmptyRows DEF SuccessorInv
    <3>7. ManagedGrantsFollow'
      <4> SUFFICES ASSUME open.dir = "managed", NEW g \in Grants, grants'[g].status = "active"
                   PROVE  grants'[g].signer = open.new
        BY <3>2 DEF ManagedGrantsFollow, Active
      <4>1. g \in Active /\ open.state = "recorded" BY <2>3, <3>4 DEF Active, Materializes
      <4> QED BY <3>4, <4>1 DEF SuccessorInv
    <3> QED BY <3>3, <3>5, <3>6, <3>7
  <2> QED BY <1>8, <2>2, <2>3 DEF Materialize
<1>9. ASSUME NEW g \in Grants, NEW status \in {"active", "revoked"}, Signs(g, status) PROVE Kept'
  <2>1. /\ request' = [grant |-> g, status |-> status, revision |-> grants[g].revision + 1,
                       key |-> account.key, generation |-> account.generation]
        /\ request = None /\ signed < MaxSigned /\ signed' = signed + 1
        /\ UNCHANGED <<account, open, grants>>
    BY <1>9 DEF Signs
  <2>2. \A h \in Grants : grants[h].revision <= signed + account.generation BY DEF RevisionInv
  <2>3. grants[g].revision + 1 \in Revisions BY <1>b, <1>c, <1>d, <2>1, <2>2 DEF Revisions
  <2>4. request' \in RequestRows BY <1>c, <2>1, <2>3 DEF RequestRows
  <2>5. request'.generation = account.generation /\ request'.key = account.key BY <2>1
  <2>6. RequestInv' BY <1>c, <2>1, <2>4, <2>5 DEF RequestInv
  <2>7. RevisionInv' BY <1>c, <1>d, <2>1 DEF RevisionInv
  <2>8. SuccessorInv' BY <2>1 DEF SuccessorInv, Active
  <2>9. ManagedGrantsFollow' BY <2>1 DEF ManagedGrantsFollow, Active
  <2> QED BY <2>6, <2>7, <2>8, <2>9
<1>10. CASE Store
  <2>1. /\ request # None /\ request' = None /\ UNCHANGED <<account, open, signed>> BY <1>10 DEF Store
  <2>2. RequestInv' BY <2>1 DEF RequestInv
  <2>3. CASE grants' = grants
    <3>1. RevisionInv' BY <2>1, <2>3 DEF RevisionInv
    <3> QED BY <2>1, <2>2, <2>3, <3>1 DEF SuccessorInv, ManagedGrantsFollow, Active
  <2>4. CASE grants' # grants
    <3> DEFINE h == request.grant
    <3>1. /\ Writable(request.generation) /\ grants[h].revision + 1 = request.revision
          /\ grants' = [grants EXCEPT ![h] = [status |-> request.status, revision |-> request.revision,
                                              signer |-> request.key, acked |-> FALSE]]
      BY <1>10, <2>4 DEF Store
    <3>2. h \in Grants /\ request.key = account.key /\ open.state = "none"
      BY <2>1, <3>1 DEF RequestInv, RequestRows, Writable
    <3>3. /\ grants'[h].revision = grants[h].revision + 1 /\ grants'[h].signer = account.key
          /\ \A g \in Grants : g # h => grants'[g] = grants[g]
      BY <1>a, <3>1, <3>2
    <3>4. RevisionInv' BY <1>c, <1>d, <2>1, <3>2, <3>3 DEF RevisionInv
    <3>5. SuccessorInv' BY <2>1, <3>2 DEF SuccessorInv
    <3>6. ManagedGrantsFollow' BY <2>1, <3>2, <3>3 DEF ManagedGrantsFollow, Active
    <3> QED BY <2>2, <3>4, <3>5, <3>6
  <2> QED BY <2>3, <2>4
<1>11. ASSUME NEW g \in Grants, Acknowledge(g) PROVE Kept'
  <2>1. /\ grants' = [grants EXCEPT ![g] = [grants[g] EXCEPT !.acked = TRUE]]
        /\ open.state = "none" /\ UNCHANGED <<account, open, request, signed>>
    BY <1>11 DEF Acknowledge, Writable
  <2>2. \A h \in Grants : /\ grants'[h].status = grants[h].status
                          /\ grants'[h].revision = grants[h].revision
                          /\ grants'[h].signer = grants[h].signer
    BY <1>a, <2>1 DEF GrantRows
  <2>3. RequestInv' BY <2>1 DEF RequestInv
  <2>4. RevisionInv' BY <2>1, <2>2 DEF RevisionInv
  <2>5. SuccessorInv' BY <2>1 DEF SuccessorInv
  <2>6. ManagedGrantsFollow' BY <2>1, <2>2 DEF ManagedGrantsFollow, Active
  <2> QED BY <2>3, <2>4, <2>5, <2>6
<1>12. CASE UNCHANGED vars BY <1>1, <1>12 DEF vars
<1> HIDE DEF Kept
<1> QED BY <1>2, <1>3, <1>4, <1>5, <1>6, <1>7, <1>8, <1>9, <1>10, <1>11, <1>12 DEF Next, Serve, Issue, Change

\* What the proofs of the steps below keep: the keys, the transition, the requests that
\* serve it and its operations.
KeptInv == KeyInv /\ OpenInv /\ ReviewInv /\ CommitInv /\ FlightInv /\ IdentityIsHeld

\* A step that touches nothing of it keeps it.
LEMMA QuietKept ==
    ASSUME KeptInv, UNCHANGED <<account, provider, vault, fresh, plc, inflight, open, calls, file>>
    PROVE  KeptInv'
<1>1. PlcKeys' = PlcKeys /\ Head1' = Head1 BY DEF PlcKeys, Head1
<1>2. KeyInv' BY <1>1 DEF KeptInv, KeyInv
<1>3. OpenInv' BY <1>1 DEF KeptInv, OpenInv
<1>4. ReviewInv' BY <1>1 DEF KeptInv, ReviewInv
<1>5. CommitInv' BY <1>1 DEF KeptInv, CommitInv, Current, Left
<1>6. FlightInv' BY DEF KeptInv, FlightInv
<1>7. IdentityIsHeld' BY <1>1 DEF KeptInv, IdentityIsHeld
<1> QED BY <1>2, <1>3, <1>4, <1>5, <1>6, <1>7 DEF KeptInv

\* The command line's steps: a new key for the vault, the state file, the end of it.
LEMMA OwnerKept ==
    ASSUME TypeOK, KeptInv, ReplaceVault \/ SaveState \/ Finish
    PROVE  KeptInv'
<1> USE DEF KeptInv, keyVars, plcVars, grantVars
<1>a. /\ UNCHANGED <<account, provider, plc, inflight, open, calls>>
      /\ fresh \in Nat /\ PlcKeys \subseteq Nat /\ MaxKey \in Nat
  BY SMTT(40), LogFacts, Rows, CustodyAssumption DEF ReplaceVault, SaveState, Finish, Keys
<1>b. PlcKeys' = PlcKeys /\ Head1' = Head1 BY <1>a DEF PlcKeys, Head1
<1>c. /\ CommitInv' BY <1>a, <1>b DEF CommitInv, Current, Left
<1>d. FlightInv' BY <1>a DEF FlightInv
<1>1. CASE ReplaceVault
  <2>1. /\ account.kind = "managed" /\ file = "none" /\ fresh \in Keys /\ vault' = fresh
        /\ fresh' = fresh + 1 /\ file' \in {"key", "none"}
    BY <1>1 DEF ReplaceVault, Replaceable, FreshIdentity
  <2>2. open.state = "none"
    <3>1. open.dir \in {"managed", "owner"} BY Rows DEF OpenRows, Directions
    <3> QED BY <2>1, <3>1 DEF OpenInv
  <2>3. KeyInv'
    <3>1. \A k \in PlcKeys : k < fresh /\ k \in Nat BY <1>a DEF KeyInv
    <3>2. fresh \notin PlcKeys BY <1>a, <3>1
    <3>3. \A k \in PlcKeys : k < fresh + 1 BY <1>a, <3>1
    <3> QED BY <1>a, <1>b, <2>1, <3>2, <3>3 DEF KeyInv
  <2>4. OpenInv' BY <1>a, <2>2 DEF OpenInv
  <2>5. ReviewInv'
    <3>1. \A c \in Calls : calls[c].new \in Nat BY <1>a, Rows DEF CallRows
    <3> QED BY <1>a, <1>b, <2>1, <3>1 DEF ReviewInv
  <2>6. IdentityIsHeld' BY <1>a, <1>b, <2>1, <2>2 DEF IdentityIsHeld
  <2> QED BY <1>c, <1>d, <2>3, <2>4, <2>5, <2>6
<1>2. CASE SaveState
  <2>1. open.state = "prepared" /\ file' = "state" /\ UNCHANGED <<vault, fresh>> BY <1>2 DEF SaveState
  <2>2. KeyInv' BY <1>a, <1>b, <2>1 DEF KeyInv
  <2>3. OpenInv' BY <1>a, <1>b, <2>1 DEF OpenInv
  <2>4. ReviewInv' BY <1>a, <1>b, <2>1 DEF ReviewInv
  <2>5. IdentityIsHeld' BY <1>a, <1>b, <2>1 DEF IdentityIsHeld
  <2> QED BY <1>c, <1>d, <2>2, <2>3, <2>4, <2>5
<1>3. CASE Finish
  <2>1. open.state = "none" /\ file = "state" /\ file' = "none" /\ UNCHANGED <<vault, fresh>>
    BY <1>3 DEF Finish
  <2>2. KeyInv' BY <1>a, <1>b, <2>1 DEF KeyInv
  <2>3. OpenInv' BY <1>a, <1>b, <2>1 DEF OpenInv
  <2>4. ReviewInv' BY <1>a, <1>b, <2>1 DEF ReviewInv
  <2>5. IdentityIsHeld' BY <1>a, <1>b, <2>1 DEF IdentityIsHeld
  <2> QED BY <1>c, <1>d, <2>2, <2>3, <2>4, <2>5
<1> QED BY <1>1, <1>2, <1>3

\* The hour of a preparation passes.
LEMMA ExpireKept ==
    ASSUME TypeOK, KeptInv, Expire
    PROVE  KeptInv'
<1> USE DEF KeptInv, keyVars, plcVars, grantVars
<1>1. open' = [open EXCEPT !.live = FALSE]
      /\ UNCHANGED <<account, provider, vault, fresh, plc, inflight, calls, file>>
  BY DEF Expire
<1>2. /\ open'.state = open.state /\ open'.dir = open.dir /\ open'.prev = open.prev
      /\ open'.old = open.old /\ open'.new = open.new /\ open'.from = open.from
  BY <1>1, Rows DEF OpenRows
<1>3. PlcKeys' = PlcKeys /\ Head1' = Head1 BY <1>1 DEF PlcKeys, Head1
<1>4. KeyInv' BY <1>1, <1>2, <1>3 DEF KeyInv
<1>5. OpenInv' BY <1>1, <1>2, <1>3 DEF OpenInv
<1>6. ReviewInv' BY <1>1, <1>2, <1>3 DEF ReviewInv
<1>7. CommitInv' BY <1>1, <1>2, <1>3 DEF CommitInv, Current, Left
<1>8. FlightInv' BY <1>1, <1>2 DEF FlightInv
<1>9. IdentityIsHeld' BY <1>1, <1>2, <1>3 DEF IdentityIsHeld
<1> QED BY <1>4, <1>5, <1>6, <1>7, <1>8, <1>9

\* The directory's log grows by an operation of the owner's or by the recorded one.
LEMMA DirectoryKept ==
    ASSUME TypeOK, KeptInv, OwnOperation \/ \E op \in inflight : Land(op)
    PROVE  KeptInv'
<1> USE DEF KeptInv, keyVars, plcVars, grantVars
<1>a. UNCHANGED <<account, provider, vault, fresh, open, calls, file>> BY DEF OwnOperation, Land
<1>b. /\ Len(plc) \in Nat /\ Head1 \in Entries /\ Head1.key \in PlcKeys
      /\ \A c \in Calls : calls[c].prev \in Nat
      /\ open.prev \in Nat
  BY LogFacts, Rows DEF OpenRows, CallRows
<1>c. \A op \in inflight : op.prev \in Nat /\ op.key \in Keys BY Rows
<1>d. inflight' \subseteq inflight BY DEF OwnOperation, Land
<1>1. CASE plc' = plc
  <2>1. PlcKeys' = PlcKeys /\ Head1' = Head1 BY <1>1 DEF PlcKeys, Head1
  <2>2. KeyInv' BY <1>1, <1>a, <2>1 DEF KeyInv
  <2>3. OpenInv' BY <1>1, <1>a, <2>1 DEF OpenInv
  <2>4. ReviewInv' BY <1>1, <1>a, <2>1 DEF ReviewInv
  <2>5. CommitInv' BY <1>1, <1>a, <2>1 DEF CommitInv, Current, Left
  <2>6. FlightInv' BY <1>1, <1>a, <1>d DEF FlightInv
  <2>7. IdentityIsHeld' BY <1>1, <1>a, <2>1 DEF IdentityIsHeld
  <2> QED BY <2>2, <2>3, <2>4, <2>5, <2>6, <2>7
<1>2. ASSUME NEW k \in Keys, Len(plc') = Len(plc) + 1, Head1'.key = k, PlcKeys' = PlcKeys \cup {k},
             \/ k = Head1.key
             \/ open.state = "recorded" /\ k = open.new
      PROVE  KeptInv'
  <2>1. KeyInv' BY <1>2, <1>a, <1>b DEF KeyInv, OpenInv
  <2>2. OpenInv' BY <1>2, <1>a, <1>b DEF OpenInv
  <2>3. ReviewInv'
    <3>1. open.state = "none" => PlcKeys' = PlcKeys BY <1>2, <1>b
    <3> QED BY <1>2, <1>a, <1>b, <3>1 DEF ReviewInv
  <2>4. CommitInv' BY <1>2, <1>a, <1>b DEF CommitInv, Current, Left
  <2>5. FlightInv' BY <1>2, <1>b, <1>c, <1>d DEF FlightInv
  <2>6. IdentityIsHeld' BY <1>2, <1>a DEF IdentityIsHeld
  <2> QED BY <2>1, <2>2, <2>3, <2>4, <2>5, <2>6
<1>3. CASE OwnOperation
  <2> DEFINE e == [key |-> Head1.key, own |-> TRUE]
  <2>1. e \in Entries /\ e.key = Head1.key /\ e.key \in Keys BY <1>b DEF Entries
  <2>2. plc' = Append(plc, e) BY <1>3 DEF OwnOperation
  <2> HIDE DEF e
  <2>3. Len(plc') = Len(plc) + 1 /\ Head1' = e /\ PlcKeys' = PlcKeys \cup {e.key} BY <2>1, <2>2, Appended
  <2> QED BY <1>2, <2>1, <2>3
<1>4. ASSUME NEW op \in inflight, Land(op), plc' # plc PROVE KeptInv'
  <2> DEFINE e == [key |-> op.key, own |-> FALSE]
  <2>1. e \in Entries /\ e.key = op.key /\ e.key \in Keys BY <1>c DEF Entries
  <2>2. plc' = Append(plc, e) /\ op.prev = Len(plc) BY <1>4 DEF Land
  <2>3. open.state = "recorded" /\ op.key = open.new BY <1>b, <1>c, <2>2 DEF FlightInv
  <2> HIDE DEF e
  <2>4. Len(plc') = Len(plc) + 1 /\ Head1' = e /\ PlcKeys' = PlcKeys \cup {e.key} BY <2>1, <2>2, Appended
  <2> QED BY <1>2, <2>1, <2>3, <2>4
<1> HIDE DEF KeptInv
<1> QED BY <1>1, <1>3, <1>4

\* A request leaves, or goes on to another place of its commit.
LEMMA CallMoves ==
    ASSUME TypeOK, KeptInv, NEW c \in Calls,
           UNCHANGED <<account, provider, vault, fresh, plc, open, file>>,
           calls' \in [Calls -> CallRows],
           \A x \in Calls \ {c} : calls'[x] = calls[x],
           calls'[c].at # "prepare",
           calls'[c].at = "idle"
             \/ (/\ calls[c].at \in {"look", "send", "sent", "confirm", "materialize"}
                 /\ calls'[c].new = calls[c].new /\ calls'[c].prev = calls[c].prev),
           calls'[c].at = "materialize" /\ Current(c) => Head1.key = open.new /\ open.prev < Len(plc),
           FlightInv'
    PROVE  KeptInv'
<1> USE DEF KeptInv
<1>1. PlcKeys' = PlcKeys /\ Head1' = Head1 BY DEF PlcKeys, Head1
<1>2. KeyInv' BY <1>1 DEF KeyInv
<1>3. OpenInv' BY <1>1 DEF OpenInv
<1>4. ReviewInv' BY <1>1 DEF ReviewInv
<1>5. CommitInv'
  <2> SUFFICES ASSUME NEW x \in Calls
               PROVE  /\ calls'[x].at \in {"look", "send", "sent", "confirm", "materialize"} =>
                            calls'[x].new \in Keys /\ (Current(x)' \/ Left(x)')
                      /\ calls'[x].at = "materialize" /\ Current(x)' =>
                            Head1'.key = open'.new /\ open'.prev < Len(plc')
    BY DEF CommitInv
  <2>1. CASE x # c BY <1>1, <2>1 DEF CommitInv, Current, Left
  <2>2. CASE x = c BY <1>1, <2>2 DEF CommitInv, Current, Left
  <2> QED BY <2>1, <2>2
<1>6. IdentityIsHeld' BY <1>1 DEF IdentityIsHeld
<1> QED BY <1>2, <1>3, <1>4, <1>5, <1>6

\* A request ends where it is.
LEMMA AbandonKept ==
    ASSUME TypeOK, KeptInv, NEW c \in Calls, Abandon(c)
    PROVE  KeptInv'
<1> USE DEF keyVars, plcVars, grantVars
<1>1. UNCHANGED <<account, provider, vault, fresh, plc, inflight, open, file>> /\ Leave(c) BY DEF Abandon
<1>2. calls \in [Calls -> CallRows] /\ calls' \in [Calls -> CallRows] BY <1>1, Rows, CallsKept
<1>3. (\A x \in Calls \ {c} : calls'[x] = calls[x]) /\ calls'[c].at = "idle"
  BY <1>1, <1>2, EmptyRows DEF Leave
<1>4. FlightInv' BY <1>1 DEF KeptInv, FlightInv
<1> QED BY <1>1, <1>2, <1>3, <1>4, CallMoves

\* The steps of a commit before it is materialized.
LEMMA CommitKept ==
    ASSUME TypeOK, KeptInv, NEW c \in Calls, Look(c) \/ Send(c) \/ Sent(c) \/ Confirm(c)
    PROVE  KeptInv'
<1> USE DEF keyVars, plcVars, grantVars
<1>a. /\ UNCHANGED <<account, provider, vault, fresh, plc, open, file>>
      /\ calls[c].at \in {"look", "send", "sent", "confirm"}
  BY DEF Look, Send, Sent, Confirm
<1>b. calls' \in [Calls -> CallRows] BY CallsKept DEF Look, Send, Sent, Confirm
<1>c. calls \in [Calls -> CallRows] BY Rows
<1>d. \/ calls' = [calls EXCEPT ![c] = Idle]
      \/ \E at \in {"send", "sent", "confirm", "materialize"} :
            calls' = [calls EXCEPT ![c] = [calls[c] EXCEPT !.at = at]]
  BY DEF Look, Send, Sent, Confirm, Go, Leave
<1>e. /\ \A x \in Calls \ {c} : calls'[x] = calls[x]
      /\ calls'[c] = Idle \/ \E at \in {"send", "sent", "confirm", "materialize"} :
                                calls'[c] = [calls[c] EXCEPT !.at = at]
  BY <1>c, <1>d
<1>f. /\ calls'[c].at # "prepare"
      /\ \/ calls'[c].at = "idle"
         \/ calls'[c].new = calls[c].new /\ calls'[c].prev = calls[c].prev
  <2>1. calls[c] \in CallRows BY <1>c
  <2> QED BY <1>e, <2>1, EmptyRows DEF CallRows
<1>g. FlightInv'
  <2>1. CASE Send(c)
    <3> DEFINE op == [prev |-> calls[c].prev, key |-> calls[c].new]
    <3>1. inflight' = inflight \cup {op} BY <2>1 DEF Send
    <3>2. op.prev = calls[c].prev /\ op.key = calls[c].new OBVIOUS
    <3>3. Current(c) \/ Left(c) BY <1>a DEF KeptInv, CommitInv
    <3>4. open.prev \in Nat /\ Len(plc) \in Nat BY LogFacts, Rows DEF OpenRows
    <3> HIDE DEF op
    <3>5. \/ op.prev < Len(plc)
          \/ op.prev = Len(plc) /\ open.state = "recorded" /\ op.prev = open.prev /\ op.key = open.new
      BY <3>2, <3>3, <3>4 DEF Current, Left, KeptInv, OpenInv
    <3> QED BY <1>a, <3>1, <3>5 DEF KeptInv, FlightInv
  <2>2. CASE ~Send(c)
    <3>1. inflight' = inflight BY <2>2 DEF Look, Sent, Confirm
    <3> QED BY <1>a, <3>1 DEF KeptInv, FlightInv
  <2> QED BY <2>1, <2>2
<1>h. ASSUME calls'[c].at = "materialize", Current(c) PROVE Head1.key = open.new /\ open.prev < Len(plc)
  <2>1. Confirm(c) /\ Ours(SubSeq(plc, 1, shown), calls[c])
    <3>1. calls[c] \in CallRows BY <1>c
    <3>2. \A at \in {"send", "sent", "confirm"} : [calls[c] EXCEPT !.at = at].at = at
      BY <3>1 DEF CallRows
    <3>3. Confirm(c)
      <4>1. \A at \in {"send", "sent", "confirm"} : Go(c, at) => calls'[c].at = at BY <1>c, <3>2 DEF Go
      <4>2. Leave(c) => calls'[c].at = "idle" BY <1>c, EmptyRows DEF Leave
      <4>3. ~Look(c) /\ ~Send(c) /\ ~Sent(c) BY <1>h, <4>1, <4>2 DEF Look, Send, Sent
      <4> QED BY <4>3
    <3>4. ~Leave(c) BY <1>h, <1>c, EmptyRows DEF Leave
    <3> QED BY <3>3, <3>4 DEF Confirm
  <2>2. plc \in Seq(Entries) /\ shown \in 1..Len(plc) /\ Len(plc) \in Nat BY Rows, LogFacts
  <2>3. Len(SubSeq(plc, 1, shown)) = shown /\ SubSeq(plc, 1, shown)[shown] = plc[shown] BY <2>2
  <2>4. shown = calls[c].prev + 1 /\ plc[shown] = [key |-> calls[c].new, own |-> FALSE]
    BY <2>1, <2>3 DEF Ours
  <2>5. plc[shown].key = open.new /\ plc[shown].key \in PlcKeys BY <1>h, <2>2, <2>4, LogFacts DEF Current
  <2>6. Head1.key = open.new BY <1>h, <2>5 DEF KeptInv, OpenInv, Current
  <2>7. open.prev \in Nat /\ open.prev = calls[c].prev BY <1>h, Rows DEF OpenRows, Current
  <2> QED BY <2>2, <2>4, <2>6, <2>7
<1> QED BY <1>a, <1>b, <1>e, <1>f, <1>g, <1>h, CallMoves

\* A request reviews the account and proposes a key: the vault's, or one it draws.
LEMMA ReviewKept ==
    ASSUME TypeOK, KeptInv, NEW c \in Calls, ReviewOwner(c) \/ ReviewManaged(c)
    PROVE  KeptInv'
<1> USE DEF KeptInv, keyVars, plcVars, grantVars
<1>a. PICK dir, key, succ :
        /\ Reads(c, dir, key, succ)
        /\ \/ dir = "owner" /\ key = vault /\ file = "key" /\ fresh' = fresh
           \/ dir = "managed" /\ key = fresh /\ fresh \in Keys /\ fresh' = fresh + 1
        /\ UNCHANGED <<account, provider, vault, plc, inflight, open, file>>
  <2>1. CASE ReviewOwner(c) BY <2>1 DEF ReviewOwner
  <2>2. CASE ReviewManaged(c) BY <2>2 DEF ReviewManaged
  <2> QED BY <2>1, <2>2
<1> DEFINE row == [at |-> "prepare", dir |-> dir, prev |-> shown, old |-> account.key, new |-> key,
                   from |-> account.generation, succ |-> succ]
<1>b. /\ open.state = "none" /\ account.generation < MaxGeneration
      /\ calls' = [calls EXCEPT ![c] = row]
  BY <1>a DEF Reads
<1>c. /\ row.at = "prepare" /\ row.dir = dir /\ row.prev = shown /\ row.new = key
      /\ row.from = account.generation
  OBVIOUS
<1> HIDE DEF row
<1>d. /\ calls \in [Calls -> CallRows] /\ shown \in 1..Len(plc) /\ Len(plc) \in Nat
      /\ fresh \in Nat /\ vault \in Nat /\ account.generation \in Nat /\ MaxKey \in Nat
  BY SMTT(40), Rows, LogFacts, CustodyAssumption DEF AccountRows
<1>e. calls'[c] = row /\ \A x \in Calls \ {c} : calls'[x] = calls[x] BY <1>b, <1>d
<1>f. PlcKeys' = PlcKeys /\ Head1' = Head1 /\ PlcKeys \subseteq Nat
  <2>1. PlcKeys' = PlcKeys /\ Head1' = Head1 BY <1>a DEF PlcKeys, Head1
  <2>2. PlcKeys \subseteq Nat BY <1>d, LogFacts DEF Keys
  <2> QED BY <2>1, <2>2
<1>g. \A k \in PlcKeys : k \in Nat /\ k < fresh /\ k < fresh' BY <1>a, <1>d, <1>f DEF KeyInv
<1>1. KeyInv' BY <1>a, <1>d, <1>f, <1>g DEF KeyInv
<1>2. OpenInv' BY <1>a, <1>b DEF OpenInv
<1>3. ReviewInv'
  <2>1. key \in Keys /\ key < fresh' /\ key \notin PlcKeys BY <1>a, <1>b, <1>d, <1>g DEF KeyInv, Keys
  <2>2. \A x \in Calls : calls[x].new \in Nat BY <1>d DEF CallRows
  <2> SUFFICES ASSUME NEW x \in Calls, calls'[x].at = "prepare"
               PROVE  /\ calls'[x].prev <= Len(plc) /\ calls'[x].from <= account.generation
                      /\ calls'[x].from = account.generation =>
                           /\ calls'[x].from < MaxGeneration
                           /\ calls'[x].new \in Keys /\ calls'[x].new < fresh'
                           /\ open.state = "none" => calls'[x].new \notin PlcKeys
                           /\ calls'[x].dir = "owner" =>
                                vault = calls'[x].new
                                /\ (file = "key" \/ (file = "state" /\ open.state # "none"))
    BY <1>a, <1>f DEF ReviewInv
  <2>3. CASE x = c BY <1>a, <1>b, <1>c, <1>d, <1>e, <2>1, <2>3
  <2>4. CASE x # c BY <1>a, <1>d, <1>e, <2>2, <2>4 DEF ReviewInv
  <2> QED BY <2>3, <2>4
<1>4. CommitInv'
  <2> SUFFICES ASSUME NEW x \in Calls
               PROVE  /\ calls'[x].at \in {"look", "send", "sent", "confirm", "materialize"} =>
                            calls'[x].new \in Keys /\ (Current(x)' \/ Left(x)')
                      /\ calls'[x].at = "materialize" /\ Current(x)' =>
                            Head1'.key = open'.new /\ open'.prev < Len(plc')
    BY DEF CommitInv
  <2>1. CASE x = c BY <1>c, <1>e, <2>1
  <2>2. CASE x # c BY <1>a, <1>e, <1>f, <2>2 DEF CommitInv, Current, Left
  <2> QED BY <2>1, <2>2
<1>5. FlightInv' BY <1>a DEF FlightInv
<1>6. IdentityIsHeld' BY <1>a, <1>f DEF IdentityIsHeld
<1> QED BY <1>1, <1>2, <1>3, <1>4, <1>5, <1>6

\* The preparation is stored, if nothing has changed since the review.
LEMMA PrepareKept ==
    ASSUME TypeOK, KeptInv, NEW c \in Calls, Prepare(c)
    PROVE  KeptInv'
<1> USE DEF keyVars, plcVars, grantVars
<1>a. /\ calls[c].at = "prepare" /\ calls' = [calls EXCEPT ![c] = Idle]
      /\ UNCHANGED <<account, provider, vault, fresh, plc, inflight, file>>
  BY DEF Prepare, Leave
<1>b. calls \in [Calls -> CallRows] BY Rows
<1>c. calls'[c] = Idle /\ (\A x \in Calls \ {c} : calls'[x] = calls[x]) /\ calls'[c].at = "idle"
  BY <1>a, <1>b, EmptyRows
<1>1. CASE open' = open
  <2>1. calls' \in [Calls -> CallRows] BY CallsKept DEF Prepare
  <2>2. FlightInv' BY <1>1, <1>a DEF KeptInv, FlightInv
  <2> QED BY <1>1, <1>a, <1>c, <2>1, <2>2, CallMoves
<1>2. CASE open' # open
  <2> USE DEF KeptInv
  <2>1. /\ open.state = "none" /\ Unchanged(c)
        /\ open' = [state |-> "prepared", dir |-> calls[c].dir, prev |-> calls[c].prev,
                    old |-> calls[c].old, new |-> calls[c].new, from |-> calls[c].from,
                    succ |-> Succeeded(c), live |-> TRUE]
    BY <1>2 DEF Prepare
  <2>2. /\ open'.state = "prepared" /\ open'.dir = calls[c].dir /\ open'.prev = calls[c].prev
        /\ open'.old = calls[c].old /\ open'.new = calls[c].new /\ open'.from = calls[c].from
    BY <2>1
  <2>3. PlcKeys' = PlcKeys /\ Head1' = Head1 BY <1>a DEF PlcKeys, Head1
  <2>4. /\ account.kind # calls[c].dir /\ account.key = calls[c].old
        /\ account.generation = calls[c].from
    BY <2>1 DEF Unchanged
  <2>5. /\ calls[c].prev <= Len(plc) /\ calls[c].from < MaxGeneration
        /\ calls[c].new \in Keys /\ calls[c].new < fresh /\ calls[c].new \notin PlcKeys
        /\ calls[c].dir = "owner" => vault = calls[c].new /\ file = "key"
    BY <1>a, <2>1, <2>4 DEF ReviewInv
  <2>6. KeyInv' BY <1>a, <2>2, <2>3 DEF KeyInv
  <2>7. OpenInv' BY <1>a, <2>2, <2>3, <2>4, <2>5 DEF OpenInv, KeyInv
  <2>8. ReviewInv'
    <3>1. \A x \in Calls : calls'[x].at = "prepare" => x # c BY <1>c
    <3> QED BY <1>a, <1>c, <2>1, <2>2, <2>3, <3>1 DEF ReviewInv
  <2>9. CommitInv'
    <3> SUFFICES ASSUME NEW x \in Calls, calls'[x].at \in {"look", "send", "sent", "confirm", "materialize"}
                 PROVE  calls'[x].new \in Keys /\ Left(x)' /\ ~Current(x)'
      BY DEF CommitInv
    <3>1. x # c /\ calls'[x] = calls[x] BY <1>c
    <3>2. calls[x].new \in Keys /\ Left(x) BY <2>1, <3>1 DEF CommitInv, Current
    <3> QED BY <1>a, <2>2, <2>3, <2>5, <3>1, <3>2 DEF Left, Current
  <2>10. FlightInv' BY <1>a, <2>1 DEF FlightInv
  <2>11. IdentityIsHeld' BY <1>a, <2>1, <2>2, <2>3, <2>5 DEF IdentityIsHeld
  <2> QED BY <2>6, <2>7, <2>8, <2>9, <2>10, <2>11
<1> QED BY <1>1, <1>2

\* The approved operation is recorded, or recorded already.
LEMMA RecordKept ==
    ASSUME TypeOK, KeptInv, NEW c \in Calls, Record(c)
    PROVE  KeptInv'
<1> USE DEF KeptInv, keyVars, plcVars, grantVars
<1>a. /\ file = "state" /\ open.state # "none" /\ open' = [open EXCEPT !.state = "recorded"]
      /\ calls' = [calls EXCEPT ![c] = [at |-> "look", dir |-> open.dir, prev |-> open.prev,
                                        old |-> open.old, new |-> open.new, from |-> open.from,
                                        succ |-> open.succ]]
      /\ UNCHANGED <<account, provider, vault, fresh, plc, inflight, file>>
  BY DEF Record
<1>b. calls \in [Calls -> CallRows] BY Rows
<1>c. /\ calls'[c].at = "look" /\ calls'[c].prev = open.prev /\ calls'[c].new = open.new
      /\ \A x \in Calls \ {c} : calls'[x] = calls[x]
  BY <1>a, <1>b
<1>d. /\ open'.state = "recorded" /\ open'.dir = open.dir /\ open'.prev = open.prev
      /\ open'.old = open.old /\ open'.new = open.new /\ open'.from = open.from
  BY <1>a, Rows DEF OpenRows
<1>e. PlcKeys' = PlcKeys /\ Head1' = Head1 BY <1>a DEF PlcKeys, Head1
<1>1. KeyInv' BY <1>a, <1>d, <1>e DEF KeyInv
<1>2. OpenInv' BY <1>a, <1>d, <1>e DEF OpenInv
<1>3. ReviewInv'
  <2>1. \A x \in Calls : calls'[x].at = "prepare" => x # c BY <1>c
  <2> QED BY <1>a, <1>c, <1>d, <1>e, <2>1 DEF ReviewInv
<1>4. CommitInv'
  <2> SUFFICES ASSUME NEW x \in Calls, calls'[x].at \in {"look", "send", "sent", "confirm", "materialize"}
               PROVE  /\ calls'[x].new \in Keys /\ (Current(x)' \/ Left(x)')
                      /\ calls'[x].at = "materialize" /\ Current(x)' =>
                            Head1'.key = open'.new /\ open'.prev < Len(plc')
    BY DEF CommitInv
  <2>1. CASE x = c BY <1>a, <1>c, <1>d, <2>1 DEF Current, OpenInv
  <2>2. CASE x # c
    <3>1. calls'[x] = calls[x] BY <1>c, <2>2
    <3>2. calls[x].new \in Keys /\ (Current(x) \/ Left(x)) BY <3>1 DEF CommitInv
    <3>3. CASE Current(x) BY <1>a, <1>d, <1>e, <3>1, <3>2, <3>3 DEF CommitInv, Current
    <3>4. CASE Left(x) BY <1>a, <1>d, <1>e, <3>1, <3>2, <3>4 DEF Current, Left
    <3> QED BY <3>2, <3>3, <3>4
  <2> QED BY <2>1, <2>2
<1>5. FlightInv' BY <1>a, <1>d DEF FlightInv
<1>6. IdentityIsHeld' BY <1>a, <1>d, <1>e DEF IdentityIsHeld, OpenInv
<1> QED BY <1>1, <1>2, <1>3, <1>4, <1>5, <1>6

\* The transition is materialized: the directory's last operation names its key.
LEMMA MaterializeKept ==
    ASSUME TypeOK, KeptInv, NEW c \in Calls, Materialize(c)
    PROVE  KeptInv'
<1> USE DEF keyVars, plcVars, grantVars
<1>a. /\ calls[c].at = "materialize" /\ calls' = [calls EXCEPT ![c] = Idle]
      /\ UNCHANGED <<vault, fresh, plc, inflight, file>>
  BY DEF Materialize, Leave
<1>b. calls \in [Calls -> CallRows] BY Rows
<1>c. calls'[c] = Idle /\ (\A x \in Calls \ {c} : calls'[x] = calls[x]) /\ calls'[c].at = "idle"
  BY <1>a, <1>b, EmptyRows
<1>1. CASE UNCHANGED <<account, provider, grants, open>>
  <2>1. calls' \in [Calls -> CallRows] BY CallsKept DEF Materialize
  <2>2. FlightInv' BY <1>1, <1>a DEF KeptInv, FlightInv
  <2> QED BY <1>1, <1>a, <1>c, <2>1, <2>2, CallMoves
<1>2. CASE Materializes(c)
  <2> USE DEF KeptInv
  <2>1. /\ account' = [kind |-> open.dir, key |-> open.new, generation |-> account.generation + 1]
        /\ provider' = IF open.dir = "managed" THEN provider \cup {open.new} ELSE provider \ {open.old}
        /\ open' = NoTransition
    BY <1>2 DEF Materialize
  <2>2. /\ account'.kind = open.dir /\ account'.key = open.new
        /\ account'.generation = account.generation + 1
    BY <2>1
  <2>3. open'.state = "none" BY <2>1, EmptyRows
  <2>4. open.state = "recorded" /\ open.new = calls[c].new BY <1>2 DEF Materializes
  <2>5. Current(c) BY <1>a, <2>4 DEF CommitInv, Left
  <2>6. Head1.key = open.new /\ open.prev < Len(plc) BY <1>a, <2>5 DEF CommitInv
  <2>7. PlcKeys' = PlcKeys /\ Head1' = Head1 BY <1>a DEF PlcKeys, Head1
  <2>8. open.new \in PlcKeys BY <2>6, LogFacts
  <2>9. account.generation \in Nat /\ open.prev \in Nat /\ Len(plc) \in Nat
        /\ open.dir \in {"managed", "owner"}
    BY SMTT(40), Rows, LogFacts, CustodyAssumption DEF AccountRows, OpenRows, Directions
  <2>10. KeyInv' BY <1>a, <2>1, <2>2, <2>4, <2>7, <2>8 DEF KeyInv, OpenInv
  <2>11. OpenInv' BY <2>3 DEF OpenInv
  <2>12. ReviewInv'
    <3> SUFFICES ASSUME NEW x \in Calls, calls'[x].at = "prepare"
                 PROVE  calls'[x].prev <= Len(plc) /\ calls'[x].from < account'.generation
      <4>1. account'.generation \in Nat BY <2>2, <2>9
      <4>2. \A x \in Calls : calls'[x].from \in Nat
        <5>1. \A x \in Calls : calls'[x] \in CallRows BY <1>b, <1>c, EmptyRows
        <5> QED BY <5>1, CustodyAssumption DEF CallRows
      <4> QED BY <1>a, <4>1, <4>2 DEF ReviewInv
    <3>1. x # c /\ calls'[x] = calls[x] BY <1>c
    <3>2. calls[x].from \in Nat BY <1>b, CustodyAssumption DEF CallRows
    <3> QED BY <2>2, <2>9, <3>1, <3>2 DEF ReviewInv
  <2>13. CommitInv'
    <3> SUFFICES ASSUME NEW x \in Calls, calls'[x].at \in {"look", "send", "sent", "confirm", "materialize"}
                 PROVE  calls'[x].new \in Keys /\ Left(x)' /\ ~Current(x)'
      BY DEF CommitInv
    <3>1. x # c /\ calls'[x] = calls[x] BY <1>c
    <3>2. calls[x].new \in Keys /\ (Current(x) \/ Left(x)) BY <3>1 DEF CommitInv
    <3> QED BY <1>a, <2>3, <2>6, <2>7, <2>8, <3>1, <3>2 DEF Left, Current
  <2>14. FlightInv' BY <1>a, <2>6, <2>9 DEF FlightInv
  <2>15. IdentityIsHeld' BY <1>a, <2>1, <2>2, <2>3, <2>4, <2>6, <2>7, <2>9 DEF IdentityIsHeld, OpenInv
  <2> QED BY <2>10, <2>11, <2>12, <2>13, <2>14, <2>15
<1> QED BY <1>1, <1>2 DEF Materialize

-----------------------------------------------------------------------------

\* The inductive invariant holds at the start.
LEMMA Begins == Init => IndInv
<1> SUFFICES ASSUME Init PROVE IndInv OBVIOUS
<1> DEFINE g == CHOOSE h \in Grants : TRUE
<1>1. PICK kind \in Directions :
        /\ account = [kind |-> kind, key |-> 1, generation |-> 1]
        /\ provider = IF kind = "managed" THEN {1} ELSE {}
        /\ vault = IF kind = "owner" THEN 1 ELSE 0
        /\ fresh = 2
        /\ plc = <<[key |-> 1, own |-> FALSE]>>
        /\ shown = 1 /\ retained = 1 /\ inflight = {}
        /\ open = NoTransition
        /\ calls = [c \in Calls |-> Idle]
        /\ file = "none"
        /\ grants = [h \in Grants |-> IF h = g
                        THEN [status |-> "active", revision |-> 1, signer |-> 1, acked |-> TRUE]
                        ELSE [status |-> "none", revision |-> 0, signer |-> 0, acked |-> FALSE]]
        /\ request = None /\ signed = 0 /\ publishing = FALSE
        /\ faults = 0
  BY DEF Init
<1> HIDE DEF g
<1>2. MaxKey \in Nat \ {0} /\ MaxGeneration \in Nat \ {0} /\ MaxSigned \in Nat /\ MaxFaults \in Nat
  BY CustodyAssumption
<1>3. 1 \in Keys /\ 1 \in 1..MaxGeneration /\ {0, 1} \subseteq Revisions /\ {0, 1} \subseteq 0..MaxKey
  BY <1>2 DEF Keys, Revisions
<1>4. account.kind = kind /\ account.key = 1 /\ account.generation = 1 BY <1>1
<1>5. plc \in Seq(Entries) /\ Len(plc) = 1 /\ plc[1] = [key |-> 1, own |-> FALSE] BY <1>1, <1>3 DEF Entries
<1>6. Head1.key = 1 /\ PlcKeys = {1} BY <1>5 DEF Head1, PlcKeys
<1>7. \A h \in Grants : /\ grants[h] \in GrantRows /\ grants[h].revision \in {0, 1}
                        /\ grants[h].status = "active" => grants[h].revision = 1 /\ grants[h].signer = 1
  BY <1>1, <1>3 DEF GrantRows
<1>8. TypeOK
  <2>1. account \in AccountRows BY <1>1, <1>3 DEF AccountRows
  <2>2. calls \in [Calls -> CallRows] /\ open \in OpenRows BY <1>1, EmptyRows
  <2>3. grants \in [Grants -> GrantRows] BY <1>1, <1>7
  <2>4. vault \in 0..MaxKey /\ fresh \in 1..(MaxKey + 1) /\ provider \subseteq Keys BY <1>1, <1>2, <1>3
  <2>5. shown \in 1..Len(plc) /\ retained \in 1..Len(plc) BY <1>1, <1>5
  <2>6. signed \in 0..MaxSigned /\ faults \in 0..MaxFaults /\ file \in {"none", "key", "state"}
        /\ inflight \subseteq [prev : Nat, key : Keys]
    BY <1>1, <1>2
  <2>7. publishing \in BOOLEAN BY <1>1
  <2> QED BY <1>5, <2>1, <2>2, <2>3, <2>4, <2>5, <2>6, <2>7, Rows
<1>9. open.state = "none" /\ \A c \in Calls : calls[c].at = "idle" BY <1>1, EmptyRows
<1>10. RequestInv /\ SuccessorInv BY <1>1, <1>9 DEF RequestInv, SuccessorInv
<1>11. RevisionInv BY <1>1, <1>4, <1>7 DEF RevisionInv
<1>12. ManagedGrantsFollow BY <1>4, <1>7 DEF ManagedGrantsFollow, Active
<1>13. KeyInv BY <1>1, <1>4, <1>6 DEF KeyInv
<1>14. OpenInv /\ ReviewInv /\ CommitInv BY <1>9 DEF OpenInv, ReviewInv, CommitInv
<1>15. FlightInv BY <1>1 DEF FlightInv
<1>16. IdentityIsHeld BY <1>1, <1>4, <1>6, <1>9 DEF IdentityIsHeld, Directions
<1> QED BY <1>8, <1>10, <1>11, <1>12, <1>13, <1>14, <1>15, <1>16 DEF IndInv

\* Every step keeps the keys, the transition and its requests.
LEMMA KeyStep ==
    ASSUME TypeOK, KeptInv, [Next]_vars
    PROVE  KeptInv'
<1> USE DEF keyVars, plcVars, grantVars
<1>1. CASE Mirror \/ FailOver \/ Store \/ Publish \/ EndPublication
  BY <1>1, QuietKept DEF Mirror, FailOver, Store, Publish, EndPublication
<1>2. ASSUME NEW g \in Grants, NEW s \in {"active", "revoked"}, Acknowledge(g) \/ Signs(g, s) PROVE KeptInv'
  BY <1>2, QuietKept DEF Acknowledge, Signs
<1>3. CASE UNCHANGED vars BY <1>3, QuietKept DEF vars
<1> QED BY <1>1, <1>2, <1>3, OwnerKept, ExpireKept, DirectoryKept, CommitKept, ReviewKept, PrepareKept,
           RecordKept, MaterializeKept, AbandonKept DEF Next, Serve, Issue, Change

\* The inductive invariant of a custody change: the keys are drawn once, the open transition
\* proposes a key nobody has used, and whatever still serves or carries a transition belongs
\* to the recorded one or to one the directory has passed (custody-transition.ts, custody.rs).
THEOREM Invariance == Spec => []IndInv
<1>1. Init => IndInv BY Begins
<1>2. IndInv /\ [Next]_vars => IndInv' BY TypeStep, GrantStep, KeyStep DEF IndInv, KeptInv
<1> QED BY <1>1, <1>2, PTL DEF Spec

\* The rows of the transition, its requests and the Grants keep their types, and a Grant's
\* revision stays within the signatures and generations there were (custody-transition.ts).
THEOREM CustodyTypes == Spec => []TypeOK
<1>1. IndInv => TypeOK BY DEF IndInv
<1> QED BY <1>1, Invariance, PTL

\* The identity key the directory names is held by the party in custody, through repeated
\* requests, ambiguous sends, readers that fall behind and crashes of the command line
\* between its two files (custody-transition.ts commit and materialize, custody.rs run).
THEOREM TheIdentityIsHeld == Spec => []IdentityIsHeld
<1>1. IndInv => IdentityIsHeld BY DEF IndInv
<1> QED BY <1>1, Invariance, PTL

\* Under the fence nothing that materialize asks for changes: a transition that is clear of
\* changed Grants and pending publications stays clear until it completes, and one that is
\* not stays obstructed (hail_assert_unfenced_account, custody-transition.ts materialize).
THEOREM TheFenceHolds ==
    Spec => [][open.state # "none" /\ open'.state # "none" => (Unobstructed' <=> Unobstructed)]_vars
<1> DEFINE Holds == open.state # "none" /\ open'.state # "none" => (Unobstructed' <=> Unobstructed)
           Still == open'.succ = open.succ /\ UNCHANGED <<grants, publishing>>
<1>1. ASSUME TypeOK, [Next]_vars PROVE Holds
  <2> SUFFICES ASSUME open.state # "none", open'.state # "none" PROVE Unobstructed' <=> Unobstructed OBVIOUS
  <2> USE DEF keyVars, plcVars, grantVars
  <2>a. open \in OpenRows BY <1>1, Rows
  <2>1. CASE ReplaceVault \/ SaveState \/ Finish \/ OwnOperation \/ Mirror \/ FailOver
    BY <2>1 DEF ReplaceVault, SaveState, Finish, OwnOperation, Mirror, FailOver, Unobstructed, Unmoved
  <2>2. CASE Store \/ Publish \/ EndPublication
    BY <2>2 DEF Store, Publish, EndPublication, Writable, Unobstructed, Unmoved
  <2>3. ASSUME NEW g \in Grants, NEW s \in {"active", "revoked"}, Acknowledge(g) \/ Signs(g, s) PROVE Still
    BY <2>3 DEF Acknowledge, Signs, Writable
  <2>4. CASE Expire
    <3>1. open' = [open EXCEPT !.live = FALSE] /\ UNCHANGED <<grants, publishing>> BY <2>4 DEF Expire
    <3>2. Still BY <2>a, <3>1 DEF OpenRows
    <3> QED BY <3>2 DEF Unobstructed, Unmoved
  <2>5. ASSUME NEW c \in Calls, Record(c) PROVE Still
    <3>1. open' = [open EXCEPT !.state = "recorded"] /\ UNCHANGED <<grants, publishing>> BY <2>5 DEF Record
    <3> QED BY <2>a, <3>1 DEF OpenRows
  <2>6. ASSUME NEW op \in inflight, Land(op) PROVE Still BY <2>6 DEF Land
  <2>7. ASSUME NEW c \in Calls,
               \/ ReviewOwner(c) \/ ReviewManaged(c) \/ Look(c) \/ Send(c) \/ Sent(c) \/ Confirm(c)
               \/ Abandon(c) \/ Prepare(c)
        PROVE  Still
    BY <2>7 DEF ReviewOwner, ReviewManaged, Look, Send, Sent, Confirm, Abandon, Prepare
  <2>8. ASSUME NEW c \in Calls, Materialize(c) PROVE Still
    BY <2>8, EmptyRows DEF Materialize
  <2>9. CASE UNCHANGED vars BY <2>9 DEF vars, Unobstructed, Unmoved
  <2>10. CASE Still BY <2>10 DEF Unobstructed, Unmoved
  <2> HIDE DEF Still
  <2> QED BY <1>1, <2>1, <2>2, <2>3, <2>4, <2>5, <2>6, <2>7, <2>8, <2>9, <2>10 DEF Next, Serve, Issue, Change
<1>2. TypeOK /\ [Next]_vars => [Holds]_vars BY <1>1
<1> QED BY <1>2, CustodyTypes, PTL DEF Spec

\* While the provider has custody every active Grant is signed by its key: the fence keeps
\* what was signed under an older key from being stored (custody-transition.ts prepare,
\* hail_assert_unfenced_account).
THEOREM GrantsFollowTheProvider == Spec => []ManagedGrantsFollow
<1>1. IndInv => ManagedGrantsFollow BY DEF IndInv
<1> QED BY <1>1, Invariance, PTL
==============================================================================
