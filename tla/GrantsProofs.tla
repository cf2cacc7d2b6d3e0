---------------------------- MODULE GrantsProofs ----------------------------
(***************************************************************************)
(* Proofs about Grants, for any grants, clients, publishers, requests,     *)
(* profiles and bounds that satisfy GrantsAssumption.                      *)
(***************************************************************************)
EXTENDS Grants, SequenceTheorems, TLAPS

(* Every category a revision of s permits is one its consent commits to.   *)
Covered(s) == \A n \in 1 .. Len(s) : s[n].scope \subseteq Offers[s[n].consent]

(* An approval in hand is for a known grant and carries a covered chain.   *)
GoodApproval(x) ==
    /\ x \in Approval
    /\ x.at # "idle" => x.grant \in Grants /\ x.rep # <<>>
    /\ x.at = "based" => Active(x.rep) /\ Len(x.rep) < MaxRevision
    /\ Covered(x.rep)

ApprovalsAgree == \A a \in Actors : GoodApproval(actor[a])

LineagesCovered == \A g \in Grants : Covered(lineage[g])

(* A request in hand carries what the grantor signed, and an answer of     *)
(* success means that the grantee's provider holds it.                     *)
Success == {"created", "done", "exists"}

GoodRequest(x, signed, holds) ==
    x.at # "free" =>
        /\ x.grant \in Grants
        /\ x.rep # <<>>
        /\ IsPrefix(x.rep, signed)
        /\ x.at = "answered" /\ x.answer \in Success => Len(x.rep) <= Len(holds)

RequestsAgree ==
    \A r \in Requests : GoodRequest(request[r], lineage[request[r].grant], Held(request[r].grant))

(* A publisher waits for its own request, and no two for the same one.     *)
Waits(p) ==
    sender[p] # Quiet =>
        LET r == sender[p].request
        IN /\ r \in Requests
           /\ request[r].at # "free"
           /\ request[r].grant = sender[p].grant
           /\ request[r].rep = sender[p].rep
           /\ \A q \in Publishers : sender[q] # Quiet /\ sender[q].request = r => q = p

SendersAgree == \A p \in Publishers : Waits(p)

IndInv ==
    /\ TypeOK
    /\ ApprovalsAgree
    /\ LineagesCovered
    /\ RequestsAgree
    /\ SendersAgree
    /\ ReceivedIsPrefix
    /\ AcknowledgedIsHeld

-----------------------------------------------------------------------------
(* Sequences.                                                              *)

LEMMA ChainIsSeq ==
    \A s : s \in Chain <=> s \in Seq(Body) /\ Len(s) <= MaxRevision
<1>1. ASSUME NEW s \in Chain PROVE s \in Seq(Body) /\ Len(s) <= MaxRevision
  <2>1. PICK n \in 0 .. MaxRevision : s \in [1 .. n -> Body]
    BY DEF Chain
  <2>2. n \in Nat /\ n <= MaxRevision
    BY GrantsAssumption DEF GrantsAssumption
  <2>3. s \in Seq(Body)
    BY <2>1, <2>2, SeqDef
  <2>4. Len(s) = n
    BY <2>1, <2>2, <2>3, LenProperties
  <2> QED BY <2>2, <2>3, <2>4
<1>2. ASSUME NEW s \in Seq(Body), Len(s) <= MaxRevision PROVE s \in Chain
  <2>1. Len(s) \in 0 .. MaxRevision /\ s \in [1 .. Len(s) -> Body]
    BY <1>2, LenProperties, GrantsAssumption DEF GrantsAssumption
  <2> QED BY <2>1 DEF Chain
<1> QED BY <1>1, <1>2

LEMMA PrefixIndex ==
    ASSUME NEW S, NEW s \in Seq(S), NEW t \in Seq(S)
    PROVE  IsPrefix(s, t) <=> Len(s) <= Len(t) /\ \A i \in 1 .. Len(s) : s[i] = t[i]
<1>1. Len(s) \in Nat /\ Len(t) \in Nat
  BY LenProperties
<1>2. ASSUME Len(s) <= Len(t)
      PROVE  /\ SubSeq(t, 1, Len(s)) \in Seq(S)
             /\ Len(SubSeq(t, 1, Len(s))) = Len(s)
             /\ \A i \in 1 .. Len(s) : SubSeq(t, 1, Len(s))[i] = t[i]
  <2>1. \A i \in 1 .. Len(s) : t[i] \in S
    BY <1>1, <1>2, ElementOfSeq
  <2>2. 1 \in Int /\ Len(s) \in Int
    BY <1>1
  <2>3. /\ SubSeq(t, 1, Len(s)) \in Seq(S)
        /\ Len(SubSeq(t, 1, Len(s))) = IF 1 <= Len(s) THEN Len(s) - 1 + 1 ELSE 0
        /\ \A i \in 1 .. Len(s) - 1 + 1 : SubSeq(t, 1, Len(s))[i] = t[1 + i - 1]
    BY <2>1, <2>2, SubSeqProperties
  <2> QED BY <1>1, <2>3
<1>3. ASSUME Len(s) <= Len(t), \A i \in 1 .. Len(s) : s[i] = t[i]
      PROVE  s = SubSeq(t, 1, Len(s))
  <2>1. \A i \in 1 .. Len(s) : s[i] = SubSeq(t, 1, Len(s))[i]
    BY <1>2, <1>3
  <2> QED BY <1>2, <1>3, <2>1, SeqEqual
<1> QED BY <1>2, <1>3 DEF IsPrefix

LEMMA PrefixOrder ==
    ASSUME NEW S, NEW s \in Seq(S), NEW t \in Seq(S)
    PROVE  /\ IsPrefix(s, s)
           /\ IsPrefix(<<>>, s)
           /\ \A u \in Seq(S) : IsPrefix(s, t) /\ IsPrefix(t, u) => IsPrefix(s, u)
<1>1. Len(s) \in Nat /\ Len(t) \in Nat /\ \A u \in Seq(S) : Len(u) \in Nat
  BY LenProperties
<1>2. IsPrefix(s, s)
  BY <1>1, PrefixIndex
<1>3. IsPrefix(<<>>, s)
  <2>1. <<>> \in Seq(S) /\ Len(<<>>) = 0
    BY EmptySeq
  <2>2. 1 \in Int /\ 0 \in Int /\ 0 < 1
    OBVIOUS
  <2>3. SubSeq(s, 1, 0) = <<>>
    BY <2>2, SubSeqEmpty
  <2> QED BY <1>1, <2>1, <2>3 DEF IsPrefix
<1>4. ASSUME NEW u \in Seq(S), IsPrefix(s, t), IsPrefix(t, u) PROVE IsPrefix(s, u)
  <2>1. Len(s) <= Len(t) /\ \A i \in 1 .. Len(s) : s[i] = t[i]
    BY <1>4, PrefixIndex
  <2>2. Len(t) <= Len(u) /\ \A i \in 1 .. Len(t) : t[i] = u[i]
    BY <1>4, PrefixIndex
  <2>3. Len(s) <= Len(u) /\ \A i \in 1 .. Len(s) : s[i] = u[i]
    BY <1>1, <2>1, <2>2
  <2> QED BY <2>3, PrefixIndex
<1> QED BY <1>2, <1>3, <1>4

LEMMA CutIsPrefix ==
    ASSUME NEW S, NEW t \in Seq(S), NEW n \in 0 .. Len(t)
    PROVE  /\ SubSeq(t, 1, n) \in Seq(S)
           /\ Len(SubSeq(t, 1, n)) = n
           /\ IsPrefix(SubSeq(t, 1, n), t)
<1>1. Len(t) \in Nat
  BY LenProperties
<1>2. \A i \in 1 .. n : t[i] \in S
  BY <1>1, ElementOfSeq
<1>3. 1 \in Int /\ n \in Int
  BY <1>1
<1>4. /\ SubSeq(t, 1, n) \in Seq(S)
      /\ Len(SubSeq(t, 1, n)) = IF 1 <= n THEN n - 1 + 1 ELSE 0
      /\ \A i \in 1 .. n - 1 + 1 : SubSeq(t, 1, n)[i] = t[1 + i - 1]
  BY <1>2, <1>3, SubSeqProperties
<1>5. Len(SubSeq(t, 1, n)) = n
  BY <1>1, <1>4
<1> QED BY <1>1, <1>4, <1>5 DEF IsPrefix

LEMMA PrevIsPrefix ==
    ASSUME NEW S, NEW s \in Seq(S), s # <<>>
    PROVE  Prev(s) \in Seq(S) /\ Len(Prev(s)) = Len(s) - 1 /\ Len(s) \in Nat \ {0} /\ IsPrefix(Prev(s), s)
<1>1. Len(s) \in Nat \ {0}
  BY EmptySeq
<1>2. Len(s) - 1 \in 0 .. Len(s)
  BY <1>1
<1> QED BY <1>1, <1>2, CutIsPrefix DEF Prev

-----------------------------------------------------------------------------
(* What the owner's clients prepare.                                       *)

(* A chain a client may hold.                                              *)
Proposal(s) == s \in Chain /\ s # <<>> /\ Covered(s)

LEMMA ProposalAppends ==
    ASSUME NEW s \in Chain, Covered(s), Len(s) < MaxRevision,
           NEW b \in Body, b.scope \subseteq Offers[b.consent]
    PROVE  Proposal(Append(s, b))
<1>1. s \in Seq(Body) /\ Len(s) \in Nat
  BY ChainIsSeq, LenProperties
<1>2. /\ Append(s, b) \in Seq(Body)
      /\ Append(s, b) # <<>>
      /\ Len(Append(s, b)) = Len(s) + 1
      /\ \A i \in 1 .. Len(s) : Append(s, b)[i] = s[i]
      /\ Append(s, b)[Len(s) + 1] = b
  BY <1>1, AppendProperties
<1>3. Append(s, b) \in Chain
  <2>1. Len(s) + 1 <= MaxRevision
    BY <1>1, GrantsAssumption DEF GrantsAssumption
  <2> QED BY <1>2, <2>1, ChainIsSeq
<1>4. Covered(Append(s, b))
  <2> SUFFICES ASSUME NEW n \in 1 .. Len(s) + 1
               PROVE  Append(s, b)[n].scope \subseteq Offers[Append(s, b)[n].consent]
    BY <1>2 DEF Covered
  <2>1. CASE n = Len(s) + 1
    BY <1>2, <2>1
  <2>2. CASE n \in 1 .. Len(s)
    BY <1>2, <2>2 DEF Covered
  <2> QED BY <1>1, <2>1, <2>2
<1> QED BY <1>2, <1>3, <1>4 DEF Proposal

LEMMA LastOfChain ==
    ASSUME NEW s \in Chain, s # <<>>, Covered(s)
    PROVE  Last(s) \in Body /\ Last(s).scope \subseteq Offers[Last(s).consent]
<1>1. s \in Seq(Body) /\ Len(s) \in Nat \ {0}
  BY ChainIsSeq, EmptySeq
<1>2. Len(s) \in 1 .. Len(s)
  BY <1>1
<1> QED BY <1>1, <1>2, ElementOfSeq DEF Last, Covered

LEMMA Proposals ==
    ASSUME TypeOK, LineagesCovered, NEW g \in Grants
    PROVE  /\ Updatable(g) => \A s \in ProposedUpdates(g) : Proposal(s)
           /\ Updatable(g) => Proposal(Revocation(g))
           /\ \A scope \in Scopes : scope \subseteq Offers[profile] => Proposal(FirstRevision(scope))
<1> DEFINE old == Last(lineage[g])
<1>1. /\ lineage[g] \in Chain /\ Covered(lineage[g])
      /\ profile \in Versions
  BY DEF TypeOK, LineagesCovered
<1>2. ASSUME Updatable(g)
      PROVE  /\ Len(lineage[g]) < MaxRevision
             /\ old \in Body
             /\ old.scope \subseteq Offers[old.consent]
  BY <1>1, <1>2, LastOfChain DEF Updatable, Active
<1>3. ASSUME Updatable(g), NEW s \in ProposedUpdates(g) PROVE Proposal(s)
  <2>1. PICK scope \in Scopes :
          \/ /\ restrictsAuthorization(old, [old EXCEPT !.scope = scope])
             /\ s = Append(lineage[g], [old EXCEPT !.scope = scope])
          \/ /\ scope \subseteq Offers[profile]
             /\ s = Append(lineage[g], [[old EXCEPT !.scope = scope] EXCEPT !.consent = profile])
    BY <1>3 DEF ProposedUpdates, Offered
  <2>2. CASE /\ restrictsAuthorization(old, [old EXCEPT !.scope = scope])
             /\ s = Append(lineage[g], [old EXCEPT !.scope = scope])
    <3> DEFINE b == [old EXCEPT !.scope = scope]
    <3>1. b \in Body /\ b.consent = old.consent /\ b.status = old.status /\ b.scope = scope
      BY <1>2, <1>3 DEF Body
    <3>2. old.status = "active"
      BY <1>3 DEF Updatable, Active
    <3>3. scope \subseteq old.scope
      BY <2>2, <3>1, <3>2 DEF restrictsAuthorization, expandsAuthorization
    <3>4. b.scope \subseteq Offers[b.consent]
      BY <1>2, <1>3, <3>1, <3>3
    <3> HIDE DEF b
    <3>5. Proposal(Append(lineage[g], b))
      BY <1>1, <1>2, <1>3, <3>1, <3>4, ProposalAppends
    <3> QED BY <2>2, <3>5 DEF b
  <2>3. CASE /\ scope \subseteq Offers[profile]
             /\ s = Append(lineage[g], [[old EXCEPT !.scope = scope] EXCEPT !.consent = profile])
    <3> DEFINE b == [[old EXCEPT !.scope = scope] EXCEPT !.consent = profile]
    <3>1. b \in Body /\ b.consent = profile /\ b.scope = scope
      BY <1>1, <1>2, <1>3 DEF Body
    <3> HIDE DEF b
    <3>2. Proposal(Append(lineage[g], b))
      BY <1>1, <1>2, <1>3, <2>3, <3>1, ProposalAppends
    <3> QED BY <2>3, <3>2 DEF b
  <2> QED BY SMTT(40), <2>1, <2>2, <2>3
<1>4. ASSUME Updatable(g) PROVE Proposal(Revocation(g))
  <2> DEFINE b == [old EXCEPT !.status = "revoked"]
  <2>1. b \in Body /\ b.scope = old.scope /\ b.consent = old.consent
    BY <1>2, <1>4 DEF Body
  <2>2. b.scope \subseteq Offers[b.consent]
    BY <1>2, <1>4, <2>1
  <2> HIDE DEF b
  <2>3. Proposal(Append(lineage[g], b))
    BY <1>1, <1>2, <1>4, <2>1, <2>2, ProposalAppends
  <2> QED BY <2>3 DEF b, Revocation
<1>5. ASSUME NEW scope \in Scopes, scope \subseteq Offers[profile] PROVE Proposal(FirstRevision(scope))
  <2> DEFINE b == [status |-> "active", scope |-> scope, consent |-> profile]
  <2>1. b \in Body /\ b.scope = scope /\ b.consent = profile
    BY <1>1 DEF Body
  <2> HIDE DEF b
  <2>2. <<b>> \in Seq(Body) /\ Len(<<b>>) = 1 /\ <<b>>[1] = b /\ <<b>> # <<>>
    BY <2>1
  <2>3. <<b>> \in Chain
    <3>1. 1 <= MaxRevision
      BY GrantsAssumption DEF GrantsAssumption
    <3>2. Len(<<b>>) <= MaxRevision
      BY <2>2, <3>1
    <3> QED BY <2>2, <3>2, ChainIsSeq, Zenon
  <2>4. Covered(<<b>>)
    BY <1>5, <2>1, <2>2 DEF Covered
  <2> QED BY <2>2, <2>3, <2>4 DEF Proposal, FirstRevision, b
<1> QED BY <1>3, <1>4, <1>5

-----------------------------------------------------------------------------
(* The owner's side: every step replaces one approval by a good one, and   *)
(* either leaves the lineages alone or appends the approved revision.      *)

Grown(a) ==
    LET g == actor[a].grant
        s == actor[a].rep
    IN /\ g \in Grants
       /\ Proposal(s)
       /\ Follows(s, lineage[g])
       /\ lineage' = [lineage EXCEPT ![g] = s]
       /\ pub' = [pub EXCEPT ![g] = Append(@, Fresh)]

OwnerKind(a) ==
    /\ \E y : GoodApproval(y) /\ actor' = [actor EXCEPT ![a] = y]
    /\ lock' \in Browser \cup {None}
    /\ faults' \in 0 .. MaxFaults
    /\ UNCHANGED <<profile, wireVars, grantee, fenced>>
    /\ UNCHANGED <<lineage, pub>> \/ Grown(a)

LEMMA EmptyChain ==
    <<>> \in Chain /\ Covered(<<>>)
<1>1. <<>> \in Seq(Body) /\ Len(<<>>) = 0
  BY EmptySeq
<1>2. 0 <= MaxRevision
  BY GrantsAssumption DEF GrantsAssumption
<1>3. Len(<<>>) <= MaxRevision
  BY <1>1, <1>2
<1>4. <<>> \in Chain
  BY <1>1, <1>3, ChainIsSeq, Zenon
<1> QED BY <1>1, <1>4 DEF Covered

LEMMA GoodApprovals ==
    /\ GoodApproval(Idle)
    /\ \A at \in {"approved", "checked", "written"}, g \in Grants : \A s :
         Proposal(s) => GoodApproval([at |-> at, grant |-> g, rep |-> s])
    /\ \A g \in Grants : \A s :
         Proposal(s) /\ Active(s) /\ Len(s) < MaxRevision
           => GoodApproval([at |-> "based", grant |-> g, rep |-> s])
  BY EmptyChain DEF GoodApproval, Idle, Approval, Proposal

LEMMA FaultBounded ==
    ASSUME TypeOK, NEW kind, Fault(kind)
    PROVE  faults' \in 0 .. MaxFaults
  BY GrantsAssumption DEF TypeOK, Fault, GrantsAssumption

LEMMA OwnerKinds ==
    ASSUME IndInv, OwnerStep
    PROVE  \E a \in Actors : OwnerKind(a)
<1>0. PICK a \in Actors :
        \/ PrepareAllow(a) \/ PrepareUpdate(a) \/ PrepareRevoke(a) \/ Expire(a)
        \/ CliCreate(a) \/ CliSaveBase(a) \/ CliUpdate(a) \/ CliRevoke(a) \/ CliSubmitted(a)
        \/ CommitReads(a) \/ CommitWrites(a) \/ CommitSaves(a) \/ CommitCrash(a)
  BY DEF OwnerStep
<1> USE DEF OwnerKind
<1>1. /\ TypeOK /\ LineagesCovered
      /\ lock \in Browser \cup {None}
      /\ faults \in 0 .. MaxFaults
      /\ GoodApproval(actor[a])
      /\ Unlocked(a) \in Browser \cup {None}
  BY DEF IndInv, TypeOK, ApprovalsAgree, Unlocked
<1>2. ASSUME actor[a].at # "idle"
      PROVE  actor[a].grant \in Grants /\ Proposal(actor[a].rep)
  BY <1>1, <1>2 DEF GoodApproval, Approval, Proposal
<1>3. ASSUME NEW g \in Grants, Active(lineage[g]) \/ Revoked(lineage[g])
      PROVE  Proposal(lineage[g])
  BY <1>1, <1>3 DEF Proposal, TypeOK, LineagesCovered, Active, Revoked
<1>4. CASE PrepareAllow(a)
  <2>1. PICK g \in Grants, scope \in Scopes :
          ProposedAllow(g, scope) /\ Hold(a, "approved", g, FirstRevision(scope))
    BY <1>4 DEF PrepareAllow
  <2>2. Proposal(FirstRevision(scope))
    BY <1>1, <2>1, Proposals DEF ProposedAllow, Offered
  <2> QED BY <1>1, <1>4, <2>1, <2>2, GoodApprovals DEF PrepareAllow, Hold
<1>5. CASE PrepareUpdate(a)
  <2>0. PICK g \in Grants :
          Updatable(g) /\ \E s \in ProposedUpdates(g) : Hold(a, "approved", g, s)
    BY <1>5 DEF PrepareUpdate
  <2>1. PICK s \in ProposedUpdates(g) : Updatable(g) /\ Hold(a, "approved", g, s)
    BY <2>0
  <2>2. Proposal(s)
    BY <1>1, <2>1, Proposals
  <2> QED BY <1>1, <1>5, <2>1, <2>2, GoodApprovals DEF PrepareUpdate, Hold
<1>6. CASE PrepareRevoke(a)
  <2>1. PICK g \in Grants : Updatable(g) /\ Hold(a, "approved", g, Revocation(g))
    BY <1>6 DEF PrepareRevoke
  <2>2. Proposal(Revocation(g))
    BY <1>1, <2>1, Proposals
  <2> QED BY <1>1, <1>6, <2>1, <2>2, GoodApprovals DEF PrepareRevoke, Hold
<1>7. CASE Expire(a)
  BY <1>1, <1>7, GoodApprovals DEF Expire
<1>8. CASE CliCreate(a)
  <2>1. PICK g \in Grants, scope \in Scopes :
          ProposedAllow(g, scope) /\ Hold(a, "approved", g, FirstRevision(scope))
    BY <1>8 DEF CliCreate
  <2>2. Proposal(FirstRevision(scope))
    BY <1>1, <2>1, Proposals DEF ProposedAllow, Offered
  <2> QED BY <1>1, <1>8, <2>1, <2>2, GoodApprovals DEF CliCreate, Hold
<1>9. CASE CliSaveBase(a)
  <2>1. PICK g \in Grants : Updatable(g) /\ Hold(a, "based", g, lineage[g])
    BY <1>9 DEF CliSaveBase
  <2>2. Proposal(lineage[g])
    BY <1>3, <2>1 DEF Updatable
  <2> QED BY <1>1, <1>9, <2>1, <2>2, GoodApprovals DEF CliSaveBase, Hold, Updatable
<1>10. CASE CliUpdate(a)
  <2> DEFINE g == actor[a].grant
  <2>1. /\ g \in Grants /\ lineage[g] = actor[a].rep /\ Proposal(actor[a].rep)
        /\ \E s \in ProposedUpdates(g) : Reviewed(actor[a].rep, s) /\ Hold(a, "approved", g, s)
    BY <1>2, <1>10 DEF CliUpdate
  <2>4. Updatable(g)
    BY <1>1, <1>10, <2>1 DEF CliUpdate, GoodApproval, Updatable
  <2>2. PICK s \in ProposedUpdates(g) : Reviewed(actor[a].rep, s) /\ Hold(a, "approved", g, s)
    BY <2>1
  <2>3. Proposal(s)
    BY <1>1, <2>1, <2>2, <2>4, Proposals
  <2> QED BY <1>1, <1>10, <2>1, <2>2, <2>3, GoodApprovals DEF CliUpdate, Hold
<1>11. CASE CliRevoke(a)
  <2>1. PICK g \in Grants :
          \/ Updatable(g) /\ Hold(a, "approved", g, Revocation(g))
          \/ Revoked(lineage[g]) /\ Hold(a, "approved", g, lineage[g])
    BY <1>11 DEF CliRevoke
  <2>2. PICK s : Proposal(s) /\ Hold(a, "approved", g, s)
    BY <1>1, <1>3, <2>1, Proposals
  <2> QED BY <1>1, <1>11, <2>2, GoodApprovals DEF CliRevoke, Hold
<1>12. CASE CliSubmitted(a)
  <2>1. actor[a].grant \in Grants /\ Proposal(actor[a].rep)
    BY <1>2, <1>12 DEF CliSubmitted
  <2> QED BY <1>1, <1>12, <2>1, GoodApprovals DEF CliSubmitted, Hold
<1>13. CASE CommitReads(a)
  <2>1. actor[a].grant \in Grants /\ Proposal(actor[a].rep)
    BY <1>2, <1>13 DEF CommitReads
  <2>2. PICK at \in {"written", "checked"} : Hold(a, at, actor[a].grant, actor[a].rep)
    BY <1>13 DEF CommitReads
  <2> QED BY <1>1, <1>13, <2>1, <2>2, GoodApprovals DEF CommitReads, Hold
<1>14. CASE CommitWrites(a)
  <2>1. actor[a].grant \in Grants /\ Proposal(actor[a].rep)
    BY <1>2, <1>14 DEF CommitWrites
  <2>2. PICK at \in {"written", "approved"} : Hold(a, at, actor[a].grant, actor[a].rep)
    BY <1>14 DEF CommitWrites
  <2>3. UNCHANGED <<lineage, pub>> \/ Grown(a)
    BY <1>14, <2>1 DEF CommitWrites, Grown, Appends
  <2>4. lock' \in Browser \cup {None}
    BY <1>1, <1>14 DEF CommitWrites
  <2> QED BY <1>1, <1>14, <2>1, <2>2, <2>3, <2>4, GoodApprovals DEF CommitWrites, Hold
<1>15. CASE CommitSaves(a)
  BY <1>1, <1>15, GoodApprovals DEF CommitSaves
<1>16. CASE CommitCrash(a)
  <2>1. actor[a].grant \in Grants /\ Proposal(actor[a].rep)
    BY <1>2, <1>16 DEF CommitCrash
  <2>2. faults' \in 0 .. MaxFaults
    BY <1>1, <1>16, FaultBounded DEF CommitCrash
  <2> QED BY <1>1, <1>16, <2>1, <2>2, GoodApprovals DEF CommitCrash, Hold
<1> QED
  BY <1>0, <1>4, <1>5, <1>6, <1>7, <1>8, <1>9, <1>10, <1>11, <1>12, <1>13, <1>14, <1>15, <1>16

-----------------------------------------------------------------------------
(* Preservation of the invariant.                                          *)

(* A request stays good while what was signed and what is held grow.       *)
LEMMA RequestKept ==
    ASSUME NEW x \in Put, NEW s \in Chain, NEW t \in Chain, NEW h \in Chain, NEW k \in Chain,
           GoodRequest(x, s, h), IsPrefix(s, t), Len(h) <= Len(k)
    PROVE  GoodRequest(x, t, k)
<1>1. /\ x.rep \in Seq(Body) /\ s \in Seq(Body) /\ t \in Seq(Body)
      /\ Len(x.rep) \in Nat /\ Len(h) \in Nat /\ Len(k) \in Nat
  BY ChainIsSeq, LenProperties DEF Put
<1>2. IsPrefix(x.rep, s) => IsPrefix(x.rep, t)
  BY <1>1, PrefixOrder
<1> QED BY <1>1, <1>2 DEF GoodRequest

LEMMA HeldIsChain ==
    ASSUME TypeOK, NEW g \in Grants
    PROVE  Held(g) \in Chain
  BY EmptyChain DEF TypeOK, Held

LEMMA LineagesGrow ==
    ASSUME TypeOK, NEW a \in Actors, Grown(a), UNCHANGED copyVars
    PROVE  /\ lineage' \in [Grants -> Chain]
           /\ \A g \in Grants : /\ IsPrefix(lineage[g], lineage'[g])
                                /\ Len(Held(g)) <= Len(Held(g)')
                                /\ pub'[g] \in Seq(Publication)
                                /\ Len(pub'[g]) = Len(lineage'[g])
                                /\ \A n \in 1 .. Len(pub'[g]) :
                                     \/ n \in 1 .. Len(pub[g]) /\ pub'[g][n] = pub[g][n]
                                     \/ pub'[g][n].state = "pending"
           /\ pub' \in [Grants -> Seq(Publication)]
<1> DEFINE f == actor[a].grant
           s == actor[a].rep
<1>1. /\ f \in Grants /\ s \in Chain /\ s # <<>>
      /\ Prev(s) = lineage[f]
      /\ lineage' = [lineage EXCEPT ![f] = s]
      /\ pub' = [pub EXCEPT ![f] = Append(@, Fresh)]
  BY DEF Grown, Proposal, Follows
<1>2. /\ lineage \in [Grants -> Chain] /\ received \in [Grants -> Chain]
      /\ pub \in [Grants -> Seq(Publication)]
      /\ \A g \in Grants : Len(pub[g]) = Len(lineage[g])
  BY DEF TypeOK
<1> HIDE DEF f, s
<1>3. Fresh \in Publication /\ Fresh.state = "pending"
  BY DEF Fresh, Publication
<1>4. /\ Len(s) \in Nat \ {0} /\ Len(lineage[f]) = Len(s) - 1 /\ IsPrefix(lineage[f], s)
  BY <1>1, ChainIsSeq, PrevIsPrefix
<1>5. lineage' \in [Grants -> Chain]
  BY <1>1, <1>2
<1>6. ASSUME NEW g \in Grants
      PROVE  IsPrefix(lineage[g], lineage'[g]) /\ Len(lineage[g]) <= Len(lineage'[g])
  <2>1. CASE g = f
    BY <1>1, <1>2, <1>4, <2>1 DEF IsPrefix
  <2>2. CASE g # f
    <3>1. lineage'[g] = lineage[g] /\ lineage[g] \in Seq(Body)
      BY <1>1, <1>2, <2>2, ChainIsSeq
    <3> QED BY <3>1, PrefixOrder, LenProperties
  <2> QED BY <2>1, <2>2
<1>7. ASSUME NEW g \in Grants PROVE Len(Held(g)) <= Len(Held(g)')
  <2>1. Len(received[g]) \in Nat /\ Len(<<>>) = 0
    BY <1>2, ChainIsSeq, LenProperties
  <2> QED BY <1>6, <2>1 DEF Held, copyVars
<1>8. ASSUME NEW g \in Grants
      PROVE  /\ pub'[g] \in Seq(Publication)
             /\ Len(pub'[g]) = Len(lineage'[g])
             /\ \A n \in 1 .. Len(pub'[g]) :
                  \/ n \in 1 .. Len(pub[g]) /\ pub'[g][n] = pub[g][n]
                  \/ pub'[g][n].state = "pending"
  <2>1. pub[g] \in Seq(Publication) /\ Len(pub[g]) \in Nat
    BY <1>2, LenProperties
  <2>2. CASE g = f
    <3>1. pub'[g] = Append(pub[g], Fresh) /\ lineage'[g] = s
      BY <1>1, <1>2, <2>2
    <3>2. /\ Append(pub[g], Fresh) \in Seq(Publication)
          /\ Len(Append(pub[g], Fresh)) = Len(pub[g]) + 1
          /\ \A i \in 1 .. Len(pub[g]) : Append(pub[g], Fresh)[i] = pub[g][i]
          /\ Append(pub[g], Fresh)[Len(pub[g]) + 1] = Fresh
      BY <1>3, <2>1, AppendProperties
    <3>3. Len(pub[g]) = Len(s) - 1
      BY <1>2, <1>4, <2>2
    <3> QED BY <1>3, <1>4, <2>1, <3>1, <3>2, <3>3
  <2>3. CASE g # f
    <3>1. pub'[g] = pub[g] /\ lineage'[g] = lineage[g]
      BY <1>1, <1>2, <2>3
    <3> QED BY <1>2, <2>1, <3>1
  <2> QED BY <2>2, <2>3
<1>9. pub' \in [Grants -> Seq(Publication)]
  BY <1>1, <1>2, <1>8
<1> QED BY <1>5, <1>6, <1>7, <1>8, <1>9

LEMMA OwnerInv ==
    ASSUME IndInv, OwnerStep
    PROVE  IndInv'
<1>1. PICK a \in Actors : OwnerKind(a)
  BY OwnerKinds
<1>2. PICK y : GoodApproval(y) /\ actor' = [actor EXCEPT ![a] = y]
  BY <1>1 DEF OwnerKind
<1>3. /\ lock' \in Browser \cup {None} /\ faults' \in 0 .. MaxFaults
      /\ UNCHANGED <<profile, sender, request, received, collocated, held, grantee, fenced>>
  BY <1>1 DEF OwnerKind, wireVars, copyVars
<1>4. TypeOK /\ ReceivedIsPrefix /\ AcknowledgedIsHeld /\ RequestsAgree /\ LineagesCovered
  BY DEF IndInv
<1>5. actor' \in [Actors -> Approval] /\ ApprovalsAgree'
  BY <1>2, <1>4 DEF TypeOK, IndInv, ApprovalsAgree, GoodApproval
<1>6. SendersAgree'
  BY <1>3 DEF IndInv, SendersAgree, Waits
<1>7. CASE UNCHANGED <<lineage, pub>>
  <2>1. TypeOK'
    BY <1>3, <1>4, <1>5, <1>7 DEF TypeOK
  <2>2. \A g : Held(g)' = Held(g)
    BY <1>3, <1>7 DEF Held
  <2>3. LineagesCovered' /\ ReceivedIsPrefix' /\ AcknowledgedIsHeld'
    BY <1>3, <1>4, <1>7, <2>2 DEF LineagesCovered, ReceivedIsPrefix, AcknowledgedIsHeld
  <2>4. RequestsAgree'
    BY <1>3, <1>4, <1>7, <2>2 DEF RequestsAgree
  <2> QED BY <1>5, <1>6, <2>1, <2>3, <2>4 DEF IndInv
<1>8. CASE Grown(a)
  <2>1. /\ lineage' \in [Grants -> Chain]
        /\ pub' \in [Grants -> Seq(Publication)]
        /\ \A g \in Grants : /\ IsPrefix(lineage[g], lineage'[g])
                             /\ Len(Held(g)) <= Len(Held(g)')
                             /\ Len(pub'[g]) = Len(lineage'[g])
                             /\ \A n \in 1 .. Len(pub'[g]) :
                                  \/ n \in 1 .. Len(pub[g]) /\ pub'[g][n] = pub[g][n]
                                  \/ pub'[g][n].state = "pending"
    BY <1>3, <1>4, <1>8, LineagesGrow DEF copyVars
  <2>2. TypeOK'
    BY <1>3, <1>4, <1>5, <2>1 DEF TypeOK
  <2>3. LineagesCovered'
    BY <1>4, <1>8 DEF LineagesCovered, Grown, Proposal, TypeOK
  <2>4. RequestsAgree'
    <3> SUFFICES ASSUME NEW r \in Requests
                 PROVE  GoodRequest(request[r], lineage'[request[r].grant], Held(request[r].grant)')
      BY <1>3 DEF RequestsAgree, Held
    <3> DEFINE g == request[r].grant
    <3>1. CASE request[r].at = "free"
      BY <3>1 DEF GoodRequest
    <3>2. CASE request[r].at # "free"
      <4>1. request[r] \in Put /\ g \in Grants /\ GoodRequest(request[r], lineage[g], Held(g))
        BY <1>4, <3>2 DEF TypeOK, RequestsAgree, GoodRequest
      <4>2. /\ lineage[g] \in Chain /\ lineage'[g] \in Chain /\ received[g] \in Chain
            /\ IsPrefix(lineage[g], lineage'[g])
        BY <1>4, <2>1, <4>1 DEF TypeOK
      <4>3. Held(g) \in Chain
        BY <4>2, EmptyChain DEF Held
      <4> DEFINE k == IF collocated THEN IF g \in held THEN lineage'[g] ELSE <<>> ELSE received[g]
      <4>4. k = Held(request[r].grant)'
        BY <1>3 DEF Held
      <4>5. k \in Chain
        BY <4>2, EmptyChain
      <4>6. Len(Held(g)) <= Len(k)
        BY <1>3, <2>1, <4>1 DEF Held
      <4> HIDE DEF k
      <4>7. GoodRequest(request[r], lineage'[g], k)
        BY <4>1, <4>2, <4>3, <4>5, <4>6, RequestKept
      <4> QED BY <4>4, <4>7
    <3> QED BY <3>1, <3>2
  <2>5. ReceivedIsPrefix'
    <3> SUFFICES ASSUME NEW g \in Grants PROVE IsPrefix(received[g], lineage'[g])
      BY <1>3 DEF ReceivedIsPrefix
    <3>1. received[g] \in Seq(Body) /\ lineage[g] \in Seq(Body) /\ lineage'[g] \in Seq(Body)
      BY <1>4, <2>1, ChainIsSeq DEF TypeOK
    <3>2. IsPrefix(received[g], lineage[g])
      BY <1>4 DEF ReceivedIsPrefix
    <3> QED BY <2>1, <3>1, <3>2, PrefixOrder
  <2>6. AcknowledgedIsHeld'
    <3> SUFFICES ASSUME NEW g \in Grants, NEW n \in 1 .. Len(pub'[g]),
                        pub'[g][n].state = "acknowledged"
                 PROVE  Len(Held(g)') >= n
      BY DEF AcknowledgedIsHeld
    <3>1. n \in 1 .. Len(pub[g]) /\ pub'[g][n] = pub[g][n]
      BY <2>1
    <3>2. Len(Held(g)) >= n
      BY <1>4, <3>1 DEF AcknowledgedIsHeld
    <3>3. Held(g) \in Seq(Body) /\ Held(g)' \in Seq(Body)
      BY <1>4, <2>2, HeldIsChain, EmptyChain, ChainIsSeq DEF TypeOK, Held
    <3>4. Len(Held(g)) \in Nat /\ Len(Held(g)') \in Nat
      BY <3>3, LenProperties
    <3> QED BY <2>1, <3>2, <3>4
  <2> QED BY <1>5, <1>6, <2>2, <2>3, <2>4, <2>5, <2>6 DEF IndInv
<1> QED BY <1>1, <1>7, <1>8 DEF OwnerKind

-----------------------------------------------------------------------------
(* The publishers.                                                         *)

(* One publication row is replaced; it is acknowledged only if held.       *)
LEMMA RowReplaced ==
    ASSUME IndInv, NEW g \in Grants, NEW n \in 1 .. Len(pub[g]), NEW row \in Publication,
           row.state = "acknowledged" => pub[g][n].state = "acknowledged" \/ Len(Held(g)) >= n,
           pub' = [pub EXCEPT ![g][n] = row],
           UNCHANGED <<lineage, copyVars>>
    PROVE  /\ pub' \in [Grants -> Seq(Publication)]
           /\ \A f \in Grants : Len(pub'[f]) = Len(lineage'[f])
           /\ AcknowledgedIsHeld'
<1>1. /\ pub \in [Grants -> Seq(Publication)]
      /\ \A f \in Grants : Len(pub[f]) = Len(lineage[f])
      /\ AcknowledgedIsHeld
  BY DEF IndInv, TypeOK
<1>2. /\ pub'[g] = [pub[g] EXCEPT ![n] = row]
      /\ \A f \in Grants : f # g => pub'[f] = pub[f]
  BY <1>1
<1>3. /\ pub'[g] \in Seq(Publication)
      /\ Len(pub'[g]) = Len(pub[g])
      /\ \A j \in 1 .. Len(pub[g]) : pub'[g][j] = IF j = n THEN row ELSE pub[g][j]
  BY <1>1, <1>2, ExceptSeq
<1>4. pub' \in [Grants -> Seq(Publication)]
  BY <1>1, <1>2, <1>3
<1>5. \A f \in Grants : Len(pub'[f]) = Len(lineage'[f])
  BY <1>1, <1>2, <1>3
<1>6. \A f : Held(f)' = Held(f)
  BY DEF Held, copyVars
<1>7. ASSUME NEW f \in Grants, NEW m \in 1 .. Len(pub'[f]), pub'[f][m].state = "acknowledged"
      PROVE  Len(Held(f)) >= m
  <2>1. CASE f = g
    <3>1. m \in 1 .. Len(pub[g])
      BY <1>3, <2>1
    <3>2. CASE m = n
      BY <1>1, <1>3, <1>7, <2>1, <3>1, <3>2 DEF AcknowledgedIsHeld
    <3>3. CASE m # n
      BY <1>1, <1>3, <1>7, <2>1, <3>1, <3>3 DEF AcknowledgedIsHeld
    <3> QED BY <3>2, <3>3
  <2>2. CASE f # g
    BY <1>1, <1>2, <1>7, <2>2 DEF AcknowledgedIsHeld
  <2> QED BY <2>1, <2>2
<1>8. AcknowledgedIsHeld'
  BY <1>6, <1>7 DEF AcknowledgedIsHeld
<1> QED BY <1>4, <1>5, <1>8

(* What is left to show of a step that changes no lineage and no copy.     *)
LEMMA QuietInv ==
    ASSUME IndInv, UNCHANGED <<ownerVars, copyVars>>,
           pub' \in [Grants -> Seq(Publication)],
           \A g \in Grants : Len(pub'[g]) = Len(lineage'[g]),
           AcknowledgedIsHeld',
           sender' \in [Publishers -> Sending], request' \in [Requests -> Put],
           \A r \in Requests : GoodRequest(request'[r], lineage[request'[r].grant], Held(request'[r].grant)),
           SendersAgree',
           grantee' \in BOOLEAN, fenced' \in BOOLEAN, faults' \in 0 .. MaxFaults
    PROVE  IndInv'
<1>1. UNCHANGED <<lineage, profile, actor, lock, received, collocated, held>>
  BY DEF ownerVars, copyVars
<1>2. TypeOK'
  BY <1>1 DEF IndInv, TypeOK
<1>3. ApprovalsAgree' /\ LineagesCovered' /\ ReceivedIsPrefix'
  BY <1>1 DEF IndInv, ApprovalsAgree, LineagesCovered, ReceivedIsPrefix
<1>4. RequestsAgree'
  BY <1>1 DEF RequestsAgree, Held
<1> QED BY <1>2, <1>3, <1>4 DEF IndInv

(* The row a publisher works on.                                           *)
LEMMA SendersRow ==
    ASSUME IndInv, NEW p \in Publishers, sender[p] # Quiet
    PROVE  LET g == sender[p].grant
               n == Len(sender[p].rep)
               r == sender[p].request
           IN /\ g \in Grants
              /\ n \in 1 .. Len(pub[g])
              /\ r \in Requests /\ request[r].at # "free"
              /\ \A q \in Publishers : sender[q] # Quiet /\ sender[q].request = r => q = p
              /\ request[r].at = "answered" /\ request[r].answer \in Success => Len(Held(g)) >= n
<1> DEFINE g == sender[p].grant
           n == Len(sender[p].rep)
           r == sender[p].request
<1>1. /\ r \in Requests /\ request[r].at # "free"
      /\ request[r].grant = g /\ request[r].rep = sender[p].rep
      /\ \A q \in Publishers : sender[q] # Quiet /\ sender[q].request = r => q = p
  BY DEF IndInv, SendersAgree, Waits
<1>2. GoodRequest(request[r], lineage[g], Held(g))
  BY <1>1 DEF IndInv, RequestsAgree
<1>3. /\ g \in Grants
      /\ sender[p].rep # <<>>
      /\ IsPrefix(sender[p].rep, lineage[g])
      /\ request[r].at = "answered" /\ request[r].answer \in Success => n <= Len(Held(g))
  BY <1>1, <1>2 DEF GoodRequest
<1>4. sender[p].rep \in Seq(Body) /\ lineage[g] \in Seq(Body) /\ Held(g) \in Seq(Body)
      /\ Len(pub[g]) = Len(lineage[g])
  BY <1>3, ChainIsSeq, HeldIsChain DEF IndInv, TypeOK, Sending
<1>5. n \in Nat \ {0} /\ Len(lineage[g]) \in Nat /\ Len(Held(g)) \in Nat
  BY <1>3, <1>4, EmptySeq, LenProperties
<1>6. n <= Len(lineage[g])
  BY <1>3 DEF IsPrefix
<1> QED BY <1>1, <1>3, <1>4, <1>5, <1>6

LEMMA RowInTable ==
    ASSUME IndInv, NEW g \in Grants, NEW n \in 1 .. Len(pub[g])
    PROVE  pub[g][n] \in Publication /\ pub[g] \in Seq(Publication)
  BY ElementOfSeq DEF IndInv, TypeOK

LEMMA FinishedRow ==
    ASSUME IndInv, NEW p \in Publishers, sender[p] # Quiet,
           NEW state \in {"retry", "acknowledged", "blocked"},
           state = "acknowledged" => Len(Held(sender[p].grant)) >= Len(sender[p].rep),
           pub' = Finished(p, state),
           UNCHANGED <<lineage, copyVars>>
    PROVE  /\ pub' \in [Grants -> Seq(Publication)]
           /\ \A f \in Grants : Len(pub'[f]) = Len(lineage'[f])
           /\ AcknowledgedIsHeld'
<1> DEFINE g == sender[p].grant
           n == Len(sender[p].rep)
           mine == ~fenced /\ pub[g][n].holder = p /\ pub[g][n].live /\ pub[g][n].state \in {"pending", "retry"}
           row == IF mine THEN [Fresh EXCEPT !.state = state] ELSE pub[g][n]
<1>1. g \in Grants /\ n \in 1 .. Len(pub[g])
  BY SendersRow
<1>2. pub[g][n] \in Publication /\ pub \in [Grants -> Seq(Publication)]
  BY <1>1, RowInTable DEF IndInv, TypeOK
<1>3. [Fresh EXCEPT !.state = state] \in Publication /\ [Fresh EXCEPT !.state = state].state = state
  BY DEF Fresh, Publication
<1>4. row \in Publication
  BY <1>2, <1>3
<1>5. row.state = "acknowledged" => pub[g][n].state = "acknowledged" \/ Len(Held(g)) >= n
  BY <1>3
<1>6. pub' = [pub EXCEPT ![g][n] = row]
  BY DEF Finished
<1> HIDE DEF g, n, row
<1> QED BY <1>1, <1>4, <1>5, <1>6, RowReplaced

LEMMA FreeIsPut ==
    /\ Free \in Put /\ Quiet \in Sending
    /\ \A s, h : GoodRequest(Free, s, h)
  BY EmptyChain DEF Free, Quiet, Put, Sending, GoodRequest

(* A publisher stops waiting; the requests of the others are untouched.    *)
LEMMA SenderLeaves ==
    ASSUME IndInv, NEW p \in Publishers,
           sender' = [sender EXCEPT ![p] = Quiet],
           \A q \in Publishers \ {p} :
               sender[q] # Quiet => request'[sender[q].request] = request[sender[q].request]
    PROVE  sender' \in [Publishers -> Sending] /\ SendersAgree'
<1>1. sender \in [Publishers -> Sending] /\ \A q \in Publishers : Waits(q)
  BY DEF IndInv, TypeOK, SendersAgree
<1>2. sender' \in [Publishers -> Sending]
  BY <1>1, FreeIsPut
<1>3. sender'[p] = Quiet /\ \A q \in Publishers \ {p} : sender'[q] = sender[q]
  BY <1>1
<1>4. ASSUME NEW q \in Publishers PROVE Waits(q)'
  <2>1. CASE q = p
    BY <1>3, <2>1 DEF Waits, Quiet
  <2>2. CASE q # p
    BY <1>1, <1>3, <2>2 DEF Waits, Quiet
  <2> QED BY <2>1, <2>2
<1> QED BY <1>2, <1>4 DEF SendersAgree

LEMMA ClaimInv ==
    ASSUME IndInv, NEW g \in Grants, NEW p \in Publishers, NEW r \in Requests, Claim(g, p, r)
    PROVE  IndInv'
<1>1. PICK n \in 1 .. Len(pub[g]) :
        /\ pub' = [pub EXCEPT ![g][n].holder = p, ![g][n].live = TRUE]
        /\ sender' = [sender EXCEPT ![p] = [grant |-> g, rep |-> SubSeq(lineage[g], 1, n), request |-> r]]
        /\ request' = [request EXCEPT ![r] =
             [at |-> "arrived", grant |-> g, rep |-> SubSeq(lineage[g], 1, n), answer |-> "none"]]
  BY DEF Claim
<1>2. /\ sender[p] = Quiet /\ request[r].at = "free"
      /\ UNCHANGED <<ownerVars, copyVars, grantee, fenced, faults, lineage>>
  BY DEF Claim, ownerVars
<1> DEFINE s == SubSeq(lineage[g], 1, n)
           x == [grant |-> g, rep |-> s, request |-> r]
           y == [at |-> "arrived", grant |-> g, rep |-> s, answer |-> "none"]
           row == [pub[g][n] EXCEPT !.holder = p, !.live = TRUE]
<1>3. /\ lineage[g] \in Seq(Body) /\ Len(lineage[g]) <= MaxRevision /\ Len(lineage[g]) \in Nat
      /\ Len(pub[g]) = Len(lineage[g])
      /\ pub \in [Grants -> Seq(Publication)]
      /\ sender \in [Publishers -> Sending] /\ request \in [Requests -> Put]
      /\ grantee \in BOOLEAN /\ fenced \in BOOLEAN /\ faults \in 0 .. MaxFaults
  BY ChainIsSeq, LenProperties DEF IndInv, TypeOK
<1>4. s \in Seq(Body) /\ Len(s) = n /\ IsPrefix(s, lineage[g])
  BY <1>3, CutIsPrefix
<1>5. s \in Chain /\ s # <<>>
  <2>1. Len(s) <= MaxRevision /\ Len(s) # 0
    BY <1>3, <1>4, GrantsAssumption DEF GrantsAssumption
  <2>2. s \in Chain
    BY <1>4, <2>1, ChainIsSeq, Zenon
  <2>3. s # <<>>
    BY <2>1, EmptySeq
  <2> QED BY <2>2, <2>3
<1> HIDE DEF s
<1>6. x \in Sending /\ y \in Put /\ x # Quiet /\ x.request = r /\ y.at # "free"
  BY <1>5, GrantsAssumption DEF Sending, Put, Quiet, GrantsAssumption
<1>7. /\ sender' = [sender EXCEPT ![p] = x]
      /\ request' = [request EXCEPT ![r] = y]
      /\ sender'[p] = x /\ request'[r] = y
      /\ \A q \in Publishers \ {p} : sender'[q] = sender[q]
      /\ \A t \in Requests \ {r} : request'[t] = request[t]
      /\ sender' \in [Publishers -> Sending] /\ request' \in [Requests -> Put]
  BY <1>1, <1>3, <1>6 DEF s
<1>8. GoodRequest(y, lineage[g], Held(g)) /\ y.grant = g /\ x.grant = g /\ y.rep = x.rep
  BY <1>4, <1>5 DEF GoodRequest
<1>9. ASSUME NEW t \in Requests
      PROVE  GoodRequest(request'[t], lineage[request'[t].grant], Held(request'[t].grant))
  <2>1. CASE t = r
    BY <1>7, <1>8, <2>1
  <2>2. CASE t # r
    BY <1>7, <2>2 DEF IndInv, RequestsAgree
  <2> QED BY <2>1, <2>2
<1>10. SendersAgree'
  <2> SUFFICES ASSUME NEW q \in Publishers PROVE Waits(q)'
    BY DEF SendersAgree
  <2>1. \A o \in Publishers \ {p} : sender[o] # Quiet =>
          /\ sender[o].request \in Requests \ {r}
          /\ Waits(o)
    BY <1>2 DEF IndInv, SendersAgree, Waits
  <2> HIDE DEF x, y
  <2>2. CASE q = p
    BY <1>6, <1>7, <1>8, <2>1, <2>2 DEF Waits, Quiet
  <2>3. CASE q # p
    BY <1>6, <1>7, <1>8, <2>1, <2>3 DEF Waits, Quiet
  <2> QED BY <2>2, <2>3
<1>11. row \in Publication /\ row.state = pub[g][n].state
  BY ZenonT(60), RowInTable DEF Publication
<1>12. pub' = [pub EXCEPT ![g][n] = row]
  BY <1>1, <1>3
<1> HIDE DEF row
<1>13. /\ pub' \in [Grants -> Seq(Publication)]
       /\ \A f \in Grants : Len(pub'[f]) = Len(lineage'[f])
       /\ AcknowledgedIsHeld'
  BY <1>2, <1>11, <1>12, RowReplaced
<1> QED BY <1>2, <1>3, <1>7, <1>9, <1>10, <1>13, QuietInv

LEMMA PublisherInv ==
    ASSUME IndInv, PublisherStep
    PROVE  IndInv'
<1>1. /\ pub \in [Grants -> Seq(Publication)] /\ AcknowledgedIsHeld
      /\ sender \in [Publishers -> Sending] /\ request \in [Requests -> Put]
      /\ grantee \in BOOLEAN /\ fenced \in BOOLEAN /\ faults \in 0 .. MaxFaults
      /\ \A r \in Requests : GoodRequest(request[r], lineage[request[r].grant], Held(request[r].grant))
      /\ SendersAgree
      /\ \A g \in Grants : Len(pub[g]) = Len(lineage[g])
      /\ TypeOK
  BY DEF IndInv, TypeOK, RequestsAgree
<1>2. ASSUME NEW p \in Publishers, Finish(p) PROVE IndInv'
  <2> DEFINE r == sender[p].request
             answer == request[r].answer
             outcome == Outcome(sender[p].rep, answer)
  <2>1. /\ sender[p] # Quiet /\ request[r].at = "answered"
        /\ pub' = Finished(p, outcome)
        /\ request' = [request EXCEPT ![r] = Free]
        /\ sender' = [sender EXCEPT ![p] = Quiet]
        /\ UNCHANGED <<ownerVars, copyVars, grantee, fenced, faults, lineage>>
    BY <1>2 DEF Finish, ownerVars
  <2>2. /\ outcome \in {"retry", "acknowledged", "blocked"}
        /\ outcome = "acknowledged" => answer \in Success
    BY DEF Outcome, Success
  <2>3. /\ r \in Requests
        /\ \A q \in Publishers : sender[q] # Quiet /\ sender[q].request = r => q = p
        /\ outcome = "acknowledged" => Len(Held(sender[p].grant)) >= Len(sender[p].rep)
    BY <2>1, <2>2, SendersRow
  <2> HIDE DEF outcome
  <2>4. /\ pub' \in [Grants -> Seq(Publication)]
        /\ \A f \in Grants : Len(pub'[f]) = Len(lineage'[f])
        /\ AcknowledgedIsHeld'
    BY <2>1, <2>2, <2>3, FinishedRow
  <2>5. /\ request' \in [Requests -> Put]
        /\ request'[r] = Free /\ \A t \in Requests \ {r} : request'[t] = request[t]
    BY <1>1, <2>1, <2>3, FreeIsPut
  <2>6. ASSUME NEW t \in Requests
        PROVE  GoodRequest(request'[t], lineage[request'[t].grant], Held(request'[t].grant))
    BY <1>1, <2>5, FreeIsPut
  <2>7. ASSUME NEW q \in Publishers \ {p}, sender[q] # Quiet
        PROVE  request'[sender[q].request] = request[sender[q].request]
    BY <2>3, <2>5, <2>7, SendersRow
  <2>8. sender' \in [Publishers -> Sending] /\ SendersAgree'
    BY <2>1, <2>7, SenderLeaves
  <2> QED BY <1>1, <2>1, <2>4, <2>5, <2>6, <2>8, QuietInv
<1>3. ASSUME NEW p \in Publishers, TimeOut(p) PROVE IndInv'
  <2>1. /\ sender[p] # Quiet
        /\ pub' = Finished(p, "retry")
        /\ sender' = [sender EXCEPT ![p] = Quiet]
        /\ UNCHANGED <<ownerVars, request, copyVars, grantee, fenced, lineage>>
        /\ faults' \in 0 .. MaxFaults
    BY <1>1, <1>3, FaultBounded DEF TimeOut, ownerVars
  <2>2. /\ pub' \in [Grants -> Seq(Publication)]
        /\ \A f \in Grants : Len(pub'[f]) = Len(lineage'[f])
        /\ AcknowledgedIsHeld'
    BY <2>1, FinishedRow
  <2>3. sender' \in [Publishers -> Sending] /\ SendersAgree'
    BY <2>1, SenderLeaves
  <2> QED BY <1>1, <2>1, <2>2, <2>3, QuietInv
<1>4. ASSUME NEW p \in Publishers, PublisherCrash(p) PROVE IndInv'
  <2>1. /\ sender' = [sender EXCEPT ![p] = Quiet]
        /\ UNCHANGED <<ownerVars, pub, request, copyVars, grantee, fenced, lineage>>
        /\ faults' \in 0 .. MaxFaults
    BY <1>1, <1>4, FaultBounded DEF PublisherCrash, ownerVars
  <2>2. sender' \in [Publishers -> Sending] /\ SendersAgree'
    BY <2>1, SenderLeaves
  <2>3. AcknowledgedIsHeld'
    BY <1>1, <2>1 DEF AcknowledgedIsHeld, Held, copyVars
  <2> QED BY <1>1, <2>1, <2>2, <2>3, QuietInv
<1>5. ASSUME NEW g \in Grants, NEW n \in 1 .. Len(pub[g]), LeaseRunsOut(g, n) \/ LeaseOfTheDead(g, n)
      PROVE  IndInv'
  <2> DEFINE row == [pub[g][n] EXCEPT !.live = FALSE]
  <2>1. /\ pub' = [pub EXCEPT ![g][n].live = FALSE]
        /\ UNCHANGED <<ownerVars, sender, request, copyVars, grantee, fenced, lineage>>
        /\ faults' \in 0 .. MaxFaults
    BY <1>1, <1>5, FaultBounded DEF LeaseRunsOut, LeaseOfTheDead, ownerVars, wireVars
  <2>2. row \in Publication /\ row.state = pub[g][n].state
    BY ZenonT(60), RowInTable DEF Publication
  <2>3. pub' = [pub EXCEPT ![g][n] = row]
    BY <1>1, <2>1
  <2> HIDE DEF row
  <2>6. /\ UNCHANGED <<lineage, copyVars>>
        /\ row.state = "acknowledged" => pub[g][n].state = "acknowledged" \/ Len(Held(g)) >= n
    BY <2>1, <2>2
  <2>4. /\ pub' \in [Grants -> Seq(Publication)]
        /\ \A f \in Grants : Len(pub'[f]) = Len(lineage'[f])
        /\ AcknowledgedIsHeld'
    BY <2>2, <2>3, <2>6, RowReplaced
  <2>5. SendersAgree'
    BY <1>1, <2>1 DEF SendersAgree, Waits
  <2> QED BY <1>1, <2>1, <2>4, <2>5, QuietInv
<1> QED BY <1>2, <1>3, <1>4, <1>5, ClaimInv DEF PublisherStep

-----------------------------------------------------------------------------
(* The receiver.                                                           *)

(* A request moves on, and the copy may grow with it.                      *)
LEMMA RequestInv ==
    ASSUME IndInv, NEW r \in Requests, NEW y \in Put,
           request[r].at # "free", y.at # "free",
           y.grant = request[r].grant, y.rep = request[r].rep,
           request' = [request EXCEPT ![r] = y],
           UNCHANGED <<ownerVars, pub, sender, collocated, grantee, fenced>>,
           received' \in [Grants -> Chain], held' \subseteq Grants, ReceivedIsPrefix',
           \A g \in Grants : Len(Held(g)) <= Len(Held(g)'),
           y.at = "answered" /\ y.answer \in Success => Len(y.rep) <= Len(Held(y.grant)'),
           faults' \in 0 .. MaxFaults
    PROVE  IndInv'
<1>1. /\ UNCHANGED <<lineage, profile, actor, lock, pub, sender, collocated, grantee, fenced>>
      /\ request \in [Requests -> Put]
      /\ TypeOK /\ AcknowledgedIsHeld
      /\ \A t \in Requests : GoodRequest(request[t], lineage[request[t].grant], Held(request[t].grant))
  BY DEF ownerVars, IndInv, TypeOK, RequestsAgree
<1>2. /\ request'[r] = y /\ \A t \in Requests \ {r} : request'[t] = request[t]
      /\ request' \in [Requests -> Put]
  BY <1>1
<1>3. TypeOK'
  BY <1>1, <1>2 DEF TypeOK
<1>4. ApprovalsAgree' /\ LineagesCovered'
  BY <1>1 DEF IndInv, ApprovalsAgree, LineagesCovered
<1>5. \A g \in Grants : /\ Held(g) \in Chain /\ Held(g)' \in Chain
                        /\ Len(Held(g)) \in Nat /\ Len(Held(g)') \in Nat
  <2>1. ASSUME NEW g \in Grants PROVE Held(g) \in Chain /\ Held(g)' \in Chain
    BY <1>1, <1>3, EmptyChain DEF TypeOK, Held
  <2> QED BY <2>1, ChainIsSeq, LenProperties
<1>6. RequestsAgree'
  <2> SUFFICES ASSUME NEW t \in Requests
               PROVE  GoodRequest(request'[t], lineage[request'[t].grant], Held(request[t].grant)')
    BY <1>1 DEF RequestsAgree
  <2>1. PICK x : x = request'[t]
    OBVIOUS
  <2>2. PICK z : z = request[t]
    OBVIOUS
  <2>3. GoodRequest(z, lineage[z.grant], Held(z.grant)) /\ z \in Put
    BY <1>1, <2>2
  <2>4. CASE t = r
    <3>1. x = y /\ z.at # "free" /\ y.grant = z.grant /\ y.rep = z.rep
      BY <1>2, <2>1, <2>2, <2>4
    <3>2. GoodRequest(y, lineage[y.grant], Held(y.grant)')
      BY <2>3, <3>1 DEF GoodRequest
    <3> QED BY <2>1, <3>1, <3>2
  <2>5. CASE t # r
    <3>1. x = z
      BY <1>2, <2>1, <2>2, <2>5
    <3>2. CASE z.at = "free"
      BY <2>1, <3>1, <3>2 DEF GoodRequest
    <3>3. CASE z.at # "free"
      <4>1. z.grant \in Grants /\ lineage[z.grant] \in Chain
        BY <1>1, <2>3, <3>3 DEF GoodRequest, TypeOK
      <4>2. IsPrefix(lineage[z.grant], lineage[z.grant])
        BY <4>1, ChainIsSeq, PrefixOrder
      <4>3. GoodRequest(z, lineage[z.grant], Held(z.grant)')
        BY <1>5, <2>3, <4>1, <4>2, RequestKept
      <4> QED BY <2>1, <3>1, <4>3
    <3> QED BY <3>2, <3>3
  <2> QED BY <2>4, <2>5
<1>7. SendersAgree'
  BY <1>1, <1>2 DEF IndInv, SendersAgree, Waits
<1>8. AcknowledgedIsHeld'
  <2> SUFFICES ASSUME NEW g \in Grants, NEW n \in 1 .. Len(pub[g]), pub[g][n].state = "acknowledged"
               PROVE  Len(Held(g)') >= n
    BY <1>1 DEF AcknowledgedIsHeld
  <2>1. Len(Held(g)) >= n /\ n \in Int
    BY <1>1 DEF AcknowledgedIsHeld
  <2> QED BY <1>5, <2>1
<1> QED BY <1>3, <1>4, <1>6, <1>7, <1>8 DEF IndInv

(* ... when nothing is stored.                                             *)
LEMMA RequestQuiet ==
    ASSUME IndInv, NEW r \in Requests, NEW y \in Put,
           request[r].at # "free", y.at # "free",
           y.grant = request[r].grant, y.rep = request[r].rep,
           request' = [request EXCEPT ![r] = y],
           UNCHANGED <<ownerVars, pub, sender, copyVars, grantee, fenced>>,
           y.at = "answered" /\ y.answer \in Success => Len(y.rep) <= Len(Held(y.grant)),
           faults' \in 0 .. MaxFaults
    PROVE  IndInv'
<1>1. UNCHANGED <<lineage, received, held, collocated>>
  BY DEF ownerVars, copyVars
<1>2. /\ received' \in [Grants -> Chain] /\ held' \subseteq Grants
      /\ ReceivedIsPrefix'
  BY <1>1 DEF IndInv, TypeOK, ReceivedIsPrefix
<1>3. \A g : Held(g)' = Held(g)
  BY <1>1 DEF Held
<1>4. \A g \in Grants : Len(Held(g)) \in Nat
  BY HeldIsChain, ChainIsSeq, LenProperties DEF IndInv
<1>5. \A g \in Grants : Len(Held(g)) <= Len(Held(g)')
  BY <1>3, <1>4
<1> QED BY <1>1, <1>2, <1>3, <1>5, RequestInv

LEMMA MovedPut ==
    ASSUME NEW x \in Put, NEW y, NEW at \in {"authenticated", "accepting", "late"},
           y = [x EXCEPT !.at = at]
    PROVE  y \in Put /\ y.at = at /\ y.grant = x.grant /\ y.rep = x.rep
  BY DEF Put

(* An answer that claims no success, or one that the copy bears out.       *)
LEMMA AnswerInv ==
    ASSUME IndInv, NEW r \in Requests, request[r].at # "free",
           NEW answer \in {"created", "done", "exists", "conflict", "generic", "misdirected", "unavailable"},
           answer \in Success => Len(request[r].rep) <= Len(Held(request[r].grant)),
           Answer(r, answer),
           UNCHANGED <<ownerVars, pub, sender, copyVars, grantee, fenced>>,
           faults' \in 0 .. MaxFaults
    PROVE  IndInv'
<1>1. PICK y : y = [request[r] EXCEPT !.at = "answered", !.answer = answer]
  OBVIOUS
<1>2. request[r] \in Put /\ request \in [Requests -> Put]
  BY DEF IndInv, TypeOK
<1>3. y \in Put /\ y.at = "answered" /\ y.answer = answer
      /\ y.grant = request[r].grant /\ y.rep = request[r].rep
  BY <1>1, <1>2 DEF Put
<1>4. request' = [request EXCEPT ![r] = y]
  BY <1>1, <1>2 DEF Answer
<1>5. y.at # "free" /\ (y.answer \in Success => Len(y.rep) <= Len(Held(y.grant)))
  BY <1>3
<1> QED BY <1>3, <1>4, <1>5, RequestQuiet

LEMMA MoveInv ==
    ASSUME IndInv, NEW r \in Requests, request[r].at # "free",
           NEW at \in {"authenticated", "accepting", "late"},
           request' = [request EXCEPT ![r].at = at],
           UNCHANGED <<ownerVars, pub, sender, copyVars, grantee, fenced>>,
           faults' \in 0 .. MaxFaults
    PROVE  IndInv'
<1>1. PICK y : y = [request[r] EXCEPT !.at = at]
  OBVIOUS
<1>2. request[r] \in Put /\ request \in [Requests -> Put]
  BY DEF IndInv, TypeOK
<1>3. y \in Put /\ y.at = at /\ y.grant = request[r].grant /\ y.rep = request[r].rep
  BY <1>1, <1>2, MovedPut
<1>4. request' = [request EXCEPT ![r] = y]
  BY <1>1, <1>2
<1>5. y.at # "free" /\ y.at # "answered"
  BY <1>3
<1> QED BY <1>3, <1>4, <1>5, RequestQuiet

LEMMA AcceptInv ==
    ASSUME IndInv, NEW r \in Requests, Accept(r)
    PROVE  IndInv'
<1>1. PICK x : x = request[r]
  OBVIOUS
<1>2. PICK g : g = x.grant
  OBVIOUS
<1>3. PICK s : s = x.rep
  OBVIOUS
<1>4. PICK success : success = IF Len(s) = 1 THEN "created" ELSE "done"
  OBVIOUS
<1> DEFINE stored == IF collocated THEN IsPrefix(s, lineage[g]) ELSE IsPrefix(s, received[g])
           Said(answer) == IF x.at = "late" THEN "generic" ELSE answer
<1>5. /\ x.at \in {"accepting", "late"}
      /\ UNCHANGED <<ownerVars, pub, sender, collocated, grantee, fenced, faults, lineage>>
      /\ \/ /\ stored /\ Answer(r, Said(success))
            /\ held' = IF collocated THEN held \cup {g} ELSE held
            /\ UNCHANGED received
         \/ /\ ~stored /\ Follows(s, received[g]) /\ Answer(r, Said(success))
            /\ received' = [received EXCEPT ![g] = s]
            /\ UNCHANGED held
         \/ /\ \E answer \in {"conflict", "unavailable"} : Answer(r, Said(answer))
            /\ UNCHANGED <<received, held>>
  BY <1>1, <1>2, <1>3, <1>4 DEF Accept, ownerVars
<1>6. /\ x \in Put /\ request \in [Requests -> Put]
      /\ g \in Grants /\ s # <<>> /\ IsPrefix(s, lineage[g])
      /\ s \in Chain /\ lineage \in [Grants -> Chain] /\ received \in [Grants -> Chain]
      /\ held \subseteq Grants /\ collocated \in BOOLEAN
      /\ faults' \in 0 .. MaxFaults
  BY <1>1, <1>2, <1>3, <1>5 DEF IndInv, TypeOK, RequestsAgree, GoodRequest, Put
<1>7. \A f \in Grants : Len(lineage[f]) \in Nat /\ Len(received[f]) \in Nat
  BY <1>6, ChainIsSeq, LenProperties
<1>8. Len(s) \in Nat \ {0} /\ Len(<<>>) = 0
  BY <1>6, ChainIsSeq, EmptySeq
<1>9. Said(success) \in {"created", "done", "generic"}
  BY <1>4
<1>13. \A y, answer : y = [x EXCEPT !.at = "answered", !.answer = answer] /\ Answer(r, answer)
          => request' = [request EXCEPT ![r] = y]
  BY <1>1, <1>6 DEF Answer
<1> HIDE DEF Said
<1>10. CASE /\ stored /\ Answer(r, Said(success))
            /\ held' = IF collocated THEN held \cup {g} ELSE held
            /\ UNCHANGED received
  <2>1. PICK y : y = [x EXCEPT !.at = "answered", !.answer = Said(success)]
    OBVIOUS
  <2>2. /\ y \in Put /\ y.at = "answered" /\ y.grant = g /\ y.rep = s
        /\ request' = [request EXCEPT ![r] = y]
    BY <1>2, <1>3, <1>6, <1>9, <1>10, <1>13, <2>1 DEF Put
  <2>3. \A f \in Grants : Len(Held(f)) <= Len(Held(f)')
    BY <1>5, <1>7, <1>8, <1>10 DEF Held
  <2>4. Len(s) <= Len(Held(g)')
    BY <1>5, <1>6, <1>10 DEF Held, IsPrefix
  <2>5. received' \in [Grants -> Chain] /\ held' \subseteq Grants /\ ReceivedIsPrefix'
    BY <1>5, <1>6, <1>10 DEF ReceivedIsPrefix, IndInv
  <2> QED BY <1>1, <1>2, <1>3, <1>5, <1>6, <2>2, <2>3, <2>4, <2>5, RequestInv
<1>11. CASE /\ ~stored /\ Follows(s, received[g]) /\ Answer(r, Said(success))
            /\ received' = [received EXCEPT ![g] = s]
            /\ UNCHANGED held
  <2>1. ~collocated /\ Prev(s) = received[g]
    BY <1>6, <1>11 DEF Follows
  <2>2. PICK y : y = [x EXCEPT !.at = "answered", !.answer = Said(success)]
    OBVIOUS
  <2>3. /\ y \in Put /\ y.at = "answered" /\ y.grant = g /\ y.rep = s
        /\ request' = [request EXCEPT ![r] = y]
    BY <1>2, <1>3, <1>6, <1>9, <1>11, <1>13, <2>2 DEF Put
  <2>4. received'[g] = s /\ \A f \in Grants \ {g} : received'[f] = received[f]
    BY <1>6, <1>11
  <2>5. Len(received[g]) = Len(s) - 1
    BY <1>6, <2>1, ChainIsSeq, PrevIsPrefix
  <2>6. \A f \in Grants : Len(Held(f)) <= Len(Held(f)')
    BY <1>5, <1>7, <1>8, <2>1, <2>4, <2>5 DEF Held
  <2>7. Len(s) <= Len(Held(g)')
    BY <1>5, <1>8, <2>1, <2>4 DEF Held
  <2>8. received' \in [Grants -> Chain] /\ held' \subseteq Grants
    BY <1>6, <1>11
  <2>9. ReceivedIsPrefix'
    BY <1>5, <1>6, <2>4 DEF ReceivedIsPrefix, IndInv
  <2> QED BY <1>1, <1>2, <1>3, <1>5, <1>6, <2>3, <2>6, <2>7, <2>8, <2>9, RequestInv
<1>12. CASE /\ \E answer \in {"conflict", "unavailable"} : Answer(r, Said(answer))
            /\ UNCHANGED <<received, held>>
  <2>1. PICK answer \in {"conflict", "unavailable", "generic"} : Answer(r, answer)
    BY <1>12 DEF Said
  <2>2. answer \notin Success /\ UNCHANGED copyVars /\ request[r].at # "free"
    BY <1>1, <1>5, <1>12, <2>1 DEF Success, copyVars
  <2> QED BY <1>5, <1>6, <2>1, <2>2, AnswerInv
<1> QED BY <1>5, <1>10, <1>11, <1>12

LEMMA ReceiverInv ==
    ASSUME IndInv, ReceiverStep
    PROVE  IndInv'
<1>1. TypeOK /\ faults \in 0 .. MaxFaults /\ request \in [Requests -> Put]
  BY DEF IndInv, TypeOK
<1>2. ASSUME NEW r \in Requests, Authenticate(r) PROVE IndInv'
  <2>1. /\ request[r].at # "free" /\ UNCHANGED <<ownerVars, pub, sender, copyVars, grantee, fenced>>
        /\ faults' \in 0 .. MaxFaults
        /\ \/ request' = [request EXCEPT ![r].at = "authenticated"]
           \/ Answer(r, "generic") \/ Answer(r, "misdirected")
    BY <1>1, <1>2, FaultBounded DEF Authenticate
  <2>2. "generic" \notin Success /\ "misdirected" \notin Success
    BY DEF Success
  <2> QED BY <2>1, <2>2, MoveInv, AnswerInv
<1>3. ASSUME NEW r \in Requests, ReadCurrent(r) PROVE IndInv'
  <2> DEFINE s == request[r].rep
             now == Held(request[r].grant)
  <2>1. /\ request[r].at # "free" /\ UNCHANGED <<ownerVars, pub, sender, copyVars, grantee, fenced>>
        /\ faults' \in 0 .. MaxFaults
        /\ \/ s = now /\ Answer(r, Repeated(s))
           \/ Answer(r, "conflict")
           \/ request' = [request EXCEPT ![r].at = "accepting"]
    BY <1>1, <1>3 DEF ReadCurrent
  <2>2. "conflict" \notin Success /\ Repeated(s) \in {"exists", "done"}
    BY DEF Success, Repeated
  <2>3. Len(s) \in Nat
    BY <1>1, ChainIsSeq, LenProperties DEF Put
  <2>4. CASE s = now /\ Answer(r, Repeated(s))
    BY <2>1, <2>2, <2>3, <2>4, AnswerInv
  <2>5. CASE Answer(r, "conflict")
    BY <2>1, <2>2, <2>5, AnswerInv
  <2>6. CASE request' = [request EXCEPT ![r].at = "accepting"]
    BY <2>1, <2>6, MoveInv
  <2> QED BY <2>1, <2>4, <2>5, <2>6
<1>4. ASSUME NEW r \in Requests, DeadlinePasses(r) PROVE IndInv'
  <2>1. /\ request[r].at # "free" /\ UNCHANGED <<ownerVars, pub, sender, copyVars, grantee, fenced>>
        /\ faults' \in 0 .. MaxFaults
        /\ Answer(r, "generic") \/ request' = [request EXCEPT ![r].at = "late"]
    BY <1>1, <1>4, FaultBounded DEF DeadlinePasses
  <2>2. "generic" \notin Success
    BY DEF Success
  <2> QED BY <2>1, <2>2, MoveInv, AnswerInv
<1>5. ASSUME NEW r \in Requests, DropAnswer(r) PROVE IndInv'
  <2>1. /\ \A p \in Publishers : sender[p].request # r
        /\ request' = [request EXCEPT ![r] = Free]
        /\ UNCHANGED <<ownerVars, pub, sender, copyVars, grantee, fenced, faults, lineage>>
    BY <1>5 DEF DropAnswer, ownerVars
  <2>2. /\ request'[r] = Free /\ \A t \in Requests \ {r} : request'[t] = request[t]
        /\ request' \in [Requests -> Put]
    BY <1>1, <2>1, FreeIsPut
  <2>3. ASSUME NEW t \in Requests
        PROVE  GoodRequest(request'[t], lineage[request'[t].grant], Held(request'[t].grant))
    <3>1. CASE t = r
      BY <2>2, <3>1, FreeIsPut
    <3>2. CASE t # r
      BY <2>2, <3>2 DEF IndInv, RequestsAgree
    <3> QED BY <3>1, <3>2
  <2>4. SendersAgree'
    BY <2>1, <2>2 DEF IndInv, SendersAgree, Waits
  <2>5. AcknowledgedIsHeld'
    BY <2>1 DEF IndInv, AcknowledgedIsHeld, Held, copyVars
  <2>6. /\ pub' \in [Grants -> Seq(Publication)] /\ sender' \in [Publishers -> Sending]
        /\ \A g \in Grants : Len(pub'[g]) = Len(lineage'[g])
        /\ grantee' \in BOOLEAN /\ fenced' \in BOOLEAN /\ faults' \in 0 .. MaxFaults
    BY <1>1, <2>1 DEF TypeOK
  <2> QED BY <2>1, <2>2, <2>3, <2>4, <2>5, <2>6, QuietInv
<1> QED BY <1>2, <1>3, <1>4, <1>5, AcceptInv DEF ReceiverStep

-----------------------------------------------------------------------------
(* The theorems.                                                           *)

LEMMA InitInv ==
    ASSUME Init
    PROVE  IndInv
<1>1. TypeOK
  <2>1. 1 \in Versions
    <3>1. Len(Offers) \in Nat \ {0}
      BY GrantsAssumption, EmptySeq DEF GrantsAssumption
    <3> QED BY <3>1 DEF Versions
  <2>2. <<>> \in Seq(Publication) /\ Len(<<>>) = 0
    BY EmptySeq
  <2>3. Idle \in Approval
    BY GoodApprovals DEF GoodApproval
  <2>4. 0 \in 0 .. MaxFaults
    BY GrantsAssumption DEF GrantsAssumption
  <2> QED BY <2>1, <2>2, <2>3, <2>4, EmptyChain, FreeIsPut DEF Init, TypeOK
<1>2. ApprovalsAgree /\ LineagesCovered
  BY GoodApprovals, EmptyChain DEF Init, ApprovalsAgree, LineagesCovered
<1>3. RequestsAgree
  BY FreeIsPut DEF Init, RequestsAgree
<1>4. SendersAgree
  BY DEF Init, SendersAgree, Waits
<1>5. ReceivedIsPrefix
  <2>1. <<>> \in Seq(Body)
    BY EmptySeq
  <2> QED BY <2>1, PrefixOrder DEF Init, ReceivedIsPrefix
<1>6. AcknowledgedIsHeld
  BY DEF Init, AcknowledgedIsHeld
<1> QED BY <1>1, <1>2, <1>3, <1>4, <1>5, <1>6 DEF IndInv

LEMMA NextInv ==
    ASSUME IndInv, [Next]_vars
    PROVE  IndInv'
<1>1. CASE ProfileChanges \/ FenceMoves \/ GranteeCloses \/ UNCHANGED vars
  <2>1. /\ UNCHANGED <<lineage, pub, actor, lock, sender, request, received, collocated, held>>
        /\ profile' \in Versions /\ grantee' \in BOOLEAN /\ fenced' \in BOOLEAN
        /\ faults' \in 0 .. MaxFaults
    <3>1. TypeOK /\ profile \in 1 .. Len(Offers) /\ Len(Offers) \in Nat
      BY LenProperties, GrantsAssumption DEF IndInv, TypeOK, Versions, GrantsAssumption
    <3>2. CASE ProfileChanges
      BY <3>1, <3>2 DEF ProfileChanges, wireVars, copyVars, TypeOK, Versions
    <3>3. CASE FenceMoves
      BY <3>1, <3>3, FaultBounded DEF FenceMoves, ownerVars, wireVars, copyVars, TypeOK
    <3>4. CASE GranteeCloses
      BY <3>1, <3>4, FaultBounded DEF GranteeCloses, ownerVars, wireVars, copyVars, TypeOK
    <3>5. CASE UNCHANGED vars
      BY <3>1, <3>5 DEF vars, TypeOK
    <3> QED BY <1>1, <3>2, <3>3, <3>4, <3>5
  <2>2. TypeOK'
    BY <2>1 DEF IndInv, TypeOK
  <2>3. ApprovalsAgree' /\ LineagesCovered' /\ SendersAgree' /\ ReceivedIsPrefix'
    BY <2>1 DEF IndInv, ApprovalsAgree, LineagesCovered, SendersAgree, Waits, ReceivedIsPrefix
  <2>4. \A g : Held(g)' = Held(g)
    BY <2>1 DEF Held
  <2>5. RequestsAgree' /\ AcknowledgedIsHeld'
    BY <2>1, <2>4 DEF IndInv, RequestsAgree, AcknowledgedIsHeld
  <2> QED BY <2>2, <2>3, <2>5 DEF IndInv
<1> QED BY <1>1, OwnerInv, PublisherInv, ReceiverInv DEF Next

LEMMA GrantsInv == Spec => []IndInv
<1>1. Init => IndInv
  BY InitInv
<1>2. IndInv /\ [Next]_vars => IndInv'
  BY NextInv
<1> QED BY <1>1, <1>2, PTL DEF Spec

(* The state is well typed: one publication row for every signed revision, *)
(* and no chain outgrows its bound (grants/repository.ts, insertRevision   *)
(* and insertPublication).                                                 *)
THEOREM GrantTypes == Spec => []TypeOK
<1>1. IndInv => TypeOK
  BY DEF IndInv
<1> QED BY <1>1, GrantsInv, PTL

(* The copy of the grantee's provider is always a prefix of what the       *)
(* grantor signed (receiver.ts receive, repository.ts                      *)
(* acceptReceivedRevision).                                                *)
THEOREM CopyIsPrefix == Spec => []ReceivedIsPrefix
<1>1. IndInv => ReceivedIsPrefix
  BY DEF IndInv
<1> QED BY <1>1, GrantsInv, PTL

(* A publication marked acknowledged is held by the grantee's provider     *)
(* (publisher.ts publishOne, repository.ts finishPublication).             *)
THEOREM AcknowledgementIsTrue == Spec => []AcknowledgedIsHeld
<1>1. IndInv => AcknowledgedIsHeld
  BY DEF IndInv
<1> QED BY <1>1, GrantsInv, PTL

(* Every category a signed revision permits was offered by the profile its *)
(* consent commits to (service.ts currentConsent, permissions.ts,          *)
(* apps/cli/src/grants.rs).                                                *)
THEOREM ConsentIsInformed == Spec => []ConsentCovers
<1>1. IndInv => ConsentCovers
  BY DEF IndInv, LineagesCovered, Covered, ConsentCovers
<1> QED BY <1>1, GrantsInv, PTL

(* A lineage changes only by the successor that a client reviewed against  *)
(* the lineage as it stands, and never after a revocation (repository.ts   *)
(* appendAuthoritativeUpdate).                                             *)
THEOREM OnlyReviewed == Spec => ReviewedSuccessor
<1> DEFINE Step ==
      \A g \in Grants : lineage'[g] # lineage[g] =>
         /\ ~Revoked(lineage[g])
         /\ \E a \in Actors : actor[a].grant = g /\ actor[a].rep = lineage'[g] /\ Prev(actor[a].rep) = lineage[g]
<1>1. ASSUME IndInv, [Next]_vars PROVE [Step]_vars
  <2>1. CASE OwnerStep
    <3>1. PICK a \in Actors : UNCHANGED <<lineage, pub>> \/ Grown(a)
      BY <1>1, <2>1, OwnerKinds DEF OwnerKind
    <3>2. CASE UNCHANGED <<lineage, pub>>
      BY <3>2
    <3>3. CASE Grown(a)
      <4> DEFINE f == actor[a].grant
                 s == actor[a].rep
      <4>1. /\ f \in Grants /\ s \in Chain /\ s # <<>> /\ Prev(s) = lineage[f]
            /\ Len(s) > 1 => Active(lineage[f])
            /\ lineage' = [lineage EXCEPT ![f] = s]
            /\ lineage \in [Grants -> Chain]
        BY <1>1, <3>3 DEF Grown, Proposal, Follows, IndInv, TypeOK
      <4>2. ~Revoked(lineage[f])
        <5>1. Len(s) \in Nat \ {0} /\ Len(Prev(s)) = Len(s) - 1
          BY <4>1, ChainIsSeq, PrevIsPrefix
        <5>2. CASE Len(s) > 1
          BY <4>1, <5>2 DEF Active, Revoked
        <5>3. CASE Len(s) = 1
          <6>1. lineage[f] \in Seq(Body) /\ Len(lineage[f]) = 0
            BY <4>1, <5>1, <5>3, ChainIsSeq
          <6>2. lineage[f] = <<>>
            BY <6>1, EmptySeq
          <6> QED BY <6>2 DEF Revoked
        <5>4. Len(s) > 1 \/ Len(s) = 1
          <6>1. \A n \in Nat \ {0} : n > 1 \/ n = 1
            OBVIOUS
          <6> HIDE DEF s
          <6> QED BY <5>1, <6>1
        <5> QED BY <5>2, <5>3, <5>4, Zenon
      <4> HIDE DEF f, s
      <4>3. ASSUME NEW g \in Grants, lineage'[g] # lineage[g] PROVE g = f /\ lineage'[g] = s
        BY <4>1, <4>3
      <4>4. ASSUME NEW g \in Grants, lineage'[g] # lineage[g]
            PROVE  /\ ~Revoked(lineage[g])
                   /\ \E b \in Actors : actor[b].grant = g /\ actor[b].rep = lineage'[g] /\ Prev(actor[b].rep) = lineage[g]
        <5>1. g = f /\ lineage'[g] = s
          BY <4>3, <4>4
        <5>2. actor[a].grant = g /\ actor[a].rep = lineage'[g] /\ Prev(actor[a].rep) = lineage[g]
          BY <4>1, <5>1 DEF f, s
        <5> QED BY <4>2, <5>1, <5>2
      <4> QED BY <4>4
    <3> QED BY <3>1, <3>2, <3>3
  <2>2. CASE ~OwnerStep
    <3>1. lineage' = lineage
      BY <1>1, <2>2 DEF Next, PublisherStep, ReceiverStep, ProfileChanges, FenceMoves, GranteeCloses, vars,
         ownerVars, Finish, TimeOut, PublisherCrash, Claim, LeaseRunsOut, LeaseOfTheDead,
         Authenticate, ReadCurrent, Accept, DeadlinePasses, DropAnswer
    <3> QED BY SMTT(40), <3>1
  <2> QED BY <2>1, <2>2
<1> HIDE DEF Step
<1>2. IndInv /\ [Next]_vars => [Step]_vars
  BY <1>1
<1>3. Spec => [][Step]_vars
  BY <1>2, GrantsInv, PTL DEF Spec
<1> QED BY <1>3 DEF ReviewedSuccessor, Step

=============================================================================
