------------------------------- MODULE Grants -------------------------------
(***************************************************************************)
(* The grants of one pair of identities: the grantor's provider keeps the   *)
(* authoritative lineage of each grant, a session or a command line client  *)
(* reviews, approves and commits one revision at a time, and publishers     *)
(* send every revision, in order, to the provider of the grantee, which     *)
(* keeps its own copy of the lineage.                                       *)
(*                                                                          *)
(* A signed revision names the digest of its predecessor, so a digest       *)
(* stands for the whole chain it ends: a representation is the sequence of  *)
(* the bodies from revision 1, and its predecessor is that sequence without *)
(* the last body.  Signatures, timestamps (which only grow along a chain)   *)
(* and the expiry of a grant are left out; a consent is the version of the  *)
(* grantee's Sender Profile that its hashes commit to.                      *)
(***************************************************************************)
EXTENDS Naturals, Sequences

CONSTANTS
    Grants,        \* grant identifiers clients may draw
    Categories,    \* what a grant may permit
    Scopes,        \* the selections of categories clients choose from
    Offers,        \* Offers[v]: the categories version v of the profile offers
    Actors,        \* clients of the grantor's account
    Browser,       \* those that commit through the passkey route
    Publishers,    \* processes running GrantPublisher.publishOne
    Requests,      \* PUT requests the receiver can have in hand
    MaxRevision,   \* bound: revisions of a lineage
    Faults,        \* kinds of fault that may happen
    MaxFaults,     \* bound: number of faults
    None

ASSUME GrantsAssumption ==
    /\ Browser \subseteq Actors
    /\ Scopes \subseteq (SUBSET Categories) \ {{}}
    /\ MaxRevision \in Nat \ {0}
    /\ MaxFaults \in Nat
    /\ Offers \in Seq(SUBSET Categories)
    /\ Offers # <<>>
    /\ Faults \subseteq {"lost", "crash", "slow", "unverified", "moved", "closed", "fenced"}
    /\ None \notin Actors \cup Publishers \cup Requests \cup Grants

VARIABLES
    lineage,    \* lineage[g]: grant_revisions of the grantor's lineage, in order
    pub,        \* pub[g]: grant_publications, one per revision
    profile,    \* version of the grantee's published Sender Profile
    actor,      \* actor[a]: the approval a client holds and how far it is
    lock,       \* the provider-wide advisory lock of GrantPermissions.commit
    sender,     \* sender[p]: what a publisher claimed and its request
    request,    \* request[r]: a PUT in the hands of the receiver
    received,   \* received[g]: the grantee side's lineage
    collocated, \* TRUE when one provider serves both identities
    held,       \* collocated_grant_receivers: grants with a local receiver
    grantee,    \* TRUE while the grantee's account is active
    fenced,     \* TRUE while the grantor's account has a migration fence
    faults      \* faults so far

vars == <<lineage, pub, profile, actor, lock, sender, request, received, collocated, held, grantee, fenced, faults>>
ownerVars == <<lineage, profile, actor, lock>>
copyVars == <<received, collocated, held>>
wireVars == <<sender, request, copyVars>>

Versions == 1 .. Len(Offers)
Body == [status: {"active", "revoked"}, scope: Scopes, consent: Versions]
Chain == UNION {[1 .. n -> Body] : n \in 0 .. MaxRevision}
Last(s) == s[Len(s)]
Prev(s) == SubSeq(s, 1, Len(s) - 1)
Active(s) == s # <<>> /\ Last(s).status = "active"
Revoked(s) == s # <<>> /\ Last(s).status = "revoked"
IsPrefix(s, t) == Len(s) <= Len(t) /\ s = SubSeq(t, 1, Len(s))

(* Mutant: the subset test the wrong way round.                            *)
expandsAuthorizationReversed(old, new) == new.status = "active" /\ ~(old.scope \subseteq new.scope)

(* A revision expands the authorization when it is active and permits a    *)
(* category its predecessor did not; it restricts it when it does not      *)
(* expand it and is not the same.                                          *)
expandsAuthorization(old, new) == new.status = "active" /\ ~(new.scope \subseteq old.scope)
restrictsAuthorization(old, new) ==
    ~expandsAuthorization(old, new) /\ (new.scope # old.scope \/ new.status = "revoked")

Idle == [at |-> "idle", grant |-> None, rep |-> <<>>]
Quiet == [grant |-> None, rep |-> <<>>, request |-> None]
Free == [at |-> "free", grant |-> None, rep |-> <<>>, answer |-> "none"]
Fresh == [state |-> "pending", holder |-> None, live |-> FALSE]

Fault(kind) == kind \in Faults /\ faults < MaxFaults /\ faults' = faults + 1

Init ==
    /\ lineage = [g \in Grants |-> <<>>]
    /\ pub = [g \in Grants |-> <<>>]
    /\ profile = 1
    /\ actor = [a \in Actors |-> Idle]
    /\ lock = None
    /\ sender = [p \in Publishers |-> Quiet]
    /\ request = [r \in Requests |-> Free]
    /\ received = [g \in Grants |-> <<>>]
    /\ collocated \in BOOLEAN
    /\ held = {}
    /\ grantee = TRUE
    /\ fenced = FALSE
    /\ faults = 0

-----------------------------------------------------------------------------
(* The grantor's side: an approval is prepared from the revision its owner *)
(* reviewed, and carries the exact successor that will be signed.          *)

Hold(a, at, g, rep) == actor' = [actor EXCEPT ![a] = [at |-> at, grant |-> g, rep |-> rep]]

(* validateScopeAgainstProfile: the profile offers every category.         *)
Offered(scope) == scope \subseteq Offers[profile]

(* prepareUserSignedGrant: a new lineage for a pair with no active grant.  *)
ProposedAllow(g, scope) ==
    /\ lineage[g] = <<>>
    /\ \A b \in Actors : actor[b].grant # g
    /\ Offered(scope)
    /\ \A h \in Grants : ~Active(lineage[h])

FirstRevision(scope) == <<[status |-> "active", scope |-> scope, consent |-> profile]>>

PrepareAllow(a) ==
    /\ a \in Browser /\ actor[a].at = "idle"
    /\ \E g \in Grants, scope \in Scopes :
         ProposedAllow(g, scope) /\ Hold(a, "approved", g, FirstRevision(scope))
    /\ UNCHANGED <<lineage, pub, profile, lock, wireVars, grantee, fenced, faults>>

(* prepareUserSignedUpdate: a restriction keeps the consent it was given,  *)
(* an expansion or an explicit refresh takes the profile now published.    *)
ProposedUpdates(g) ==
    LET old == Last(lineage[g])
        Successor(scope) == [old EXCEPT !.scope = scope]
        restrictions == {scope \in Scopes : restrictsAuthorization(old, Successor(scope))}
        renewals == {scope \in Scopes \ restrictions : Offered(scope)}
    IN {Append(lineage[g], Successor(scope)) : scope \in restrictions}
       \cup {Append(lineage[g], [Successor(scope) EXCEPT !.consent = profile]) : scope \in renewals}

Updatable(g) == Active(lineage[g]) /\ Len(lineage[g]) < MaxRevision

(* The browser restricts; what it wants to widen it revokes and allows anew. *)
PrepareUpdate(a) ==
    /\ a \in Browser /\ actor[a].at = "idle"
    /\ \E g \in Grants :
         /\ Updatable(g)
         /\ \E s \in ProposedUpdates(g) :
              restrictsAuthorization(Last(lineage[g]), Last(s)) /\ Hold(a, "approved", g, s)
    /\ UNCHANGED <<lineage, pub, profile, lock, wireVars, grantee, fenced, faults>>

(* The reviewed revision itself is what a revocation stores; its successor *)
(* differs in the status alone.                                            *)
Revocation(g) == Append(lineage[g], [Last(lineage[g]) EXCEPT !.status = "revoked"])

PrepareRevoke(a) ==
    /\ a \in Browser /\ actor[a].at = "idle"
    /\ \E g \in Grants : Updatable(g) /\ Hold(a, "approved", g, Revocation(g))
    /\ UNCHANGED <<lineage, pub, profile, lock, wireVars, grantee, fenced, faults>>

(* An approval without a result expires; the owner gives a command up.     *)
Expire(a) ==
    /\ actor[a].at \in {"based", "approved"}
    /\ actor' = [actor EXCEPT ![a] = Idle]
    /\ UNCHANGED <<lineage, pub, profile, lock, wireVars, grantee, fenced, faults>>

-----------------------------------------------------------------------------
(* The command line signs with the owner's vault.  A command saves what it *)
(* signed before it submits it, and submits the same bytes whenever it is  *)
(* run again on that file.  Where the provider keeps the key it signs what *)
(* the command asks for, and an interrupted command begins again.          *)

(* grant create: the proposal is for the selected categories and begins a  *)
(* lineage.  An account being moved writes no grants.                      *)
CliCreate(a) ==
    /\ a \notin Browser /\ actor[a].at = "idle" /\ ~fenced
    /\ \E g \in Grants, scope \in Scopes :
         ProposedAllow(g, scope) /\ Hold(a, "approved", g, FirstRevision(scope))
    /\ UNCHANGED <<lineage, pub, profile, lock, wireVars, grantee, fenced, faults>>

(* grant update, first: the revision it starts from is read and saved with *)
(* the owner's choice.                                                     *)
CliSaveBase(a) ==
    /\ a \notin Browser /\ actor[a].at = "idle" /\ ~fenced
    /\ \E g \in Grants : Updatable(g) /\ Hold(a, "based", g, lineage[g])
    /\ UNCHANGED <<lineage, pub, profile, lock, wireVars, grantee, fenced, faults>>

(* What the command demands of a proposal: the next revision of the saved  *)
(* base, active, with the base's consent when it restricts.                *)
Reviewed(base, s) ==
    /\ Prev(s) = base /\ Last(s).status = "active"
    /\ restrictsAuthorization(Last(base), Last(s)) => Last(s).consent = Last(base).consent

(* ... then: the provider proposes a successor of its current revision,    *)
(* which must be the saved one; it is reviewed, signed and saved.          *)
CliUpdate(a) ==
    /\ actor[a].at = "based" /\ ~fenced
    /\ LET g == actor[a].grant
       IN /\ lineage[g] = actor[a].rep
          /\ \E s \in ProposedUpdates(g) :
               Reviewed(actor[a].rep, s) /\ Hold(a, "approved", g, s)
    /\ UNCHANGED <<lineage, pub, profile, lock, wireVars, grantee, fenced, faults>>

(* grant revoke: the successor is made here, from the current revision; a  *)
(* grant that is revoked already is submitted as it is.                    *)
CliRevoke(a) ==
    /\ a \notin Browser /\ actor[a].at = "idle"
    /\ \E g \in Grants :
         \/ Updatable(g) /\ Hold(a, "approved", g, Revocation(g))
         \/ Revoked(lineage[g]) /\ Hold(a, "approved", g, lineage[g])
    /\ UNCHANGED <<lineage, pub, profile, lock, wireVars, grantee, fenced, faults>>

(* submit: the provider acknowledged exactly what was signed, and the      *)
(* command is done; or the answer was lost, and it is run again.           *)
CliSubmitted(a) ==
    /\ a \notin Browser /\ actor[a].at = "written"
    /\ actor' = [actor EXCEPT ![a] = Idle] \/ Hold(a, "approved", actor[a].grant, actor[a].rep)
    /\ UNCHANGED <<lineage, pub, profile, lock, wireVars, grantee, fenced, faults>>

-----------------------------------------------------------------------------
(* A commit.                                                               *)

Unlocked(a) == IF lock = a THEN None ELSE lock

(* The passkey confirms the stored action (once: a retry does without),    *)
(* then acceptUserSignedGrant, or GrantPermissions.revoke, runs up to its  *)
(* transaction: the retained revision is read, an exact repetition is      *)
(* answered from it, a revision that does not follow it is refused, and    *)
(* consent that the revision needs is verified again.                      *)
NeedsConsent(s) ==
    Len(s) = 1 \/ ~restrictsAuthorization(Last(Prev(s)), Last(s))

(* Mutant: only a lower revision is refused; the predecessor is not        *)
(* compared.                                                               *)
FollowsLoosely(s, now) == Len(s) >= Len(now) /\ (Len(s) > 1 => Active(now))

Follows(s, now) ==
    /\ Prev(s) = now
    /\ Len(s) > 1 => Active(now)

(* The unique index over the active lineages of a pair.                    *)
PairFree(lines) == \A h \in Grants : ~Active(lines[h])

(* The route of the command line admits no write of an account being moved. *)
Routed(a) == IF a \in Browser THEN lock = None ELSE ~fenced

CommitReads(a) ==
    /\ actor[a].at = "approved"
    /\ Routed(a)
    /\ LET g == actor[a].grant
           s == actor[a].rep
           now == lineage[g]
           repeated == IsPrefix(s, now) /\ (s = now \/ Active(now))
       IN \/ repeated /\ Hold(a, "written", g, s)
          \/ /\ ~repeated
             /\ Follows(s, now)
             /\ NeedsConsent(s) => Last(s).consent = profile
             /\ Len(s) = 1 => PairFree(lineage)
             /\ Hold(a, "checked", g, s)
    /\ lock' = IF a \in Browser THEN a ELSE lock
    /\ UNCHANGED <<lineage, pub, profile, wireVars, grantee, fenced, faults>>

(* insertAuthoritativeRevision1 and appendAuthoritativeUpdate, one         *)
(* transaction: the lineage still ends in the reviewed revision, a first   *)
(* revision meets no active grant of the pair (the unique index), the      *)
(* account is not fenced, and the revision and its publication are         *)
(* inserted together.                                                      *)
Appends(a) ==
    /\ Follows(actor[a].rep, lineage[actor[a].grant])
    /\ Len(actor[a].rep) = 1 => PairFree(lineage)
    /\ ~fenced

CommitWrites(a) ==
    /\ actor[a].at = "checked"
    /\ LET g == actor[a].grant
           s == actor[a].rep
       IN \/ /\ Appends(a)
             /\ lineage' = [lineage EXCEPT ![g] = s]
             /\ pub' = [pub EXCEPT ![g] = Append(@, Fresh)]
             /\ Hold(a, "written", g, s)
             /\ UNCHANGED lock
          \/ /\ ~Appends(a) /\ IsPrefix(s, lineage[g])
             /\ Hold(a, "written", g, s)
             /\ UNCHANGED <<lineage, pub, lock>>
          \/ /\ ~Appends(a) /\ ~IsPrefix(s, lineage[g])
             /\ Hold(a, "approved", g, s)
             /\ lock' = Unlocked(a)
             /\ UNCHANGED <<lineage, pub>>
    /\ UNCHANGED <<profile, wireVars, grantee, fenced, faults>>

(* The result is stored with the approval and the lock released.           *)
CommitSaves(a) ==
    /\ a \in Browser /\ actor[a].at = "written"
    /\ actor' = [actor EXCEPT ![a] = Idle]
    /\ lock' = Unlocked(a)
    /\ UNCHANGED <<lineage, pub, profile, wireVars, grantee, fenced, faults>>

(* The process dies during a commit: the approval is still stored, the     *)
(* advisory lock goes with its connection, and the owner commits again.    *)
CommitCrash(a) ==
    /\ actor[a].at \in {"checked", "written"}
    /\ Fault("crash")
    /\ Hold(a, "approved", actor[a].grant, actor[a].rep)
    /\ lock' = Unlocked(a)
    /\ UNCHANGED <<lineage, pub, profile, wireVars, grantee, fenced>>

(* External: the grantee publishes its next Sender Profile.                *)
ProfileChanges ==
    /\ profile < Len(Offers)
    /\ profile' = profile + 1
    /\ UNCHANGED <<lineage, pub, actor, lock, wireVars, grantee, fenced, faults>>

(* A migration fence over the grantor's account comes and goes.            *)
FenceMoves ==
    /\ \/ ~fenced /\ Fault("fenced") /\ fenced' = TRUE
       \/ fenced /\ fenced' = FALSE /\ UNCHANGED faults
    /\ UNCHANGED <<ownerVars, pub, wireVars, grantee>>

-----------------------------------------------------------------------------
(* Publication.                                                            *)

(* Mutant: the revision itself is counted among its predecessors.          *)
DueAfterItself(g, n) ==
    /\ pub[g][n].state \in {"pending", "retry"}
    /\ ~pub[g][n].live
    /\ ~fenced
    /\ \A k \in 1 .. n : pub[g][k].state = "acknowledged"

(* claimDuePublication, then the request: the revisions before it are all  *)
(* acknowledged and no live lease covers it.                               *)
Due(g, n) ==
    /\ pub[g][n].state \in {"pending", "retry"}
    /\ ~pub[g][n].live
    /\ ~fenced
    /\ \A k \in 1 .. n - 1 : pub[g][k].state = "acknowledged"

Claim(g, p, r) ==
    /\ sender[p] = Quiet
    /\ request[r].at = "free"
    /\ \E n \in 1 .. Len(pub[g]) :
         /\ Due(g, n)
         /\ pub' = [pub EXCEPT ![g][n].holder = p, ![g][n].live = TRUE]
         /\ sender' = [sender EXCEPT ![p] = [grant |-> g, rep |-> SubSeq(lineage[g], 1, n), request |-> r]]
         /\ request' = [request EXCEPT ![r] =
              [at |-> "arrived", grant |-> g, rep |-> SubSeq(lineage[g], 1, n), answer |-> "none"]]
    /\ UNCHANGED <<ownerVars, copyVars, grantee, fenced, faults>>

LeaseRunsOut(g, n) ==
    /\ pub[g][n].live
    /\ Fault("lost")
    /\ pub' = [pub EXCEPT ![g][n].live = FALSE]
    /\ UNCHANGED <<ownerVars, wireVars, grantee, fenced>>

(* Mutant: any definite answer counts as delivered.                        *)
OutcomeOptimistic(s, answer) ==
    IF answer \in {"created", "done", "exists", "generic"} THEN "acknowledged"
    ELSE IF answer = "conflict" THEN "blocked"
    ELSE "retry"

(* What the publisher makes of an answer.                                  *)
Outcome(s, answer) ==
    IF answer = (IF Len(s) = 1 THEN "created" ELSE "done") THEN "acknowledged"
    ELSE IF Len(s) = 1 /\ answer = "exists" THEN "acknowledged"
    ELSE IF answer \in {"generic", "conflict", "exists"} THEN "blocked"
    ELSE "retry"

(* finishPublication: only under the publisher's own lease, still live and *)
(* the publication still open; otherwise nothing is written.  Under the    *)
(* fence the write itself is refused.                                      *)
Finished(p, state) ==
    LET g == sender[p].grant
        n == Len(sender[p].rep)
        mine == ~fenced /\ pub[g][n].holder = p /\ pub[g][n].live /\ pub[g][n].state \in {"pending", "retry"}
    IN [pub EXCEPT ![g][n] = IF mine THEN [Fresh EXCEPT !.state = state] ELSE @]

Finish(p) ==
    /\ sender[p] # Quiet
    /\ LET r == sender[p].request
       IN /\ request[r].at = "answered"
          /\ pub' = Finished(p, Outcome(sender[p].rep, request[r].answer))
          /\ request' = [request EXCEPT ![r] = Free]
    /\ sender' = [sender EXCEPT ![p] = Quiet]
    /\ UNCHANGED <<ownerVars, copyVars, grantee, fenced, faults>>

(* The request times out at the publisher, or its answer is lost, while    *)
(* the receiver goes on with it: retryPublication.                         *)
TimeOut(p) ==
    /\ sender[p] # Quiet
    /\ Fault("lost")
    /\ pub' = Finished(p, "retry")
    /\ sender' = [sender EXCEPT ![p] = Quiet]
    /\ UNCHANGED <<ownerVars, request, copyVars, grantee, fenced>>

PublisherCrash(p) ==
    /\ sender[p] # Quiet
    /\ Fault("crash")
    /\ sender' = [sender EXCEPT ![p] = Quiet]
    /\ UNCHANGED <<ownerVars, pub, request, copyVars, grantee, fenced>>

(* The lease of a publisher that is gone runs out in time.                 *)
LeaseOfTheDead(g, n) ==
    /\ pub[g][n].live
    /\ LET p == pub[g][n].holder
       IN sender[p] = Quiet \/ sender[p].grant # g \/ Len(sender[p].rep) # n
    /\ pub' = [pub EXCEPT ![g][n].live = FALSE]
    /\ UNCHANGED <<ownerVars, wireVars, grantee, fenced, faults>>

-----------------------------------------------------------------------------
(* The receiver, GrantReceiver.receive under the protected schedule.       *)

Answer(r, answer) == request' = [request EXCEPT ![r].at = "answered", ![r].answer = answer]

(* What the grantee's provider holds: its own lineage, or the grantor's    *)
(* when it serves both and has registered the local receiver.              *)
Held(g) ==
    IF collocated THEN IF g \in held THEN lineage[g] ELSE <<>>
    ELSE received[g]

(* Signature, grantee and routing are verified.  A failure of any kind,    *)
(* one of the resolver or of the account store too, is the uniform 400.    *)
Authenticate(r) ==
    /\ request[r].at = "arrived"
    /\ \/ grantee /\ request' = [request EXCEPT ![r].at = "authenticated"] /\ UNCHANGED faults
       \/ ~grantee /\ Answer(r, "generic") /\ UNCHANGED faults
       \/ Fault("unverified") /\ Answer(r, "generic")
       \/ Fault("moved") /\ Answer(r, "misdirected")
    /\ UNCHANGED <<ownerVars, pub, sender, copyVars, grantee, fenced>>

(* The stored revision is read: an exact repetition is answered, anything  *)
(* but its successor is a conflict.                                        *)
Repeated(s) == IF Len(s) = 1 THEN "exists" ELSE "done"
Acceptable(s, now) ==
    IF now = <<>> THEN Len(s) = 1 /\ Active(s)
    ELSE /\ Len(s) > 1
         /\ Prev(s) = now
         /\ Active(now)
         /\ restrictsAuthorization(Last(now), Last(s)) => Last(s).consent = Last(now).consent

ReadCurrent(r) ==
    /\ request[r].at = "authenticated"
    /\ LET s == request[r].rep
           now == Held(request[r].grant)
       IN \/ s = now /\ Answer(r, Repeated(s))
          \/ s # now /\ ~Acceptable(s, now) /\ Answer(r, "conflict")
          \/ s # now /\ Acceptable(s, now) /\ request' = [request EXCEPT ![r].at = "accepting"]
    /\ UNCHANGED <<ownerVars, pub, sender, copyVars, grantee, fenced, faults>>

(* acceptReceivedRevision, one transaction: a revision already stored is   *)
(* answered, the next one is stored, a first one that meets another active *)
(* lineage of the pair fails on the index with whatever the driver makes   *)
(* of it.  Once the deadline has passed the answer has already gone out.   *)
Accept(r) ==
    /\ request[r].at \in {"accepting", "late"}
    /\ LET g == request[r].grant
           s == request[r].rep
           now == received[g]
           stored == IF collocated THEN IsPrefix(s, lineage[g]) ELSE IsPrefix(s, now)
           Reply(answer) == Answer(r, IF request[r].at = "late" THEN "generic" ELSE answer)
           success == IF Len(s) = 1 THEN "created" ELSE "done"
           storable == Follows(s, now) /\ (Len(s) = 1 => PairFree(received))
           refusals == IF ~grantee THEN {"unavailable"}
                       ELSE IF Follows(s, now) THEN {"conflict", "unavailable"} ELSE {"conflict"}
       IN \/ /\ grantee /\ stored /\ Reply(success)
             /\ held' = IF collocated THEN held \cup {g} ELSE held
             /\ UNCHANGED received
          \/ /\ grantee /\ ~stored /\ storable /\ Reply(success)
             /\ received' = [received EXCEPT ![g] = s]
             /\ UNCHANGED held
          \/ /\ ~(grantee /\ (stored \/ storable))
             /\ \E answer \in refusals : Reply(answer)
             /\ UNCHANGED <<received, held>>
    /\ UNCHANGED <<ownerVars, pub, sender, collocated, grantee, fenced, faults>>

(* The processing deadline passes.  The generic answer goes out; work that *)
(* has passed its last cancellation check still commits.                   *)
DeadlinePasses(r) ==
    /\ Fault("slow")
    /\ \/ request[r].at \in {"arrived", "authenticated"} /\ Answer(r, "generic")
       \/ request[r].at = "accepting" /\ request' = [request EXCEPT ![r].at = "late"]
    /\ UNCHANGED <<ownerVars, pub, sender, copyVars, grantee, fenced>>

(* An answer nobody waits for.                                             *)
DropAnswer(r) ==
    /\ request[r].at = "answered"
    /\ \A p \in Publishers : sender[p].request # r
    /\ request' = [request EXCEPT ![r] = Free]
    /\ UNCHANGED <<ownerVars, pub, sender, copyVars, grantee, fenced, faults>>

(* The grantee's account closes.                                           *)
GranteeCloses ==
    /\ grantee /\ Fault("closed")
    /\ grantee' = FALSE
    /\ UNCHANGED <<ownerVars, pub, wireVars, fenced>>

-----------------------------------------------------------------------------
OwnerStep ==
    \E a \in Actors :
        \/ PrepareAllow(a) \/ PrepareUpdate(a) \/ PrepareRevoke(a) \/ Expire(a)
        \/ CliCreate(a) \/ CliSaveBase(a) \/ CliUpdate(a) \/ CliRevoke(a) \/ CliSubmitted(a)
        \/ CommitReads(a) \/ CommitWrites(a) \/ CommitSaves(a) \/ CommitCrash(a)

PublisherStep ==
    \/ \E p \in Publishers : Finish(p) \/ TimeOut(p) \/ PublisherCrash(p)
    \/ \E g \in Grants, p \in Publishers, r \in Requests : Claim(g, p, r)
    \/ \E g \in Grants : \E n \in 1 .. Len(pub[g]) : LeaseRunsOut(g, n) \/ LeaseOfTheDead(g, n)

ReceiverStep ==
    \E r \in Requests :
        Authenticate(r) \/ ReadCurrent(r) \/ Accept(r) \/ DeadlinePasses(r) \/ DropAnswer(r)

Next == OwnerStep \/ PublisherStep \/ ReceiverStep \/ ProfileChanges \/ FenceMoves \/ GranteeCloses

Spec == Init /\ [][Next]_vars

(* The worker loop calls publishOne again and again and claims in the order*)
(* of next_attempt_at, which every retry pushes back, so that no grant is  *)
(* passed over for ever (strong fairness); leases run out by the clock,    *)
(* and a request the receiver has in hand is worked on; nothing is  *)
(* assumed of owners, faults or the fence.                                 *)
Serving ==
    /\ \A g \in Grants : SF_vars(\E p \in Publishers, r \in Requests : Claim(g, p, r))
    /\ \A p \in Publishers : WF_vars(Finish(p))
    /\ \A r \in Requests : WF_vars(Authenticate(r) \/ ReadCurrent(r) \/ Accept(r) \/ DropAnswer(r))
    /\ WF_vars(\E g \in Grants : \E n \in 1 .. Len(pub[g]) : LeaseOfTheDead(g, n))

LiveSpec == Spec /\ Serving

-----------------------------------------------------------------------------
Publication == [state: {"pending", "retry", "acknowledged", "blocked"},
                holder: Publishers \cup {None}, live: BOOLEAN]
Approval == [at: {"idle", "based", "approved", "checked", "written"},
             grant: Grants \cup {None}, rep: Chain]
Sending == [grant: Grants \cup {None}, rep: Chain, request: Requests \cup {None}]
Put == [at: {"free", "arrived", "authenticated", "accepting", "late", "answered"},
        grant: Grants \cup {None}, rep: Chain,
        answer: {"none", "created", "done", "exists", "conflict", "generic",
                 "misdirected", "unavailable"}]

TypeOK ==
    /\ lineage \in [Grants -> Chain]
    /\ received \in [Grants -> Chain]
    /\ pub \in [Grants -> Seq(Publication)]
    /\ \A g \in Grants : Len(pub[g]) = Len(lineage[g])
    /\ profile \in Versions
    /\ actor \in [Actors -> Approval]
    /\ lock \in Browser \cup {None}
    /\ sender \in [Publishers -> Sending]
    /\ request \in [Requests -> Put]
    /\ collocated \in BOOLEAN /\ held \subseteq Grants
    /\ grantee \in BOOLEAN /\ fenced \in BOOLEAN /\ faults \in 0 .. MaxFaults

(* What the grantee's provider stores is at every moment a prefix of what  *)
(* the grantor signed: retries, late requests and competing approvals      *)
(* never fork the copy or run ahead of it (receiver.ts receive,            *)
(* repository.ts acceptReceivedRevision, appendAuthoritativeUpdate).       *)
ReceivedIsPrefix == \A g \in Grants : IsPrefix(received[g], lineage[g])

(* A publication is marked acknowledged only once the grantee's provider   *)
(* holds that revision or a later one, with lost answers and two leases    *)
(* of one publication (publisher.ts publishOne, finishPublication).        *)
AcknowledgedIsHeld ==
    \A g \in Grants : \A n \in 1 .. Len(pub[g]) :
        pub[g][n].state = "acknowledged" => Len(Held(g)) >= n

(* Every category an active revision permits was offered by the profile    *)
(* its consent commits to, through any chain of restrictions, expansions   *)
(* and refreshes against profiles that change under review (service.ts     *)
(* currentConsent, permissions.ts, apps/cli/src/grants.rs).                *)
ConsentCovers ==
    \A g \in Grants : \A n \in 1 .. Len(lineage[g]) : lineage[g][n].scope \subseteq Offers[lineage[g][n].consent]

(* A lineage changes only by the one successor that a client reviewed      *)
(* against exactly the lineage as it stands, and never after a revocation  *)
(* (repository.ts appendAuthoritativeUpdate).                              *)
ReviewedSuccessor ==
    [][\A g \in Grants : lineage'[g] # lineage[g] =>
         /\ ~Revoked(lineage[g])
         /\ \E a \in Actors : actor[a].grant = g /\ actor[a].rep = lineage'[g] /\ Prev(actor[a].rep) = lineage[g]]_vars

(* A revocation reaches the grantee's provider, unless a publication of    *)
(* that grant was blocked, the grantee's account closed or the grantor's   *)
(* account is fenced (repository.ts claimDuePublication orders the         *)
(* publications of a grant; publisher.ts retries).                         *)
RevocationReaches ==
    \A g \in Grants :
        Revoked(lineage[g]) ~>
            \/ Revoked(Held(g))
            \/ \E n \in 1 .. Len(pub[g]) : pub[g][n].state = "blocked"
            \/ ~grantee \/ fenced
=============================================================================
