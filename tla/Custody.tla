------------------------------ MODULE Custody -------------------------------
(***************************************************************************)
(* Moving the identity key of an account between its owner and its         *)
(* provider without changing provider (src/accounts/custody-transition.ts, *)
(* the command line's custody.rs, and the PLC readers of src/plc).         *)
(*                                                                         *)
(* A transition is prepared (its successors of every active Grant, its     *)
(* binding and the PLC operation are fixed), approved by the owner's       *)
(* recovery key, recorded, sent to the directory, confirmed through a      *)
(* public reader and then materialized in one transaction.  From the       *)
(* preparation on the account is fenced for every other writer.            *)
(*                                                                         *)
(* A call is one request of the owner's command line on the server; it may *)
(* be repeated while an earlier one still runs.  The directory's log is a  *)
(* sequence of identity keys with who signed for it; an operation is named *)
(* by the length of the log it follows and the key it sets.                *)
(***************************************************************************)
EXTENDS Naturals, Sequences, FiniteSets

CONSTANTS Calls,
          Grants,
          MaxKey,         \* bound on identity keys drawn
          MaxGeneration,  \* bound on transitions
          MaxSigned,      \* bound on the Grants signed outside a transition
          Faults,         \* "crash", "timeout", "expiry", "own", "mirror"
          MaxFaults,
          None

ASSUME CustodyAssumption ==
    /\ MaxKey \in Nat \ {0} /\ MaxGeneration \in Nat \ {0} /\ MaxSigned \in Nat /\ MaxFaults \in Nat
    /\ None \notin Grants

VARIABLES
    account,    \* custody evidence and serving generation
    provider,   \* identity keys in account_keys
    vault,      \* the identity key of the owner's vault
    fresh,      \* the next key to be drawn
    plc,        \* the directory's log
    shown,      \* how much of it the configured reader shows
    retained,   \* how much of it public_plc_resolution_evidence has kept
    inflight,   \* operations on their way to the directory
    open,       \* the custody_transition_preparations row that is not complete
    calls,      \* requests being served
    file,       \* the command line's state file
    grants,     \* the account's own grant lineages
    request,    \* a Grant signed and not yet stored
    signed,     \* how many have been
    publishing, \* whether a publication to a category still has a target to send to
    faults

vars == <<account, provider, vault, fresh, plc, shown, retained, inflight, open, calls, file,
          grants, request, signed, publishing, faults>>
keyVars == <<account, provider, vault, fresh>>
plcVars == <<plc, shown, retained, inflight>>
grantVars == <<grants, request, signed, publishing>>

Keys == 1..MaxKey
Directions == {"managed", "owner"}
Revisions == 0..(MaxSigned + MaxGeneration)
Revised == [Grants -> Revisions]
NoTransition == [state |-> "none", dir |-> "owner", prev |-> 0, old |-> 0, new |-> 0, from |-> 0,
                 succ |-> [g \in Grants |-> 0], live |-> FALSE]
Idle == [at |-> "idle", dir |-> "owner", prev |-> 0, old |-> 0, new |-> 0, from |-> 0,
         succ |-> [g \in Grants |-> 0]]

TypeOK ==
    /\ account \in [kind : Directions, key : Keys, generation : 1..MaxGeneration]
    /\ provider \subseteq Keys /\ vault \in 0..MaxKey /\ fresh \in 1..(MaxKey + 1)
    /\ plc \in Seq([key : Keys, own : BOOLEAN])
    /\ shown \in 1..Len(plc) /\ retained \in 1..Len(plc)
    /\ inflight \subseteq [prev : Nat, key : Keys]
    /\ open \in [state : {"none", "prepared", "recorded"}, dir : Directions, prev : Nat, old : 0..MaxKey,
                 new : 0..MaxKey, from : 0..MaxGeneration, succ : Revised, live : BOOLEAN]
    /\ calls \in [Calls -> [at : {"idle", "prepare", "look", "send", "sent", "confirm", "materialize"},
                            dir : Directions, prev : Nat, old : 0..MaxKey, new : 0..MaxKey,
                            from : 0..MaxGeneration, succ : Revised]]
    /\ file \in {"none", "key", "state"}
    /\ grants \in [Grants -> [status : {"none", "active", "revoked"}, revision : Revisions,
                              signer : 0..MaxKey, acked : BOOLEAN]]
    /\ signed \in 0..MaxSigned /\ publishing \in BOOLEAN /\ faults \in 0..MaxFaults

Init ==
    \E kind \in Directions : LET g == CHOOSE h \in Grants : TRUE IN
        /\ account = [kind |-> kind, key |-> 1, generation |-> 1]
        /\ provider = IF kind = "managed" THEN {1} ELSE {}
        /\ vault = IF kind = "owner" THEN 1 ELSE 0
        /\ fresh = 2
        /\ plc = <<[key |-> 1, own |-> FALSE]>>
        /\ shown = 1 /\ retained = 1 /\ inflight = {}
        /\ open = NoTransition
        /\ calls = [c \in Calls |-> Idle]
        /\ file = "none"
        /\ grants = [h \in Grants |-> IF h = g
                        THEN [status |-> "active", revision |-> 1, signer |-> 1, acked |-> TRUE]
                        ELSE [status |-> "none", revision |-> 0, signer |-> 0, acked |-> FALSE]]
        /\ request = None /\ signed = 0 /\ publishing = FALSE
        /\ faults = 0

Fault(kind) == kind \in Faults /\ faults < MaxFaults /\ faults' = faults + 1

Leave(c) == calls' = [calls EXCEPT ![c] = Idle]
Go(c, place) == calls' = [calls EXCEPT ![c].at = place]

\* A request ends wherever it is: the server stops, the database or a service
\* fails, or the domain's authority cannot be read
Abandon(c) ==
    /\ Fault("crash") /\ calls[c].at # "idle"
    /\ Leave(c)
    /\ UNCHANGED <<keyVars, plcVars, open, file, grantVars>>

(***************************************************************************)
(* The directory and its readers.                                          *)
(***************************************************************************)
Head1 == plc[Len(plc)]

\* The directory takes an operation only after the one it names
Land(op) ==
    /\ op \in inflight
    /\ inflight' = inflight \ {op}
    /\ plc' = IF op.prev = Len(plc) THEN Append(plc, [key |-> op.key, own |-> FALSE]) ELSE plc
    /\ UNCHANGED <<keyVars, shown, retained, open, calls, file, grantVars, faults>>

\* The owner may use the recovery key directly
OwnOperation ==
    /\ Fault("own")
    /\ plc' = Append(plc, [key |-> Head1.key, own |-> TRUE])
    /\ UNCHANGED <<keyVars, shown, retained, inflight, open, calls, file, grantVars>>

\* A reader catches up
Mirror ==
    /\ shown < Len(plc)
    /\ shown' = shown + 1
    /\ UNCHANGED <<keyVars, plc, retained, inflight, open, calls, file, grantVars, faults>>

\* The next configured reader answers instead, and is behind
FailOver ==
    /\ Fault("mirror") /\ shown > 1
    /\ shown' \in 1..(shown - 1)
    /\ UNCHANGED <<keyVars, plc, retained, inflight, open, calls, file, grantVars>>

\* resolve: a reader whose history lacks what was retained before is refused
Resolves == shown >= retained

\* what a resolution showed is kept as evidence
Retain == retained' = shown

(***************************************************************************)
(* The owner's command line.                                               *)
(***************************************************************************)
ReplaceableEachRun == account.kind = "managed" /\ file \in {"none", "key"}

\* custody.rs run: a state file that names a key is resumed with that key
Replaceable == account.kind = "managed" /\ file = "none"

\* replace_identity: the vault keeps only the new key
FreshIdentity == fresh \in Keys /\ vault' = fresh /\ fresh' = fresh + 1

\* The vault gets a fresh identity, then the state file names it
ReplaceVault ==
    /\ Replaceable /\ FreshIdentity
    /\ \/ file' = "key" /\ UNCHANGED faults
       \/ Fault("crash") /\ UNCHANGED file
    /\ UNCHANGED <<account, provider, plcVars, open, calls, grantVars>>

\* preparation: the answer is reviewed, signed and written before it is used
SaveState ==
    /\ open.state = "prepared" /\ open.live
    /\ IF open.dir = "owner" THEN file = "key" /\ open.new = vault ELSE file = "none"
    /\ file' = "state"
    /\ UNCHANGED <<keyVars, plcVars, open, calls, grantVars, faults>>

\* an exact retry of a completed transition answers complete
Finish ==
    /\ file = "state" /\ open.state = "none"
    /\ file' = "none"
    /\ UNCHANGED <<keyVars, plcVars, open, calls, grantVars, faults>>

(***************************************************************************)
(* Preparing.                                                              *)
(***************************************************************************)
Active == {g \in Grants : grants[g].status = "active"}
AllAcknowledged == \A g \in Active : grants[g].acked

\* The revision every active Grant is succeeded from; 0 where there is none
Predecessors == [g \in Grants |-> IF g \in Active THEN grants[g].revision ELSE 0]

\* reviewOwner as prepareOwner repeats it, and the reads of prepare: the
\* directory, the account and, for the owner, the Grants the owner has signed
Reads(c, dir, key, succ) ==
    /\ calls[c].at = "idle" /\ open.state = "none"
    /\ account.kind # dir /\ account.generation < MaxGeneration
    /\ Resolves /\ plc[shown].key = account.key
    /\ Retain
    /\ calls' = [calls EXCEPT ![c] = [at |-> "prepare", dir |-> dir, prev |-> shown, old |-> account.key,
                                      new |-> key, from |-> account.generation, succ |-> succ]]

ReviewOwner(c) ==
    /\ file = "key" /\ AllAcknowledged
    /\ Reads(c, "owner", vault, Predecessors)
    /\ UNCHANGED <<keyVars, plc, shown, inflight, open, file, grantVars, faults>>

ReviewManaged(c) ==
    /\ file = "none" /\ fresh \in Keys
    /\ Reads(c, "managed", fresh, [g \in Grants |-> 0])
    /\ fresh' = fresh + 1
    /\ UNCHANGED <<account, provider, vault, plc, shown, inflight, open, file, grantVars, faults>>

\* The transaction of prepareOwner and prepare.  Only prepare reads the
\* Grants here; prepareOwner stores the successors it was given.
Unchanged(c) == account.kind # calls[c].dir /\ account.key = calls[c].old /\ account.generation = calls[c].from

Succeeded(c) == IF calls[c].dir = "managed" THEN Predecessors ELSE calls[c].succ

Prepare(c) ==
    /\ calls[c].at = "prepare"
    /\ open' = IF open.state = "none" /\ Unchanged(c) /\ (calls[c].dir = "managed" => AllAcknowledged)
               THEN [state |-> "prepared", dir |-> calls[c].dir, prev |-> calls[c].prev, old |-> calls[c].old,
                     new |-> calls[c].new, from |-> calls[c].from, succ |-> Succeeded(c), live |-> TRUE]
               ELSE open
    /\ Leave(c)
    /\ UNCHANGED <<keyVars, plcVars, file, grantVars, faults>>

Expire ==
    /\ Fault("expiry") /\ open.live
    /\ open' = [open EXCEPT !.live = FALSE]
    /\ UNCHANGED <<keyVars, plcVars, calls, file, grantVars>>

(***************************************************************************)
(* Committing.                                                             *)
(***************************************************************************)
\* Once the operation is recorded the same bytes are accepted at any age
ApprovedWhileLive == open.live

Approved == open.state = "recorded" \/ open.live

Record(c) ==
    /\ calls[c].at = "idle" /\ file = "state"
    /\ open.state \in {"prepared", "recorded"} /\ Approved
    /\ open' = [open EXCEPT !.state = "recorded"]
    /\ calls' = [calls EXCEPT ![c] = [at |-> "look", dir |-> open.dir, prev |-> open.prev, old |-> open.old,
                                      new |-> open.new, from |-> open.from, succ |-> open.succ]]
    /\ UNCHANGED <<keyVars, plcVars, file, grantVars, faults>>

Ours(log, t) == Len(log) = t.prev + 1 /\ log[Len(log)] = [key |-> t.new, own |-> FALSE]

\* The directory's last operation is ours, or the one approved as predecessor
Look(c) ==
    /\ calls[c].at = "look"
    /\ IF Ours(plc, calls[c]) THEN Go(c, "confirm")
       ELSE IF Len(plc) = calls[c].prev THEN Go(c, "send")
       ELSE Leave(c)
    /\ UNCHANGED <<keyVars, plcVars, open, file, grantVars, faults>>

Send(c) ==
    /\ calls[c].at = "send"
    /\ inflight' = inflight \cup {[prev |-> calls[c].prev, key |-> calls[c].new]}
    /\ Go(c, "sent")
    /\ UNCHANGED <<keyVars, plc, shown, retained, open, file, grantVars, faults>>

\* Answered, or looked up after an error; otherwise the outcome is ambiguous
Sent(c) ==
    /\ calls[c].at = "sent"
    /\ IF Ours(plc, calls[c]) THEN Go(c, "confirm") /\ UNCHANGED faults
       ELSE /\ Leave(c)
            /\ IF [prev |-> calls[c].prev, key |-> calls[c].new] \in inflight
               THEN Fault("timeout") ELSE UNCHANGED faults
    /\ UNCHANGED <<keyVars, plcVars, open, file, grantVars>>

\* resolve: the public reader has to show exactly the approved operation.  The binding
\* published with it, and the monitor's evidence where one is required, are taken to be there.
Confirm(c) ==
    /\ calls[c].at = "confirm"
    /\ IF Resolves THEN Retain ELSE UNCHANGED retained
    /\ IF Resolves /\ Ours(SubSeq(plc, 1, shown), calls[c]) THEN Go(c, "materialize") ELSE Leave(c)
    /\ UNCHANGED <<keyVars, plc, shown, inflight, open, file, grantVars, faults>>

\* Every successor's predecessor is still current, active and acknowledged
Unmoved(succ) ==
    \A g \in Grants : succ[g] # 0 =>
        grants[g].status = "active" /\ grants[g].revision = succ[g] /\ grants[g].acked

\* hail_finish_publications_before_cutover refuses the new generation while a
\* publication to a category is pending.  The preparation asks only for the
\* messages to connections, and under the fence no publication ends.
Materializes(c) ==
    /\ open.state = "recorded" /\ open.new = calls[c].new
    /\ account.generation = open.from /\ Unmoved(open.succ)
    /\ ~publishing

\* materialize: evidence, keys, Grants and generation at once.  What it changes with them
\* and no step here reads is left out: the binding, credentials, leases of the account's
\* work, invitations and the generations of its pairs.
Materialize(c) ==
    /\ calls[c].at = "materialize"
    /\ IF Materializes(c)
       THEN /\ account' = [kind |-> open.dir, key |-> open.new, generation |-> account.generation + 1]
            /\ provider' = IF open.dir = "managed" THEN provider \cup {open.new} ELSE provider \ {open.old}
            /\ grants' = [g \in Grants |-> IF open.succ[g] = 0 THEN grants[g]
                             ELSE [grants[g] EXCEPT !.revision = @ + 1, !.signer = open.new, !.acked = FALSE]]
            /\ open' = NoTransition
       ELSE UNCHANGED <<account, provider, grants, open>>
    /\ Leave(c)
    /\ UNCHANGED <<vault, fresh, plcVars, file, request, signed, publishing, faults>>

(***************************************************************************)
(* The account's Grants and publications meanwhile.  A Grant is signed     *)
(* first and stored later.                                                 *)
(***************************************************************************)
Signs(g, status) ==
    /\ request = None /\ signed < MaxSigned
    /\ request' = [grant |-> g, status |-> status, revision |-> grants[g].revision + 1,
                   key |-> account.key, generation |-> account.generation]
    /\ signed' = signed + 1
    /\ UNCHANGED <<keyVars, plcVars, open, calls, file, grants, publishing, faults>>

\* A first Grant
Issue(g) == grants[g].status = "none" /\ Signs(g, "active")

\* An update or a revocation, by the key that signed what it changes
Change(g, status) ==
    /\ grants[g].status = "active" /\ grants[g].signer = account.key
    /\ Signs(g, status)

\* hail_assert_unfenced_account, on every write for the account
WritableAnyGeneration(generation) == open.state = "none"

Writable(generation) == generation = account.generation /\ open.state = "none"

Store ==
    /\ request # None
    /\ grants' = IF Writable(request.generation) /\ grants[request.grant].revision + 1 = request.revision
                 THEN [grants EXCEPT ![request.grant] =
                          [status |-> request.status, revision |-> request.revision,
                           signer |-> request.key, acked |-> FALSE]]
                 ELSE grants
    /\ request' = None
    /\ UNCHANGED <<keyVars, plcVars, open, calls, file, signed, publishing, faults>>

Acknowledge(g) ==
    /\ grants[g].status # "none" /\ ~grants[g].acked /\ Writable(account.generation)
    /\ grants' = [grants EXCEPT ![g].acked = TRUE]
    /\ UNCHANGED <<keyVars, plcVars, open, calls, file, request, signed, publishing, faults>>

\* A publication to a category is accepted; its last target is sent to,
\* cancelled or given up at the deadline.
Publish ==
    /\ ~publishing /\ Writable(account.generation)
    /\ publishing' = TRUE
    /\ UNCHANGED <<keyVars, plcVars, open, calls, file, grants, request, signed, faults>>

EndPublication ==
    /\ publishing /\ Writable(account.generation)
    /\ publishing' = FALSE
    /\ UNCHANGED <<keyVars, plcVars, open, calls, file, grants, request, signed, faults>>
-----------------------------------------------------------------------------
Serve(c) == Look(c) \/ Send(c) \/ Sent(c) \/ Confirm(c) \/ Materialize(c) \/ Prepare(c)

Next ==
    \/ ReplaceVault \/ SaveState \/ Finish \/ Expire
    \/ OwnOperation \/ Mirror \/ FailOver \/ Store \/ Publish \/ EndPublication
    \/ \E op \in inflight : Land(op)
    \/ \E c \in Calls : ReviewOwner(c) \/ ReviewManaged(c) \/ Record(c) \/ Serve(c) \/ Abandon(c)
    \/ \E g \in Grants : \/ Acknowledge(g) \/ Issue(g)
                        \/ \E s \in {"active", "revoked"} : Change(g, s)

Spec == Init /\ [][Next]_vars

\* The owner repeats an approved commit until it answers complete; a request
\* runs on; the directory takes what it is sent and its reader catches up.
Fairness ==
    /\ \A c \in Calls : WF_vars(Record(c)) /\ WF_vars(Serve(c))
    /\ WF_vars(\E op \in inflight : Land(op))
    /\ WF_vars(Mirror)

LiveSpec == Spec /\ Fairness
-----------------------------------------------------------------------------
(***************************************************************************)
(* Properties.                                                             *)
(***************************************************************************)

\* The identity key the directory names is one the right party holds.  Where
\* no operation is out, it is the key of the account's custody; where one is,
\* it is the old or the approved new one.  The party in custody, and it alone,
\* holds the account's key, and the owner's vault holds the key a transition
\* to the owner will make current: a crash of the command line between its
\* two files, or a retry, never replaces it (custody-transition.ts, custody.rs).
IdentityIsHeld ==
    /\ IF open.state = "recorded" THEN Head1.key \in {open.old, open.new} ELSE Head1.key = account.key
    /\ IF account.kind = "managed" THEN account.key \in provider
       ELSE vault = account.key /\ account.key \notin provider
    /\ (open.state # "none" /\ open.dir = "owner" => vault = open.new)

\* While the provider has custody every active Grant is signed by the key in
\* custody: none signed under the old key slips past the transition
\* (custody-transition.ts prepare, materialize).
ManagedGrantsFollow == account.kind = "managed" => \A g \in Active : grants[g].signer = account.key

\* Whoever has custody, every active Grant is signed by the key in custody
\* (custody-transition.ts reviewOwner, prepareOwner, materialize).
GrantsFollow == \A g \in Active : grants[g].signer = account.key

\* The owner's recovery key was used outside the transition, and the approved
\* operation can no longer be the directory's last
Overtaken == Len(plc) > open.prev /\ ~Ours(plc, open)

\* What the transaction of materialize will find: the Grants as they were
\* reviewed, and no publication to a category pending
Unobstructed == Unmoved(open.succ) /\ ~publishing

\* A recorded transition that is unobstructed completes, however often its
\* sending was ambiguous or its request died, whatever the reader showed and
\* however long ago it was approved, unless the owner uses the recovery key
\* outside it; and the fence keeps it unobstructed until then
\* (custody-transition.ts commit, materialize).  One that is obstructed when it
\* is recorded, by a Grant changed between the review and the preparation or by
\* a pending publication to a category, is refused at every repetition.
RecordedFinishes == open.state = "recorded" /\ Unobstructed ~> open.state = "none" \/ Overtaken
=============================================================================
