-------------------------- MODULE DeliveryContract --------------------------
(***************************************************************************)
(* What the recipient provider promises about each replay key, without     *)
(* workers, leases, deadlines or permissions: a key is decided once; an    *)
(* accepted message moves through on-hold to exactly one terminal state,   *)
(* one revision per transition; it becomes visible only in the step that   *)
(* delivers it; a reply capability is held by at most one unfinished       *)
(* message, is consumed by the delivery and returned by the failure; and   *)
(* a delivery or a failure is queued for publication in the same step.     *)
(***************************************************************************)
EXTENDS Naturals

CONSTANTS Keys, Replies, NoKey, NoReply

VARIABLES state, revision, uses, capability, claimant, visible, published

cvars == <<state, revision, uses, capability, claimant, visible, published>>

Unfinished(k) == state[k] \in {"accepted", "on-hold"}

Init ==
    /\ state = [k \in Keys |-> "none"]
    /\ revision = [k \in Keys |-> 0]
    /\ uses = [k \in Keys |-> NoReply]
    /\ capability = [r \in Replies |-> "none"]
    /\ claimant = [r \in Replies |-> NoKey]
    /\ visible = {} /\ published = {}

\* A message is accepted; if it is a reply it takes the capability.
Accept(k, r) ==
    /\ state[k] = "none"
    /\ state' = [state EXCEPT ![k] = "accepted"]
    /\ revision' = [revision EXCEPT ![k] = 1]
    /\ uses' = [uses EXCEPT ![k] = r]
    /\ IF r = NoReply THEN UNCHANGED <<capability, claimant>>
       ELSE /\ capability[r] = "available"
            /\ capability' = [capability EXCEPT ![r] = "claimed"]
            /\ claimant' = [claimant EXCEPT ![r] = k]
    /\ UNCHANGED <<visible, published>>

Offer(r) ==
    /\ capability[r] = "none"
    /\ capability' = [capability EXCEPT ![r] = "available"]
    /\ UNCHANGED <<state, revision, uses, claimant, visible, published>>

Hold(k) ==
    /\ Unfinished(k)
    /\ state' = [state EXCEPT ![k] = "on-hold"]
    /\ revision' = [revision EXCEPT ![k] = revision[k] + 1]
    /\ UNCHANGED <<uses, capability, claimant, visible, published>>

\* The capability of a finished reply, which the message must hold.
Settle(k, s, holder) ==
    IF uses[k] = NoReply THEN UNCHANGED <<capability, claimant>>
    ELSE /\ capability[uses[k]] = "claimed" /\ claimant[uses[k]] = k
         /\ capability' = [capability EXCEPT ![uses[k]] = s]
         /\ claimant' = [claimant EXCEPT ![uses[k]] = holder]

Deliver(k) ==
    /\ Unfinished(k)
    /\ state' = [state EXCEPT ![k] = "delivered"]
    /\ revision' = [revision EXCEPT ![k] = revision[k] + 1]
    /\ visible' = visible \cup {k}
    /\ published' = published \cup {k}
    /\ Settle(k, "consumed", k)
    /\ UNCHANGED uses

Fail(k) ==
    /\ Unfinished(k)
    /\ state' = [state EXCEPT ![k] = "failed"]
    /\ revision' = [revision EXCEPT ![k] = revision[k] + 1]
    /\ published' = published \cup {k}
    /\ Settle(k, "available", NoKey)
    /\ UNCHANGED <<uses, visible>>

\* An account closes: its unfinished messages end and its inbox empties.
Cancel(S) ==
    /\ state' = [k \in Keys |-> IF k \in S /\ Unfinished(k) THEN "cancelled" ELSE state[k]]
    /\ revision' = [k \in Keys |-> IF k \in S /\ Unfinished(k) THEN revision[k] + 1
                                   ELSE revision[k]]
    /\ visible' = visible \ S
    /\ UNCHANGED <<uses, capability, claimant, published>>

Remove(k) ==
    /\ visible' = visible \ {k}
    /\ UNCHANGED <<state, revision, uses, capability, claimant, published>>

Next ==
    \/ \E k \in Keys : \/ \E r \in Replies \cup {NoReply} : Accept(k, r)
                       \/ Hold(k) \/ Deliver(k) \/ Fail(k) \/ Remove(k)
    \/ \E r \in Replies : Offer(r)
    \/ \E S \in SUBSET Keys : Cancel(S)

Spec == Init /\ [][Next]_cvars

=============================================================================
