---------------------------- MODULE SecurityEmail ----------------------------
(***************************************************************************)
(* Where identity notices go.  Before a provider enrolls a new account     *)
(* with its monitor, the owner proves the address that will receive the    *)
(* monitor's notices: the alert worker mails a code, the owner returns it, *)
(* and the proven address is bound to the account's genesis operation.     *)
(* One signup is modelled.  A code is named by the send that made it, so a *)
(* later send replaces the code of an earlier one.                         *)
(*                                                                         *)
(* Time appears as the flag "expired" of the retained signup: ten minutes  *)
(* for a code, a day for a proven address.  The sixty seconds between two  *)
(* sends and the hour of the rate window are not timed; MaxSends stands    *)
(* for the five sends a mailbox is allowed within the hour.                *)
(***************************************************************************)
EXTENDS Integers, Sequences

CONSTANTS MaxSends, MaxAttempts

ASSUME EmailBounds == MaxSends \in Nat /\ MaxAttempts \in Nat \ {0}

VARIABLES
    signup,     \* the retained signup: state, claim, attempts, expired
    started,    \* how many sends were started, the name of the latest code
    letters,    \* sends under way at the mail service
    inbox,      \* codes that reached the owner's mailbox
    recipient   \* the send whose code proved the bound address, 0 for none

emailVars == <<signup, started, letters, inbox, recipient>>

Sends == 1..MaxSends

NoSignup == [state |-> "none", claim |-> 0, attempts |-> 0, expired |-> FALSE]

EmailTypeOK ==
    /\ signup \in [state : {"none", "sending", "pending", "verified", "bound"},
                   claim : 0..MaxSends, attempts : 0..MaxAttempts, expired : BOOLEAN]
    /\ started \in 0..MaxSends
    /\ letters \subseteq Sends
    /\ inbox \subseteq Sends
    /\ recipient \in 0..MaxSends

EmailInit ==
    /\ signup = NoSignup
    /\ started = 0
    /\ letters = {}
    /\ inbox = {}
    /\ recipient = 0

\* A bound address, and a proven one that has not expired, need no new code;
\* a pending one gets another only when the owner asks for it or it expired.
\* The signup is saved as "sending" before the mail service is called.
StartSignup ==
    /\ signup.state # "bound"
    /\ signup.state = "verified" => signup.expired
    /\ started < MaxSends
    /\ started' = started + 1
    /\ signup' = [state |-> "sending", claim |-> started', attempts |-> 0, expired |-> FALSE]
    /\ letters' = letters \cup {started'}
    /\ UNCHANGED <<inbox, recipient>>

\* The mail service takes the letter; its answer may never reach the worker.
LetterArrives(c) ==
    /\ c \in letters \ inbox
    /\ inbox' = inbox \cup {c}
    /\ UNCHANGED <<signup, started, letters, recipient>>

\* The send returns.  Only the newest send moves the signup on to "pending",
\* and not if the code was already returned; a refused or late one leaves it.
SendReturns(c) ==
    /\ c \in letters
    /\ letters' = letters \ {c}
    /\ signup' = [signup EXCEPT !.state =
                    IF c \in inbox /\ signup.claim = c /\ @ = "sending" THEN "pending" ELSE @]
    /\ UNCHANGED <<started, inbox, recipient>>

\* The owner returns a code; 0 stands for a mistyped one.  A code is good in
\* "sending" too: the letter may arrive before its send is recorded.
VerifyCode(c) ==
    /\ c \in inbox \cup {0}
    /\ signup.state \in {"sending", "pending"}
    /\ ~signup.expired
    /\ signup.attempts < MaxAttempts
    /\ signup' = [signup EXCEPT !.attempts = @ + 1,
                                !.state = IF c = signup.claim THEN "verified" ELSE @]
    /\ UNCHANGED <<started, letters, inbox, recipient>>

\* Binding takes the DID and operation the provider retained for the genesis,
\* never ones the browser chose, and a bound signup only repeats its answer.
BindAddress ==
    /\ signup.state = "verified"
    /\ ~signup.expired
    /\ signup' = [signup EXCEPT !.state = "bound"]
    /\ recipient' = signup.claim
    /\ UNCHANGED <<started, letters, inbox>>

\* The retained code or proof reaches the end of its lifetime.
SignupExpires ==
    /\ signup.state \in {"sending", "pending", "verified"}
    /\ ~signup.expired
    /\ signup' = [signup EXCEPT !.expired = TRUE]
    /\ UNCHANGED <<started, letters, inbox, recipient>>

\* The hourly alarm drops expired signups and keeps bound ones.
PruneSignup ==
    /\ signup.state # "bound"
    /\ signup.expired
    /\ signup' = NoSignup
    /\ UNCHANGED <<started, letters, inbox, recipient>>

EmailNext ==
    \/ StartSignup
    \/ \E c \in Sends : LetterArrives(c) \/ SendReturns(c)
    \/ \E c \in 0..MaxSends : VerifyCode(c)
    \/ BindAddress
    \/ SignupExpires
    \/ PruneSignup
==============================================================================
