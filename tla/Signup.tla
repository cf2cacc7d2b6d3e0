------------------------------- MODULE Signup -------------------------------
(***************************************************************************)
(* An account from its first request to its owner's passkey                *)
(* (src/onboarding, src/accounts/passkeys.ts and access.ts): the signup    *)
(* ceremony, the genesis operation sent to the PLC directory, activation,  *)
(* the one enrollment capability, and the passkeys, sessions and owner     *)
(* proofs the account is used with afterwards.                             *)
(*                                                                         *)
(* A controller is one call of SignupCoordinator.advance.  It holds a      *)
(* database connection, and with it the advisory lock; when the connection *)
(* goes, the lock goes, but the call runs on through the pool until it     *)
(* next needs its own connection.  Of a controller epoch or an activation  *)
(* attempt only its owner matters: it is the call that drew it.  A genesis *)
(* operation and the DID it creates are one value.  An account is made in  *)
(* the browser, through a ceremony, or by the command line (CommandLine),  *)
(* whose calls have neither ceremony nor lock.                             *)
(***************************************************************************)
EXTENDS Naturals, FiniteSets

CONSTANTS Controllers,
          Operations,    \* the genesis operations the owner's devices may sign
          Keys,          \* passkeys
          Faults,        \* what may happen: "crash", "connection", "timeout", "poll", "expiry"
          MaxFaults,
          None

ASSUME SignupAssumption ==
    /\ None \notin Operations \cup Keys \cup Controllers \cup {"setup", "owner", "session"}
    /\ Keys \cap {"none", "open", "expired"} = {} /\ MaxFaults \in Nat

VARIABLES
    row,        \* provider_signup_admissions with, in the browser, its ceremony
    account,    \* provider_accounts with its binding and onboarding evidence
    plc,        \* the genesis operations the directory holds
    inflight,   \* those on their way to it
    run,        \* the running calls of advance
    lock,       \* the holder of the signup advisory lock
    cap,        \* account_passkey_enrollment_capabilities, by whose authority
    passkeys,   \* account_passkeys: whose authority enrolled it
    revoked,    \* the passkeys revoked_at is set for
    sessions,   \* account_passkey_sessions opened recently, by passkey
    asked,      \* revocations admitted and not yet committed
    faults

vars == <<row, account, plc, inflight, run, lock, cap, passkeys, revoked, sessions, asked, faults>>
accountVars == <<account, plc, inflight>>
accessVars == <<cap, passkeys, revoked, sessions, asked>>

Authorities == {"setup", "owner", "session"}
Idle == [at |-> "idle", op |-> None, seen |-> "none", connected |-> FALSE]

States == {"none", "reserved", "prepared", "submission-unknown", "did-registered",
           "address-staged", "activating", "active"}
Places == {"idle", "store", "account", "bind", "submit", "send", "sent", "confirm", "stage",
           "monitor", "begin", "attempt", "verify", "issue", "enroll"}

TypeOK ==
    /\ row \in [channel : {"browser", "cli"}, at : {"none", "admitted", "attached"}, package : BOOLEAN, digest : Operations \cup {None},
                op : Operations \cup {None}, newest : Controllers \cup {None}, live : BOOLEAN, completed : BOOLEAN]
    /\ account \in [state : States, did : Operations \cup {None}, binding : Operations \cup {None},
                    attempt : Controllers \cup {None}, evidence : BOOLEAN]
    /\ plc \subseteq Operations /\ inflight \subseteq Operations
    /\ run \in [Controllers -> [at : Places, op : Operations \cup {None}, seen : States, connected : BOOLEAN]]
    /\ lock \in Controllers \cup {None}
    /\ cap \in [{"setup", "owner"} -> {"none", "open", "expired"} \cup Keys]
    /\ passkeys \in [Keys -> Authorities \cup {None}]
    /\ revoked \subseteq Keys
    /\ sessions \subseteq Keys
    /\ asked \subseteq Keys \X Keys
    /\ faults \in 0..MaxFaults

Init ==
    /\ \E channel \in {"browser", "cli"}, package \in BOOLEAN :
          /\ package => channel = "browser"
          /\ row = [channel |-> channel, at |-> "none", package |-> package, digest |-> None, op |-> None,
                     newest |-> None, live |-> TRUE, completed |-> FALSE]
    /\ account = [state |-> "none", did |-> None, binding |-> None, attempt |-> None, evidence |-> FALSE]
    /\ plc = {} /\ inflight = {}
    /\ run = [c \in Controllers |-> Idle]
    /\ lock = None
    /\ cap = [a \in {"setup", "owner"} |-> "none"]
    /\ passkeys = [k \in Keys |-> None]
    /\ revoked = {}
    /\ sessions = {}
    /\ asked = {}
    /\ faults = 0

Fault(kind) == kind \in Faults /\ faults < MaxFaults /\ faults' = faults + 1

(***************************************************************************)
(* SignupCoordinator: the ceremony row.                                    *)
(***************************************************************************)
Admitted == row.at # "none" /\ row.live
Stands == Admitted /\ ~row.completed

\* prepare: the registration is admitted, in the browser with its ceremony in one transaction
Admit ==
    /\ row.at = "none"
    /\ row' = [row EXCEPT !.at = "admitted"]
    /\ UNCHANGED <<accountVars, run, lock, accessVars, faults>>

\* PublicOnboarding.prepare: reserve the address with fresh provider keys;
\* a retry finds the row made for the same signup token
Reserve ==
    /\ Stands /\ row.at = "admitted" /\ account.state = "none"
    /\ account' = [account EXCEPT !.state = "reserved"]
    /\ UNCHANGED <<row, plc, inflight, run, lock, accessVars, faults>>

\* prepareAccount: the ceremony takes the reserved account
Attach ==
    /\ row.channel = "browser"
    /\ Stands /\ row.at = "admitted" /\ account.state # "none"
    /\ row' = [row EXCEPT !.at = "attached"]
    /\ UNCHANGED <<accountVars, run, lock, accessVars, faults>>

\* verifyBackup: pins the digest of the operation in the saved package
VerifyBackup(op) ==
    /\ Stands /\ row.at = "attached" /\ row.package
    /\ row.digest = None
    /\ row' = [row EXCEPT !.digest = op]
    /\ UNCHANGED <<accountVars, run, lock, accessVars, faults>>

Expire ==
    /\ Fault("expiry") /\ row.live
    /\ row' = [row EXCEPT !.live = FALSE]
    /\ UNCHANGED <<accountVars, run, lock, accessVars>>

(***************************************************************************)
(* advance.                                                                *)
(***************************************************************************)
Go(c, place) == run' = [run EXCEPT ![c].at = place, ![c].seen = "none"]
Free(c) == lock' = IF lock = c THEN None ELSE lock
Leave(c) == run' = [run EXCEPT ![c] = Idle] /\ Free(c)

\* advance, up to the new epoch: whoever ran before is superseded
Advance(c) ==
    /\ run[c].at = "idle" /\ lock = None
    /\ Stands /\ row.at = "attached" /\ (row.package => row.digest # None)
    /\ lock' = c
    /\ row' = [row EXCEPT !.newest = c]
    /\ run' = [run EXCEPT ![c] = [Idle EXCEPT !.at = "store", !.connected = TRUE]]
    /\ UNCHANGED <<accountVars, accessVars, faults>>

\* The operation is kept when it is the first one, and must equal the one kept
AcceptsAnyLater(op) == row.package => op = row.digest

Accepts(op) == (row.package => op = row.digest) /\ (row.op # None => op = row.op)

Bring(c, op) == run' = [run EXCEPT ![c].at = "account", ![c].op = op]

Store(c, op) ==
    /\ run[c].at = "store" /\ run[c].connected
    /\ IF Accepts(op)
       THEN row' = [row EXCEPT !.op = op] /\ Bring(c, op) /\ UNCHANGED lock
       ELSE Leave(c) /\ UNCHANGED row
    /\ UNCHANGED <<accountVars, accessVars, faults>>

\* A call that brings no operation goes on with the one kept, or only reports
Poll(c) ==
    /\ Fault("poll") /\ run[c].at = "store" /\ run[c].connected
    /\ IF row.op # None THEN Bring(c, row.op) /\ UNCHANGED lock ELSE Leave(c)
    /\ UNCHANGED <<row, accountVars, accessVars>>

\* cancelActivation: only the attempt named is undone
Cancelled(attempt) ==
    IF account.state = "activating" /\ account.attempt = attempt
    THEN [account EXCEPT !.state = "address-staged", !.attempt = None] ELSE account

\* advance reads the account, undoing the attempt of an abandoned controller
ReadAccount(c) ==
    /\ run[c].at = "account"
    /\ account' = Cancelled(account.attempt)
    /\ run' = [run EXCEPT ![c].at = IF account.state = "active" THEN "issue" ELSE "bind"]
    /\ UNCHANGED <<row, plc, inflight, lock, accessVars, faults>>

(***************************************************************************)
(* PublicOnboarding.register.  It works from the account it read and reads *)
(* it again only where it changed it itself.                               *)
(***************************************************************************)
AfterStaging == IF row.channel = "browser" THEN "monitor" ELSE "begin"

AfterRegisterOnce(state) ==
    CASE state = "prepared" -> "submit"
      [] state = "did-registered" -> "stage"
      [] state \in {"address-staged", "active"} -> AfterStaging
      [] OTHER -> "idle"

AfterRegister(state) ==
    CASE state \in {"prepared", "submission-unknown"} -> "submit"
      [] state = "did-registered" -> "stage"
      [] state \in {"address-staged", "active"} -> AfterStaging
      [] OTHER -> "idle"

\* the binding cached for the first DID, the reserved account bound to it
Bound(op) == [account EXCEPT !.binding = IF @ = None THEN op ELSE @,
                             !.did = IF account.state = "reserved" THEN op ELSE @,
                             !.state = IF @ = "reserved" THEN "prepared" ELSE @]

Bind(c) ==
    LET bound == Bound(run[c].op)
        agreed == bound.binding = run[c].op /\ bound.did = run[c].op
        next == AfterRegister(bound.state) IN
    /\ run[c].at = "bind"
    /\ IF agreed /\ next # "idle"
       THEN /\ run' = [run EXCEPT ![c].at = next, ![c].seen = IF next = "submit" THEN bound.state ELSE "none"]
            /\ account' = bound /\ UNCHANGED lock
       ELSE /\ Leave(c)
            /\ account' = IF agreed THEN bound ELSE [account EXCEPT !.binding = bound.binding]
    /\ UNCHANGED <<row, plc, inflight, accessVars, faults>>

\* the directory is asked first; only an absent operation is submitted
Submit(c) ==
    /\ run[c].at = "submit"
    /\ IF account.did \in plc
       THEN Go(c, "confirm") /\ UNCHANGED <<account, lock>>
       ELSE IF run[c].seen = "prepared"
            THEN \/ /\ account.state \in {"prepared", "submission-unknown"}    \* beginSubmission
                    /\ account' = [account EXCEPT !.state = "submission-unknown"]
                    /\ Go(c, "send") /\ UNCHANGED lock
                 \/ /\ account.state \notin {"prepared", "submission-unknown"}
                    /\ Leave(c) /\ UNCHANGED account
            ELSE Go(c, "send") /\ UNCHANGED <<account, lock>>
    /\ UNCHANGED <<row, plc, inflight, accessVars, faults>>

Send(c) ==
    /\ run[c].at = "send"
    /\ inflight' = inflight \cup {account.did}
    /\ Go(c, "sent")
    /\ UNCHANGED <<row, account, plc, lock, accessVars, faults>>

Land(op) ==
    /\ op \in inflight
    /\ plc' = plc \cup {op} /\ inflight' = inflight \ {op}
    /\ UNCHANGED <<row, account, run, lock, accessVars, faults>>

Sent(c) ==
    /\ run[c].at = "sent" /\ account.did \in plc
    /\ Go(c, "confirm")
    /\ UNCHANGED <<row, accountVars, lock, accessVars, faults>>

\* the submission failed and a second look does not show the operation
SentUnknown(c) ==
    /\ Fault("timeout") /\ run[c].at = "sent" /\ account.did \notin plc
    /\ Leave(c)
    /\ UNCHANGED <<row, accountVars, accessVars>>

Moved(c, from, to, place) ==
    IF account.state \in from
    THEN account' = [account EXCEPT !.state = to] /\ Go(c, place) /\ UNCHANGED lock
    ELSE Leave(c) /\ UNCHANGED account

\* markDidRegistered, after the directory's answer was checked
Confirm(c) ==
    /\ run[c].at = "confirm"
    /\ Moved(c, {"prepared", "submission-unknown"}, "did-registered", "stage")
    /\ UNCHANGED <<row, plc, inflight, accessVars, faults>>

\* stageAddressBinding
Stage(c) ==
    /\ run[c].at = "stage"
    /\ Moved(c, {"did-registered"}, "address-staged", AfterStaging)
    /\ UNCHANGED <<row, plc, inflight, accessVars, faults>>

\* The monitor attests the genesis and advance keeps what it signed: its own connection again
Monitored(c) ==
    /\ run[c].at = "monitor"
    /\ IF run[c].connected /\ account.state \in {"did-registered", "address-staged", "active"} /\ Stands
       THEN Go(c, "begin") /\ UNCHANGED lock
       ELSE Leave(c)
    /\ UNCHANGED <<row, accountVars, accessVars, faults>>

MonitorWaits(c) ==
    /\ Fault("timeout") /\ run[c].at = "monitor"
    /\ Leave(c)
    /\ UNCHANGED <<row, accountVars, accessVars>>

(***************************************************************************)
(* PublicOnboarding.activate; ActivationService.activate for the command   *)
(* line, which has no fence.                                               *)
(***************************************************************************)
\* signupFence: only the newest controller, while the ceremony stands
Fenced(c) == row.channel = "browser" => Stands /\ row.newest = c

\* activate: what an earlier call committed is taken if it rests on this attestation
EnterActivation(c) ==
    /\ run[c].at = "begin"
    /\ \/ Fenced(c) /\ Go(c, IF account.evidence THEN "issue" ELSE "attempt") /\ UNCHANGED lock
       \/ (~Fenced(c) \/ (account.evidence /\ row.channel = "browser")) /\ Leave(c)
    /\ UNCHANGED <<row, accountVars, accessVars, faults>>

\* beginActivation: a fresh attempt, or the place of one two minutes old
Attempted(c) == [account EXCEPT !.state = "activating", !.attempt = c]

BeginActivation(c) ==
    /\ run[c].at = "attempt"
    /\ \/ account.state \in {"address-staged", "activating"} /\ account' = Attempted(c)
          /\ Go(c, "verify") /\ UNCHANGED lock
       \/ account.state # "address-staged" /\ Leave(c) /\ UNCHANGED account
    /\ UNCHANGED <<row, plc, inflight, accessVars, faults>>

\* the published address was verified; fence, evidence and state in one transaction
Commits(c) == Fenced(c) /\ account.state = "activating" /\ account.attempt = c

Activate(c) ==
    /\ run[c].at = "verify" /\ Commits(c)
    /\ account' = [account EXCEPT !.state = "active", !.attempt = None, !.evidence = TRUE]
    /\ Go(c, "issue")
    /\ UNCHANGED <<row, plc, inflight, lock, accessVars, faults>>

\* superseded, or the published address could not be verified
ActivationFails(c) ==
    /\ run[c].at = "verify"
    /\ IF Commits(c) THEN Fault("timeout") ELSE UNCHANGED faults
    /\ account' = Cancelled(c)
    /\ Leave(c)
    /\ UNCHANGED <<row, plc, inflight, accessVars>>

\* the last transaction of advance: the enrollment capability is issued once
IssuableAgain(c) == Fenced(c) /\ account.state = "active"

Issuable(c) ==
    /\ Fenced(c) /\ account.state = "active"
    /\ cap["setup"] = "none" /\ \A k \in Keys : passkeys[k] = None

Issue(c) ==
    /\ row.channel = "browser" /\ run[c].at = "issue"
    /\ cap' = IF Issuable(c) THEN [cap EXCEPT !["setup"] = "open"] ELSE cap
    /\ Leave(c)
    /\ UNCHANGED <<row, accountVars, passkeys, revoked, sessions, asked, faults>>

Crash(c) ==
    /\ Fault("crash") /\ run[c].at # "idle"
    /\ Leave(c)
    /\ UNCHANGED <<row, accountVars, accessVars>>

\* the reserved connection is lost, and with it the lock
Disconnect(c) ==
    /\ Fault("connection") /\ run[c].connected
    /\ run' = [run EXCEPT ![c] = IF @.at = "store" THEN Idle ELSE [@ EXCEPT !.connected = FALSE]]
    /\ Free(c)
    /\ UNCHANGED <<row, accountVars, accessVars>>

(***************************************************************************)
(* Passkeys, sessions and owner proofs.                                    *)
(***************************************************************************)
\* Bound: the owner has authenticators when the account was made in the browser
Authenticators == IF row.channel = "browser" THEN Keys ELSE {}

Live(k) == passkeys[k] # None /\ k \notin revoked
LiveKeys == {k \in Keys : Live(k)}

\* completeRegistration with a capability: it enrolls one passkey, and answers a repeat
Enrolls(a, k) == cap[a] = "open" /\ passkeys[k] = None

\* recoveryOptions: the capability gets a challenge while the account is served
Challenged(a) == cap[a] = "open" /\ account.state = "active"

EnrollPasskey(a, k) ==
    /\ Challenged(a) /\ Enrolls(a, k)
    /\ cap' = [cap EXCEPT ![a] = k]
    /\ passkeys' = [passkeys EXCEPT ![k] = a]
    /\ UNCHANGED <<row, accountVars, run, lock, revoked, sessions, asked, faults>>

\* AccountAccess.prepare and complete: the owner's recovery key asks for a capability
Prove ==
    /\ account.state = "active" /\ cap["owner"] = "none" /\ Authenticators # {}
    /\ cap' = [cap EXCEPT !["owner"] = "open"]
    /\ UNCHANGED <<row, accountVars, run, lock, passkeys, revoked, sessions, asked, faults>>

CapabilityExpires(a) ==
    /\ Fault("expiry") /\ cap[a] # "none"
    /\ cap' = [cap EXCEPT ![a] = "expired"]
    /\ UNCHANGED <<row, accountVars, run, lock, passkeys, revoked, sessions, asked>>

\* authenticate: the challenge is consumed and the counter moved with the session
SignIn(k) ==
    /\ Live(k) /\ account.state = "active"
    /\ sessions' = sessions \cup {k}
    /\ UNCHANGED <<row, accountVars, run, lock, cap, passkeys, revoked, asked, faults>>

\* logout, revokeSessions, idle expiry, or the window of management() passing
SignOut(k) ==
    /\ sessions' = sessions \ {k}
    /\ UNCHANGED <<row, accountVars, run, lock, cap, passkeys, revoked, asked, faults>>

\* register: a recent session adds another passkey
AddKey(by, k) ==
    /\ by \in sessions /\ Live(by) /\ passkeys[k] = None
    /\ passkeys' = [passkeys EXCEPT ![k] = "session"]
    /\ UNCHANGED <<row, accountVars, run, lock, cap, revoked, sessions, asked, faults>>

\* revoke: the session is checked when the request comes in (its own passkey is refused) ...
AskRevoke(by, k) ==
    /\ by # k /\ by \in sessions /\ Live(by) /\ Live(k)
    /\ asked' = asked \cup {<<by, k>>}
    /\ UNCHANGED <<row, accountVars, run, lock, cap, passkeys, revoked, sessions, faults>>

\* ... and the keys when its transaction has locked them
Revocable(k) == k \in LiveKeys /\ LiveKeys # {k}

Revoke(by, k) ==
    /\ <<by, k>> \in asked
    /\ asked' = asked \ {<<by, k>>}
    /\ IF Revocable(k)
       THEN revoked' = revoked \cup {k} /\ sessions' = sessions \ {k}
       ELSE UNCHANGED <<revoked, sessions>>
    /\ UNCHANGED <<row, accountVars, run, lock, cap, passkeys, faults>>

\* complete: a recent passkey sign-in retires what setup could still do
Complete(k) ==
    /\ row.at = "attached" /\ ~row.completed /\ account.state = "active"
    /\ Live(k) /\ k \in sessions
    /\ row' = [row EXCEPT !.completed = TRUE]
    /\ cap' = [cap EXCEPT !["setup"] = IF @ = "none" THEN @ ELSE "expired"]
    /\ UNCHANGED <<accountVars, run, lock, passkeys, revoked, sessions, asked, faults>>
-----------------------------------------------------------------------------
\* What a call does by itself once it holds the ceremony
Step(c) ==
    \/ ReadAccount(c) \/ Bind(c) \/ Submit(c) \/ Send(c) \/ Sent(c)
    \/ Confirm(c) \/ Stage(c) \/ Monitored(c) \/ EnterActivation(c)
    \/ BeginActivation(c) \/ Activate(c) \/ ActivationFails(c) \/ Issue(c)

Access ==
    \/ Prove
    \/ \E a \in {"setup", "owner"} : CapabilityExpires(a) \/ \E k \in Authenticators : EnrollPasskey(a, k)
    \/ \E k \in Authenticators : SignIn(k) \/ SignOut(k) \/ Complete(k)
    \/ \E by, k \in Authenticators : AddKey(by, k) \/ AskRevoke(by, k) \/ Revoke(by, k)

Next ==
    \/ row.channel = "browser" /\ (Admit \/ Reserve)
    \/ Attach \/ Expire
    \/ \E op \in Operations : VerifyBackup(op) \/ Land(op)
    \/ \E c \in Controllers :
          \/ Advance(c) \/ Step(c) \/ Poll(c) \/ SentUnknown(c) \/ MonitorWaits(c)
          \/ Crash(c) \/ Disconnect(c)
          \/ \E op \in Operations : Store(c, op)
    \/ Access

Spec == Init /\ [][Next]_vars
-----------------------------------------------------------------------------
(***************************************************************************)
(* Properties.                                                             *)
(***************************************************************************)

\* In the browser, setup enrolls one passkey at most, and none once the owner
\* has completed the ceremony by signing in: neither a late call of advance nor
\* a repeated one opens the capability again (signup.ts advance, complete;
\* passkeys.ts).  The passkeys of an account made from the command line are not
\* modelled.
SetupAuthorityEnds ==
    [][\A k \in Keys : passkeys[k] = None /\ passkeys'[k] = "setup" =>
          ~row.completed /\ \A j \in Keys : passkeys[j] # "setup"]_vars

\* An account that has had a passkey keeps a live one: two sessions that revoke
\* each other's passkeys at the same time cannot both succeed (passkeys.ts revoke).
KeepsAKey == (\E k \in Keys : passkeys[k] # None) => LiveKeys # {}
=============================================================================
