---------------------------- MODULE CommandLine ----------------------------
(***************************************************************************)
(* The owner's command line (apps/cli/src): it makes an account with       *)
(* account_create.rs, logs in with account_access.rs and rotates its API   *)
(* credentials with credentials.rs, against the onboarding route, account  *)
(* access and the credential route of the provider.                        *)
(*                                                                         *)
(* A command saves what it will need again before it calls the provider,   *)
(* and is run again after any interruption; an interruption between two    *)
(* steps, or an answer that was lost after the provider acted on the       *)
(* request, is a behaviour in which the next step comes later.  A token is *)
(* named for the command that drew it.                                     *)
(***************************************************************************)
EXTENDS Signup

CONSTANT Outputs    \* the credential files of rotations

\* each command draws a token of its own
ASSUME OutputsAssumption == Outputs \cap {"signup", "login"} = {}

VARIABLES
    file,       \* the state file of account create
    vault,      \* the DID the vault is bound to
    waiting,    \* the call account create waits for
    creds,      \* account_api_credentials, by token
    held,       \* the tokens of the credential files the owner keeps
    login,      \* the state file of account login and its challenge
    rotation    \* the state file of each rotation

signupVars == <<file, vault, waiting>>
cliVars == <<signupVars, creds, held, login, rotation>>
allVars == <<vars, cliVars>>

Tokens == {"signup", "login"} \cup Outputs

CliTypeOK ==
    /\ TypeOK
    /\ file \in [at : {"none", "new", "prepared", "signed"}, op : Operations \cup {None}, done : BOOLEAN]
    /\ vault \in Operations \cup {None}
    /\ waiting \in Controllers \cup {None}
    /\ creds \in [Tokens -> {"none", "live", "revoked"}]
    /\ held \subseteq Tokens
    /\ login \in [file : {"none", "new", "signed", "done"}, challenge : {"none", "open", "spent"}, live : BOOLEAN]
    /\ rotation \in [Outputs -> [at : {"none", "pending", "saved", "done"}, from : Tokens \cup {None}]]

CliInit ==
    /\ Init
    /\ file = [at |-> "none", op |-> None, done |-> FALSE]
    /\ vault = None
    /\ waiting = None
    /\ creds = [t \in Tokens |-> "none"]
    /\ held = {}
    /\ login = [file |-> "none", challenge |-> "none", live |-> TRUE]
    /\ rotation = [o \in Outputs |-> [at |-> "none", from |-> None]]

(***************************************************************************)
(* account create.                                                         *)
(***************************************************************************)
\* the state file, with the token of the signup, before anything else
CreateState ==
    /\ row.channel = "cli" /\ file.at = "none"
    /\ file' = [file EXCEPT !.at = "new"]
    /\ UNCHANGED <<vars, vault, waiting, creds, held, login, rotation>>

\* the route admits the registration, then reserves the address (PrivatePocOnboarding.prepare)
Prepare ==
    /\ file.at = "new"
    /\ Admit \/ Reserve
    /\ UNCHANGED cliVars

\* the preparation answered, to this request or to its repetition, is reviewed and saved
SavePreparation ==
    /\ file.at = "new" /\ Stands /\ account.state # "none"
    /\ file' = [file EXCEPT !.at = "prepared"]
    /\ UNCHANGED <<vars, vault, waiting, creds, held, login, rotation>>

\* genesis and binding are signed once, by a vault that is bound to nothing, and saved unsent
Signs == file.at = "prepared" /\ vault = None

SignGenesis(op) ==
    /\ Signs
    /\ file' = [file EXCEPT !.at = "signed", !.op = op]
    /\ UNCHANGED <<vars, vault, waiting, creds, held, login, rotation>>

BindVault ==
    /\ file.at = "signed" /\ vault = None
    /\ vault' = file.op
    /\ UNCHANGED <<vars, file, waiting, creds, held, login, rotation>>

\* the signed registration is sent; the route needs a live admission, and takes no lock
Request(c) ==
    /\ file.at = "signed" /\ vault = file.op /\ ~file.done /\ waiting = None
    /\ run[c].at = "idle" /\ Admitted
    /\ run' = [run EXCEPT ![c] = [Idle EXCEPT !.at = "bind", !.op = file.op]]
    /\ waiting' = c
    /\ UNCHANGED <<row, accountVars, lock, accessVars, faults, file, vault, creds, held, login, rotation>>

\* AccountApiRepository.authenticate: a credential that is neither revoked nor of an earlier
\* generation.  That a credential ends thirty days after its issue is not modelled.
Authenticates(token) == creds[token] = "live"

\* AccountApiRepository.issue with a token the caller drew: again, the same credential
Issues(token) == account.state = "active" /\ creds[token] # "revoked"

IssueCredential(c) ==
    /\ row.channel = "cli" /\ run[c].at = "issue"
    /\ IF Issues("signup")
       THEN creds' = [creds EXCEPT !["signup"] = "live"] /\ Go(c, "enroll") /\ UNCHANGED lock
       ELSE Leave(c) /\ UNCHANGED creds
    /\ UNCHANGED <<row, accountVars, accessVars, faults, signupVars, held, login, rotation>>

SaveCredential ==
    /\ file' = [file EXCEPT !.done = TRUE]
    /\ held' = held \cup {"signup"}
    /\ waiting' = None

\* the enrollment capability for the token in the state file; the answer carries both
IssueEnrollment(c) ==
    /\ run[c].at = "enroll"
    /\ cap' = [cap EXCEPT !["setup"] = IF @ = "none" THEN "open" ELSE @]
    /\ Leave(c)
    /\ IF waiting = c THEN SaveCredential ELSE UNCHANGED <<file, held, waiting>>
    /\ UNCHANGED <<row, accountVars, passkeys, revoked, sessions, asked, faults, vault, creds, login, rotation>>

\* the call failed
Refused ==
    /\ waiting # None /\ run[waiting].at = "idle"
    /\ waiting' = None
    /\ UNCHANGED <<vars, file, vault, creds, held, login, rotation>>

\* the owner stops waiting, or the command is killed: the call goes on
StopWaiting ==
    /\ Fault("timeout") /\ waiting # None /\ run[waiting].at # "idle"
    /\ waiting' = None
    /\ UNCHANGED <<row, accountVars, run, lock, accessVars, file, vault, creds, held, login, rotation>>

(***************************************************************************)
(* account login: AccountAccess.prepare and complete.                      *)
(***************************************************************************)
LoginStart ==
    /\ login.file = "none" /\ vault # None /\ file.done
    /\ login' = [login EXCEPT !.file = "new"]
    /\ UNCHANGED <<vars, signupVars, creds, held, rotation>>

\* one challenge for the token's hash; it lives as long as the state file, five minutes
LoginPrepare ==
    /\ login.file = "new" /\ login.challenge = "none"
    /\ login' = [login EXCEPT !.challenge = "open"]
    /\ UNCHANGED <<vars, signupVars, creds, held, rotation>>

Reviewed == login.challenge # "none" /\ login.live

\* challenge and signature are saved before the proof is sent
LoginSign ==
    /\ login.file = "new" /\ Reviewed
    /\ login' = [login EXCEPT !.file = "signed"]
    /\ UNCHANGED <<vars, signupVars, creds, held, rotation>>

LoginComplete ==
    /\ login.file = "signed" /\ login.challenge = "open" /\ login.live /\ account.state = "active"
    /\ creds' = [creds EXCEPT !["login"] = "live"]
    /\ login' = [login EXCEPT !.challenge = "spent"]
    /\ UNCHANGED <<vars, signupVars, held, rotation>>

\* the answer, to this proof or to its repetition while the challenge lives
LoginSave ==
    /\ login.file = "signed" /\ login.challenge = "spent" /\ login.live /\ Authenticates("login")
    /\ held' = held \cup {"login"}
    /\ login' = [login EXCEPT !.file = "done"]
    /\ UNCHANGED <<vars, signupVars, creds, rotation>>

LoginExpires ==
    /\ Fault("expiry") /\ login.live /\ login.file \in {"new", "signed"}
    /\ login' = [login EXCEPT !.live = FALSE]
    /\ UNCHANGED <<row, accountVars, run, lock, accessVars, signupVars, creds, held, rotation>>

(***************************************************************************)
(* credentials rotate.                                                     *)
(***************************************************************************)
\* the source still works: the new token is saved in the state and the output file
RotateStart(o, t) ==
    /\ rotation[o].at = "none" /\ t \in held \ {o} /\ Authenticates(t)
    /\ rotation' = [rotation EXCEPT ![o] = [at |-> "pending", from |-> t]]
    /\ UNCHANGED <<vars, signupVars, creds, held, login>>

\* the output's token is not known yet: credentials create, by the source's authority
RotateCreate(o) ==
    /\ rotation[o].at = "pending" /\ creds[o] = "none"
    /\ Authenticates(rotation[o].from) /\ Issues(o)
    /\ creds' = [creds EXCEPT ![o] = "live"]
    /\ UNCHANGED <<vars, signupVars, held, login, rotation>>

\* the replacement authenticates: its record is saved ...
RotateSave(o) ==
    /\ rotation[o].at = "pending" /\ Authenticates(o)
    /\ rotation' = [rotation EXCEPT ![o].at = "saved"]
    /\ held' = held \cup {o}
    /\ UNCHANGED <<vars, signupVars, creds, login>>

\* ... and revokes the source by its own authority
RevokesPending(o) == rotation[o].at = "pending"

Revokes(o) == rotation[o].at = "saved" /\ Authenticates(o)

RotateRevoke(o) ==
    /\ Revokes(o)
    /\ creds' = [creds EXCEPT ![rotation[o].from] = "revoked"]
    /\ \/ rotation' = [rotation EXCEPT ![o].at = "done"]
       \/ UNCHANGED rotation                              \* the answer is lost
    /\ UNCHANGED <<vars, signupVars, held, login>>
-----------------------------------------------------------------------------
CliStep(c) == (Step(c) /\ UNCHANGED cliVars) \/ IssueCredential(c) \/ IssueEnrollment(c)

Create ==
    \/ CreateState \/ Prepare \/ SavePreparation \/ BindVault \/ Refused \/ StopWaiting
    \/ \E op \in Operations : SignGenesis(op)
    \/ \E c \in Controllers : Request(c) \/ IssueCredential(c) \/ IssueEnrollment(c)

Login == LoginStart \/ LoginPrepare \/ LoginSign \/ LoginComplete \/ LoginSave \/ LoginExpires

Rotate ==
    \E o \in Outputs :
        \/ RotateCreate(o) \/ RotateSave(o) \/ RotateRevoke(o)
        \/ \E t \in Tokens : RotateStart(o, t)

CliNext == (Next /\ UNCHANGED cliVars) \/ Create \/ Login \/ Rotate

CliSpec == CliInit /\ [][CliNext]_allVars

\* The owner's browser calls advance until the account is active, and keeps
\* bringing the operation it saved with the pending signup; the owner runs
\* account create again until it succeeds; a call runs on; what was sent to
\* the directory reaches it.
Repeated ==
    \/ BindVault \/ Refused
    \/ \E c \in Controllers : Request(c) \/ (Advance(c) /\ UNCHANGED cliVars)

Fairness ==
    /\ WF_allVars(Repeated)
    /\ \A c \in Controllers :
          /\ WF_allVars(CliStep(c))
          /\ SF_allVars(\E op \in Operations : op = row.op /\ Store(c, op) /\ UNCHANGED cliVars)
    /\ \A op \in Operations : WF_allVars(Land(op) /\ UNCHANGED cliVars)

LiveSpec == CliSpec /\ Fairness
-----------------------------------------------------------------------------
(***************************************************************************)
(* Properties.                                                             *)
(***************************************************************************)

\* Whatever calls overlap, die, lose their connection or are repeated with
\* another operation, the directory is only ever sent one genesis, and the
\* ceremony or the owner's state file and vault, the address binding and the
\* account all name that one (signup.ts advance, public.ts and private-poc.ts
\* register, account_create.rs).
OneGenesis ==
    \A op \in plc \cup inflight :
        /\ account.did = op /\ account.binding = op
        /\ IF row.channel = "browser" THEN row.op = op ELSE file.op = op /\ vault = op

\* The call that held the activation died: register refuses the state it left,
\* and only advance, which the command line never calls, puts it back.
Stranded ==
    /\ row.channel = "cli" /\ account.state = "activating"
    /\ \A c \in Controllers : run[c].at \notin {"begin", "attempt", "verify"}

Finished == IF row.channel = "browser" THEN cap["setup"] # "none" \/ LiveKeys # {} ELSE file.done

\* A signup that holds its operation comes to an enrollment capability or a
\* saved credential, unless it expires: no crash, lost connection, unanswered
\* submission or abandoned command leaves it where a repetition does not take
\* it further, but for the activation a dead call of the command line left
\* (signup.ts advance, public.ts register, account_create.rs).
SignupFinishes ==
    (row.op # None \/ file.op # None) ~> (Finished \/ ~row.live \/ Stranded)

\* The owner is never locked out.  An account that has had a passkey keeps a live
\* one (passkeys.ts revoke), and once signup has handed over a credential some
\* credential file of the owner works: rotations from one source, in a chain or
\* repeated after a lost answer never revoke the last one (credentials.rs rotate).
\* The thirty days a credential is valid for are taken not to be over.
KeepsAccess ==
    /\ KeepsAKey
    /\ file.done => \E t \in held : Authenticates(t)
=============================================================================
