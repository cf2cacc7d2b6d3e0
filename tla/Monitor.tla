------------------------------- MODULE Monitor -------------------------------
(***************************************************************************)
(* The independent monitor of an account's PLC identity: it polls the      *)
(* directory, retains the audited log, reports every operation it was not  *)
(* told to expect, and signs attestations that a provider relies on when   *)
(* an account is activated or moved.  A notifier posts the reports to an   *)
(* alert worker, which mails each of them.                                 *)
(*                                                                         *)
(* The directory's log is the sequence of its operations' predecessors: the*)
(* operation at position i follows the one at position log[i], and makes   *)
(* void everything between the two.  A reader sees a prefix of the log,    *)
(* named by its length, and a lagging replica shows a shorter one; the     *)
(* current operation of a view is its last.  Time is counted in ticks; a   *)
(* poll, which holds the account's row, takes no time on this scale.       *)
(***************************************************************************)
EXTENDS SecurityEmail, FiniteSets, Functions

CONSTANTS
    MaxLog,     \* operations the directory may hold
    MaxTime,    \* last tick of the clock
    Day,        \* longest silence that is not lost coverage
    Fresh,      \* oldest poll one may sign on, oldest attestation one may take
    MaxPosts,   \* attempts the notifier may make
    MaxNotices, \* different reports they may be about
    MaxOutages  \* polls that may fail

ASSUME MonitorBounds ==
    /\ MaxLog \in Nat \ {0}
    /\ {MaxTime, MaxPosts, MaxNotices, MaxOutages} \subseteq Nat
    /\ Day \in Nat /\ Fresh \in Nat /\ Fresh <= Day

VARIABLES
    log,        \* predecessor of every operation in the directory
    now,        \* the clock
    hosted,     \* whether providers enroll accounts here, or the owner does
    watch,      \* the account's row at the monitor
    approvals,  \* operations the operator approved
    alerts,     \* reports the monitor recorded
    sent,       \* reports whose delivery was acknowledged
    posts,      \* the notifier's attempts and the worker's handling of them
    posted,     \* the report of each attempt made so far
    desk,       \* the worker's record of each report: who mails it, or sent
    mailed,     \* reports mailed to their reader
    outages,    \* polls that failed so far
    worst,      \* longest time between two healthy polls since enrollment
    paper       \* the attestation signed last, and whether it is relied on

watchVars == <<hosted, watch, approvals, alerts, outages, worst>>
postVars == <<posts, posted, desk, mailed, sent>>
monitorVars == <<log, now, hosted, watch, approvals, alerts, sent, posts, posted,
                 desk, mailed, outages, worst, paper>>
monitorAllVars == <<emailVars, monitorVars>>

Never == -1
Ops == 1..MaxLog
Dispositions == {"current", "superseded", "nullified"}
NoWatch == [enrolled |-> FALSE, first |-> 0, retained |-> 0, expected |-> 0,
            bootstrap |-> 0, since |-> 0, polled |-> Never,
            ready |-> FALSE]
NoPaper == [kind |-> "none", op |-> 0, gap |-> 0, since |-> 0, polled |-> 0, at |-> 0,
            relied |-> FALSE]

Larger(x, y) == IF x >= y THEN x ELSE y

\* An operation is void once a later one follows something older than it.
Nullified(i, n) == \E j \in (i + 1)..n : log[j] < i

\* What a view of length n says of its operation i.
Disposition(i, n) ==
    IF Nullified(i, n) THEN "nullified" ELSE IF i = n THEN "current" ELSE "superseded"

\* A report: its category, what it is about, and what it says of it.
Report(category, subject, status) ==
    [category |-> category, subject |-> subject, status |-> status]
Reports ==
    [category : {"operation", "status", "coverage", "restored", "invalid", "onboarding"},
     subject : 0..Larger(MaxLog, MaxTime), status : Dispositions \cup {"noted"}]

\* Reports are unique by correlation: a status report by what it says too.
SameReport(a, b) ==
    /\ a.category = b.category
    /\ a.subject = b.subject
    /\ a.category = "status" => a.status = b.status
Recorded(old, new) == old \cup {a \in new : \A b \in old : ~SameReport(a, b)}

OperationReported(i) == \E a \in alerts : a.category = "operation" /\ a.subject = i
HasGaps == \E a \in alerts : a.category \in {"coverage", "invalid"}
Baseline == Larger(watch.since, watch.polled)
CoverageLost == now - Baseline > Day

MonitorTypeOK ==
    /\ EmailTypeOK
    /\ Len(log) \in Ops
    /\ \A i \in 1..Len(log) : log[i] \in 0..(i - 1)
    /\ now \in 0..MaxTime
    /\ watch \in [enrolled : BOOLEAN, first : 0..MaxLog, retained : 0..MaxLog,
                  expected : 0..MaxLog, bootstrap : 0..MaxLog,
                  since : 0..MaxTime, polled : Never..MaxTime, ready : BOOLEAN]
    /\ approvals \subseteq Ops
    /\ alerts \subseteq Reports /\ sent \subseteq alerts /\ mailed \subseteq alerts
    /\ posts \subseteq [alert : Reports, n : 1..MaxPosts, holds : BOOLEAN,
                        stage : {"posted", "mailing", "mailed"}]
    /\ posted \in Seq(Reports) /\ Len(posted) <= MaxPosts
    /\ desk \subseteq [alert : Reports, state : {"sending", "sent"}, by : 1..MaxPosts]
    /\ outages \in 0..MaxOutages
    /\ worst \in 0..MaxTime
    /\ paper \in [kind : {"none", "attest", "onboard"}, op : 0..MaxLog, gap : 0..MaxTime,
                  since : 0..MaxTime, polled : 0..MaxTime, at : 0..MaxTime, relied : BOOLEAN]

MonitorInit ==
    /\ EmailInit
    /\ log = <<0>>
    /\ now = 0
    /\ hosted \in BOOLEAN
    /\ watch = NoWatch
    /\ approvals = {}
    /\ alerts = {}
    /\ sent = {}
    /\ posts = {}
    /\ posted = <<>>
    /\ desk = {}
    /\ mailed = {}
    /\ outages = 0
    /\ worst = 0
    /\ paper = NoPaper

(***************************************************************************)
(* The directory and the clock (external).                                 *)
(***************************************************************************)

\* The directory accepts an operation that follows one still valid: the
\* current one, or, for a recovery, an older one.
Operate(prev) ==
    /\ Len(log) < MaxLog
    /\ ~Nullified(prev, Len(log))
    /\ log' = Append(log, prev)
    /\ UNCHANGED <<emailVars, now, watchVars, postVars, paper>>

Tick ==
    /\ now < MaxTime
    /\ now' = now + 1
    /\ UNCHANGED <<emailVars, log, watchVars, postVars, paper>>

(***************************************************************************)
(* Calls.  Each reads the directory first and uses the database afterwards;*)
(* since a view read earlier, or from a lagging replica, is a prefix of the*)
(* log of the moment, the call is one step with any prefix as its view n.  *)
(* A call that is refused, and a repeated enrollment, change nothing.      *)
(***************************************************************************)

\* The worker answers the monitor's own question about the bound address.
BindingConfirmed == recipient # 0

\* A provider enrolls only a new account, with its owner-signed genesis as the
\* reviewed state, after the worker confirmed the address bound to it.
ProviderEnrolls(n, reviewed) == n = 1 /\ reviewed /\ BindingConfirmed

\* Enrollment retains the view it read.  With a reviewed state it is a
\* checkpoint and is announced.
Enroll(n, reviewed) ==
    /\ ~watch.enrolled
    /\ n \in 1..Len(log)
    /\ hosted => ProviderEnrolls(n, reviewed)
    /\ watch' = [enrolled |-> TRUE, first |-> n, retained |-> n,
                 expected |-> n, bootstrap |-> IF reviewed THEN n ELSE 0,
                 since |-> now, polled |-> Never,
                 ready |-> FALSE]
    /\ alerts' = IF reviewed THEN Recorded(alerts, {Report("onboarding", n, "noted")})
                             ELSE alerts
    /\ UNCHANGED <<emailVars, log, now, hosted, approvals, postVars, outages, worst, paper>>

\* The operator approves the reviewed state of an operation a poll has seen.
ApproveExpected(n) ==
    /\ n \in 1..Len(log)
    /\ watch.enrolled
    /\ watch.expected # n
    /\ n \in (watch.first + 1)..watch.retained
    /\ n \notin approvals
    /\ approvals' = approvals \cup {n}
    /\ watch' = [watch EXCEPT !.expected = n]
    /\ UNCHANGED <<emailVars, log, now, hosted, alerts, outages, worst, postVars, paper>>

\* What both attestations demand: the expected operation is the one read, the
\* monitor retained exactly that view, coverage never lapsed and is recent.
Covered(n) ==
    /\ watch.enrolled
    /\ watch.expected = n
    /\ watch.retained = n
    /\ watch.ready
    /\ watch.polled # Never
    /\ now - watch.polled <= Fresh
    /\ ~HasGaps

Sign(kind, n) ==
    /\ paper' = [kind |-> kind, op |-> n, gap |-> Larger(worst, now - watch.polled),
                 since |-> watch.since, polled |-> watch.polled, at |-> now, relied |-> FALSE]
    /\ UNCHANGED <<emailVars, log, now, watchVars, postVars>>

Attest(n) ==
    /\ n \in 1..Len(log)
    /\ Covered(n)
    /\ n \in approvals
    /\ \E a \in sent : a.category = "operation" /\ a.subject = n
    /\ Sign("attest", n)

AttestOnboarding(n) ==
    /\ n \in 1..Len(log)
    /\ Covered(n)
    /\ watch.bootstrap = n
    /\ \E a \in sent : a.category = "onboarding"
    /\ Sign("onboard", n)

\* What the provider checks of the two kinds before anything else.
Formed(kind) == paper.kind = kind /\ paper.since <= paper.at

TakenBy(age) ==
    /\ ~paper.relied
    /\ now - paper.at <= age
    /\ paper' = [paper EXCEPT !.at = now, !.relied = TRUE]
    /\ UNCHANGED <<emailVars, log, now, watchVars, postVars>>

\* A move is attested over a reviewed checkpoint, and the provider's readers
\* must find that checkpoint in the log that ends with the operation, before it.
Checkpointed ==
    /\ watch.bootstrap \in 1..(paper.op - 1)
    /\ ~Nullified(watch.bootstrap, paper.op)

(* Mutant: the day the verifier allows by default.                          *)
RelyOnMoveForADay == Formed("attest") /\ Checkpointed /\ TakenBy(Day)

\* The provider takes either attestation for five minutes, as long as the
\* monitor lets a poll age before it signs.
RelyOnMove == Formed("attest") /\ Checkpointed /\ TakenBy(Fresh)

RelyOnOnboarding == Formed("onboard") /\ TakenBy(Fresh)

(***************************************************************************)
(* Polling.                                                                *)
(***************************************************************************)

CoverageReports == IF CoverageLost THEN {Report("coverage", Baseline, "noted")} ELSE {}

\* Operations new to the monitor, and the current one, unless expected.
OperationReports(n) ==
    {Report("operation", i, Disposition(i, n)) :
        i \in ((watch.retained + 1)..n \cup {n}) \ {watch.expected}}

(* Mutant: the operation that was current is forgotten.                     *)
StatusReportsVoidOnly(n) ==
    {Report("status", i, Disposition(i, n)) :
        i \in {k \in 1..watch.retained :
                OperationReported(k) /\ ~Nullified(k, watch.retained) /\ Nullified(k, n)}}

\* Reported operations that were valid and are void now, or were current.
StatusReports(n) ==
    {Report("status", i, Disposition(i, n)) :
        i \in {k \in 1..watch.retained :
                /\ OperationReported(k)
                /\ \/ ~Nullified(k, watch.retained) /\ Nullified(k, n)
                   \/ k = watch.retained /\ k # n}}

RestoredReports ==
    IF CoverageLost \/ (~watch.ready /\ watch.polled # Never)
    THEN {Report("restored", Baseline, "noted")} ELSE {}

\* A poll that reads a valid log extending the retained one.
PollHealthy(n) ==
    /\ watch.enrolled
    /\ n \in watch.retained..Len(log)
    /\ alerts' = Recorded(alerts, CoverageReports \cup OperationReports(n)
                                  \cup StatusReports(n) \cup RestoredReports)
    /\ watch' = [watch EXCEPT !.retained = n, !.polled = now, !.ready = TRUE]
    /\ worst' = Larger(worst, now - Baseline)
    /\ UNCHANGED <<emailVars, log, now, hosted, approvals, outages, postVars, paper>>

\* A poll the directory does not answer, and one whose log is invalid or has
\* lost what was retained, as a lagging replica's has.
PollUnavailable ==
    /\ watch.enrolled
    /\ outages < MaxOutages
    /\ outages' = outages + 1
    /\ alerts' = Recorded(alerts, CoverageReports)
    /\ watch' = [watch EXCEPT !.ready = FALSE]
    /\ UNCHANGED <<emailVars, log, now, hosted, approvals, worst, postVars, paper>>

PollInvalid ==
    /\ watch.enrolled
    /\ outages < MaxOutages
    /\ outages' = outages + 1
    /\ alerts' = Recorded(alerts, CoverageReports \cup {Report("invalid", 0, "noted")})
    /\ watch' = [watch EXCEPT !.ready = FALSE]
    /\ UNCHANGED <<emailVars, log, now, hosted, approvals, worst, postVars, paper>>

(***************************************************************************)
(* The notifier and the alert worker.                                      *)
(***************************************************************************)

\* The reports whose acknowledgement the monitor itself asks about; the others
\* travel the same way and nothing depends on their arrival.
Followed == {a \in alerts : a.category \in {"operation", "onboarding"}}

\* The notifier leases a report not yet sent; a lapsed lease is taken over.
Claim(a) ==
    /\ a \in Followed \ sent
    /\ Len(posted) < MaxPosts
    /\ Cardinality(Range(posted) \cup {a}) <= MaxNotices
    /\ posted' = Append(posted, a)
    /\ posts' = {[p EXCEPT !.holds = @ /\ p.alert # a] : p \in posts}
                \cup {[alert |-> a, n |-> Len(posted'), holds |-> TRUE, stage |-> "posted"]}
    /\ UNCHANGED <<emailVars, log, now, watchVars, sent, desk, mailed, paper>>

Move(p, stage) == posts' = (posts \ {p}) \cup {[p EXCEPT !.stage = stage]}

\* The answer to an attempt: a good one marks the report sent if the attempt
\* still holds its lease, a refusal leaves the report for a later attempt.
Answer(p, good) ==
    /\ sent' = IF good /\ p.holds THEN sent \cup {p.alert} ELSE sent
    /\ posts' = posts \ {p}

\* A report to a provider's account needs the bound address, and the notice
\* of its enrollment the operation bound with it, the genesis.
Deliverable(a) ==
    hosted => recipient # 0 /\ (a.category = "onboarding" => a.subject = 1)

\* The worker refuses what it cannot address and what another attempt claimed
\* within five minutes, and acknowledges again what it has mailed.
Refuse(p) ==
    /\ p.stage = "posted"
    /\ \/ ~Deliverable(p.alert)
       \/ \E d \in desk : d.alert = p.alert /\ d.state = "sending"
    /\ Answer(p, FALSE)
    /\ UNCHANGED <<emailVars, log, now, watchVars, posted, desk, mailed, paper>>

Repeat(p) ==
    /\ p.stage = "posted"
    /\ Deliverable(p.alert)
    /\ \E d \in desk : d.alert = p.alert /\ d.state = "sent"
    /\ Answer(p, TRUE)
    /\ UNCHANGED <<emailVars, log, now, watchVars, posted, desk, mailed, paper>>

\* Otherwise it claims the report before it mails it; a claim older than five
\* minutes, left by a worker that stopped, is replaced.
Accept(p) ==
    /\ p.stage = "posted"
    /\ Deliverable(p.alert)
    /\ \A d \in desk : d.alert = p.alert => d.state = "sending"
    /\ desk' = {d \in desk : d.alert # p.alert}
               \cup {[alert |-> p.alert, state |-> "sending", by |-> p.n]}
    /\ Move(p, "mailing")
    /\ UNCHANGED <<emailVars, log, now, watchVars, sent, posted, mailed, paper>>

Mail(p) ==
    /\ p.stage = "mailing"
    /\ mailed' = mailed \cup {p.alert}
    /\ Move(p, "mailed")
    /\ UNCHANGED <<emailVars, log, now, watchVars, sent, posted, desk, paper>>

\* Only the attempt whose claim still stands records the mail, or takes the
\* claim back when the mailing failed, or the recording after it.
RecordMail(p) ==
    /\ p.stage = "mailed"
    /\ desk' = {[d EXCEPT !.state = IF d.alert = p.alert /\ d.by = p.n THEN "sent" ELSE @] :
                    d \in desk}
    /\ Answer(p, TRUE)
    /\ UNCHANGED <<emailVars, log, now, watchVars, posted, mailed, paper>>

MailFails(p) ==
    /\ p.stage \in {"mailing", "mailed"}
    /\ desk' = {d \in desk : ~(d.alert = p.alert /\ d.by = p.n)}
    /\ Answer(p, FALSE)
    /\ UNCHANGED <<emailVars, log, now, watchVars, posted, mailed, paper>>

\* The notifier times out or stops while the worker may go on.
GiveUp(p) ==
    /\ p.holds
    /\ posts' = (posts \ {p}) \cup {[p EXCEPT !.holds = FALSE]}
    /\ UNCHANGED <<emailVars, log, now, watchVars, sent, posted, desk, mailed, paper>>

\* The request is lost, or the worker stops and leaves its claim behind.
Lose(p) ==
    /\ ~p.holds
    /\ posts' = posts \ {p}
    /\ UNCHANGED <<emailVars, log, now, watchVars, sent, posted, desk, mailed, paper>>

Email == hosted /\ EmailNext /\ UNCHANGED monitorVars

Polls == (\E n \in Ops : PollHealthy(n)) \/ PollUnavailable \/ PollInvalid
Calls ==
    \/ \E n \in Ops, reviewed \in BOOLEAN : Enroll(n, reviewed)
    \/ \E n \in Ops : ApproveExpected(n) \/ Attest(n) \/ AttestOnboarding(n)
    \/ RelyOnMove
    \/ RelyOnOnboarding
Notices ==
    \/ \E a \in alerts : Claim(a)
    \/ \E p \in posts :
          \/ Refuse(p) \/ Repeat(p) \/ Accept(p) \/ Mail(p) \/ RecordMail(p)
          \/ MailFails(p) \/ GiveUp(p) \/ Lose(p)

MonitorNext ==
    \/ \E prev \in 1..Len(log) : Operate(prev)
    \/ Tick
    \/ Email
    \/ Calls
    \/ Polls
    \/ Notices

MonitorSpec == MonitorInit /\ [][MonitorNext]_monitorAllVars

\* What the monitor retained it also reported: every operation that entered
\* the retained log after enrollment has its report, and some report about it
\* says what the retained log says of it now, however the operation was
\* superseded or made void by a recovery between two polls, and whatever was
\* approved meanwhile.
ReportsAreComplete ==
    \A i \in (watch.first + 1)..watch.retained :
        /\ OperationReported(i)
        /\ \E a \in alerts : /\ a.category \in {"operation", "status"}
                             /\ a.subject = i
                             /\ a.status = Disposition(i, watch.retained)

\* What a signed attestation means: no silence between healthy polls was ever
\* longer than a day; what the provider relies on, for a move as for a new
\* account, rests on a poll no older than the two limits of five minutes, the
\* monitor's and the provider's, together; the operation of a move was approved
\* by the operator and its report mailed; a new account's operation is the reviewed
\* checkpoint, its announcement was mailed, and where a provider enrolled the
\* account, to an address whose owner had read a code sent there.
Earned(a) ==
    /\ a.gap <= Day
    /\ a.at - a.polled <= Fresh + Fresh
    /\ a.kind = "attest" =>
         /\ a.op \in approvals
         /\ \E m \in mailed : m.category = "operation" /\ m.subject = a.op
    /\ a.kind = "onboard" =>
         /\ a.op = watch.bootstrap
         /\ \E m \in mailed : m.category = "onboarding" /\ m.subject = a.op
         /\ hosted => recipient \in inbox

\* An attestation signed, and one a provider relied on, is earned in this sense
\* through every order of polls, outages, approvals and lost notices.
AttestationIsEarned == paper.kind # "none" => Earned(paper)
==============================================================================
