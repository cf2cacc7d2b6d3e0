--------------------------- MODULE IdentityProofs ---------------------------
(***************************************************************************)
(* Proofs about an account's identity: the monitor that watches its DID    *)
(* (Monitor) for every length of the directory's log, every pair of        *)
(* freshness limits and every number of polls, outages, attempts and       *)
(* sends; and how the account comes to be (CommandLine, Signup) for every  *)
(* number of calls, operations, passkeys, rotations and faults.            *)
(***************************************************************************)
EXTENDS Monitor, CommandLine, TLAPS

(***************************************************************************)
(* The monitor.                                                            *)
(***************************************************************************)
\* A code that proves the address was read in the mailbox it was sent to.
EmailInv ==
    /\ signup.state # "none" => signup.claim \in Sends
    /\ signup.state \in {"verified", "bound"} => signup.claim \in inbox
    /\ recipient # 0 => recipient \in inbox

\* The account's row and its reports: the retained log is a prefix of the
\* directory's, what is expected was retained, reports are about retained
\* operations and the enrolled checkpoint, and a silence of more than a day
\* between two healthy polls left its report.
WatchInv ==
    /\ log \in Seq(Nat)
    /\ watch.first <= watch.retained /\ watch.retained <= Len(log)
    /\ watch.expected <= watch.retained
    /\ watch.since <= now /\ watch.polled <= now
    /\ ~watch.enrolled => watch = NoWatch /\ alerts = {} /\ worst = 0
    /\ \A a \in alerts : /\ a.category \in {"operation", "status"} => a.subject <= watch.retained
                         /\ a.category = "onboarding" => a.subject = watch.bootstrap
    /\ worst > Day => HasGaps
    /\ hosted /\ watch.enrolled => recipient # 0

\* What is marked sent, recorded as mailed or about to be recorded was mailed,
\* and every attempt is about a recorded report.
NoticeInv ==
    /\ sent \subseteq mailed
    /\ \A p \in posts : /\ p.alert \in alerts
                        /\ p.stage = "mailed" => p.alert \in mailed
    /\ \A d \in desk : d.state = "sent" => d.alert \in mailed

\* An attestation that is not yet relied on was signed on a fresh poll, which
\* leaves the provider its own five minutes.
PaperInv ==
    /\ paper.kind # "none" => watch.enrolled
    /\ ~paper.relied => paper.at - paper.polled <= Fresh

MonitorInv ==
    /\ MonitorTypeOK
    /\ EmailInv
    /\ WatchInv
    /\ NoticeInv
    /\ PaperInv
    /\ ReportsAreComplete
    /\ AttestationIsEarned

-----------------------------------------------------------------------------

\* Recording keeps what is there, adds only what is new, and leaves every
\* report with one like it.
LEMMA RecordedFact ==
    ASSUME NEW old, NEW new
    PROVE  /\ old \subseteq Recorded(old, new)
           /\ Recorded(old, new) \subseteq old \cup new
           /\ \A a \in new : \E b \in Recorded(old, new) : SameReport(a, b)
BY DEF Recorded, SameReport

\* The larger of two numbers.
LEMMA LargerFact ==
    ASSUME NEW x \in Int, NEW y \in Int
    PROVE  Larger(x, y) \in {x, y} /\ Larger(x, y) >= x /\ Larger(x, y) >= y
BY DEF Larger

\* Where coverage is measured from, and how long it was.
LEMMA BaselineFact ==
    ASSUME MonitorTypeOK, WatchInv
    PROVE  Baseline \in 0..MaxTime /\ Baseline <= now /\ now - Baseline \in 0..MaxTime
<1>1. watch.since \in 0..MaxTime /\ watch.polled \in Never..MaxTime /\ now \in 0..MaxTime
  BY DEF MonitorTypeOK
<1>2. watch.since <= now /\ watch.polled <= now BY DEF WatchInv
<1>3. MaxTime \in Nat BY MonitorBounds
<1> QED BY <1>1, <1>2, <1>3 DEF Baseline, Never, Larger

\* The sets of reports a poll makes are reports.
LEMMA ReportTypes ==
    ASSUME MonitorTypeOK, WatchInv, NEW n \in Ops
    PROVE  /\ CoverageReports \subseteq Reports
           /\ OperationReports(n) \subseteq Reports
           /\ StatusReports(n) \subseteq Reports
           /\ RestoredReports \subseteq Reports
<1> USE MonitorBounds
<1>1. \A i : Disposition(i, n) \in Dispositions BY DEF Disposition, Dispositions
<1>2. MaxLog <= Larger(MaxLog, MaxTime) /\ MaxTime <= Larger(MaxLog, MaxTime)
      /\ Larger(MaxLog, MaxTime) \in Nat
  BY LargerFact DEF Larger
<1>3. \A i \in 0..MaxLog : i \in 0..Larger(MaxLog, MaxTime) BY <1>2
<1>4. Baseline \in 0..Larger(MaxLog, MaxTime) BY <1>2, BaselineFact
<1>5. CoverageReports \subseteq Reports /\ RestoredReports \subseteq Reports
  BY <1>4 DEF CoverageReports, RestoredReports, Report, Reports
<1>6. watch.retained \in 0..MaxLog BY DEF MonitorTypeOK
<1>7. OperationReports(n) \subseteq Reports
  BY <1>1, <1>3, <1>6 DEF OperationReports, Report, Reports, Ops
<1>8. StatusReports(n) \subseteq Reports
  BY <1>1, <1>3, <1>6 DEF StatusReports, Report, Reports
<1> QED BY <1>5, <1>7, <1>8

-----------------------------------------------------------------------------
(* The address that receives the notices.                                    *)

\* Every step of the address's signup keeps the types and what a proof means;
\* a proven recipient stays, and so do the letters that arrived.
LEMMA EmailStep ==
    ASSUME EmailTypeOK, EmailInv, EmailNext \/ UNCHANGED emailVars
    PROVE  /\ EmailTypeOK' /\ EmailInv'
           /\ inbox \subseteq inbox'
           /\ recipient # 0 => recipient' # 0
<1> USE EmailBounds
<1> DEFINE Goal == /\ EmailTypeOK' /\ EmailInv'
                   /\ inbox \subseteq inbox'
                   /\ recipient # 0 => recipient' # 0
<1> USE DEF EmailTypeOK, EmailInv, Sends, NoSignup
<1>1. CASE StartSignup BY <1>1 DEF StartSignup
<1>2. ASSUME NEW c \in Sends, LetterArrives(c) PROVE Goal BY <1>2 DEF LetterArrives
<1>3. ASSUME NEW c \in Sends, SendReturns(c) PROVE Goal BY <1>3 DEF SendReturns
<1>4. ASSUME NEW c \in 0..MaxSends, VerifyCode(c) PROVE Goal
  <2>1. /\ signup.attempts + 1 \in 0..MaxAttempts
        /\ UNCHANGED <<started, letters, inbox, recipient>>
    BY <1>4 DEF VerifyCode
  <2>2. CASE c = signup.claim
    <3>1. signup' = [signup EXCEPT !.attempts = signup.attempts + 1, !.state = "verified"]
      BY <1>4, <2>2 DEF VerifyCode
    <3>2. c \in inbox /\ c \in Sends BY <1>4, <2>2 DEF VerifyCode
    <3> QED BY <2>1, <2>2, <3>1, <3>2
  <2>3. CASE c # signup.claim
    <3>1. signup' = [signup EXCEPT !.attempts = signup.attempts + 1]
      BY <1>4, <2>3 DEF VerifyCode
    <3> QED BY <2>1, <3>1
  <2> QED BY <2>2, <2>3
<1>5. CASE BindAddress BY <1>5 DEF BindAddress
<1>6. CASE SignupExpires BY <1>6 DEF SignupExpires
<1>7. CASE PruneSignup BY <1>7 DEF PruneSignup
<1>8. CASE UNCHANGED emailVars BY <1>8 DEF emailVars
<1> QED BY <1>1, <1>2, <1>3, <1>4, <1>5, <1>6, <1>7, <1>8 DEF EmailNext

\* A step of Monitor is a step of the signup or leaves it alone.
LEMMA EmailFrame ==
    ASSUME [MonitorNext]_monitorAllVars
    PROVE  EmailNext \/ UNCHANGED emailVars
<1>1. CASE Email BY <1>1 DEF Email
<1>2. CASE Tick \/ \E prev \in 1..Len(log) : Operate(prev) BY <1>2 DEF Tick, Operate
<1>3. CASE Calls
  BY <1>3 DEF Calls, Enroll, ApproveExpected, Attest, AttestOnboarding, Sign, RelyOnMove,
              RelyOnOnboarding, TakenBy
<1>4. CASE Polls BY <1>4 DEF Polls, PollHealthy, PollUnavailable, PollInvalid
<1>5. CASE Notices
  BY <1>5 DEF Notices, Claim, Refuse, Repeat, Accept, Mail, RecordMail, MailFails, GiveUp, Lose
<1>6. CASE UNCHANGED monitorAllVars BY <1>6 DEF monitorAllVars
<1> QED BY <1>1, <1>2, <1>3, <1>4, <1>5, <1>6 DEF MonitorNext

-----------------------------------------------------------------------------
(* The account's row and its reports.                                        *)

Rows == [enrolled : BOOLEAN, first : 0..MaxLog, retained : 0..MaxLog,
         expected : 0..MaxLog, bootstrap : 0..MaxLog,
         since : 0..MaxTime, polled : Never..MaxTime, ready : BOOLEAN]

\* The directory's log: every operation follows an earlier one, or none.
LogOK ==
    /\ log \in Seq(Nat)
    /\ Len(log) \in Ops
    /\ \A i \in 1..Len(log) : log[i] \in 0..(i - 1)

WatchTypeOK ==
    /\ now \in 0..MaxTime
    /\ watch \in Rows
    /\ approvals \subseteq Ops
    /\ alerts \subseteq Reports
    /\ outages \in 0..MaxOutages
    /\ worst \in 0..MaxTime

\* What the steps other than an operation, a tick, enrollment, approval and a
\* poll leave alone.
WatchFrame == UNCHANGED <<log, now, watchVars>>

\* Every other step leaves the row and its reports alone.
LEMMA WatchSteps ==
    ASSUME [MonitorNext]_monitorAllVars
    PROVE  \/ WatchFrame
           \/ \E prev \in 1..Len(log) : Operate(prev)
           \/ Tick
           \/ \E n \in Ops, reviewed \in BOOLEAN : Enroll(n, reviewed)
           \/ \E n \in Ops : ApproveExpected(n)
           \/ Polls
<1> USE DEF WatchFrame
<1>1. CASE Email BY <1>1 DEF Email, monitorVars, watchVars
<1>2. ASSUME NEW n \in Ops, Attest(n) \/ AttestOnboarding(n) PROVE WatchFrame
  BY <1>2 DEF Attest, AttestOnboarding, Sign
<1>3. CASE RelyOnMove \/ RelyOnOnboarding BY <1>3 DEF RelyOnMove, RelyOnOnboarding, TakenBy
<1>4. CASE Notices
  BY <1>4 DEF Notices, Claim, Refuse, Repeat, Accept, Mail, RecordMail, MailFails, GiveUp, Lose
<1>5. CASE UNCHANGED monitorAllVars BY <1>5 DEF monitorAllVars, monitorVars, watchVars
<1> QED BY <1>1, <1>2, <1>3, <1>4, <1>5 DEF MonitorNext, Calls

\* The reports a healthy poll makes.
PollReports(n) == CoverageReports \cup OperationReports(n) \cup StatusReports(n) \cup RestoredReports

\* The log only grows, and keeps its shape.
LEMMA LogStep ==
    ASSUME LogOK, [MonitorNext]_monitorAllVars
    PROVE  LogOK' /\ Len(log) <= Len(log') /\ \A i \in 1..Len(log) : log'[i] = log[i]
<1> USE MonitorBounds
<1>1. ASSUME NEW prev \in 1..Len(log), Operate(prev) PROVE LogOK' /\ Len(log') = Len(log) + 1
                                            /\ \A i \in 1..Len(log) : log'[i] = log[i]
  <2>1. log' = Append(log, prev) /\ Len(log) < MaxLog BY <1>1 DEF Operate
  <2>2. log \in Seq(Nat) /\ prev \in Nat /\ Len(log) \in Nat BY DEF LogOK
  <2>3. /\ log' \in Seq(Nat) /\ Len(log') = Len(log) + 1
        /\ \A i \in 1..Len(log) : log'[i] = log[i]
        /\ log'[Len(log) + 1] = prev
    BY <2>1, <2>2
  <2>4. ASSUME NEW i \in 1..Len(log') PROVE log'[i] \in 0..(i - 1)
    <3>1. CASE i \in 1..Len(log) BY <2>3, <3>1 DEF LogOK
    <3>2. CASE i = Len(log) + 1 BY SMTT(40), <2>2, <2>3, <3>2
    <3>3. Len(log') = Len(log) + 1 BY <2>3
    <3>4. i \in 1..(Len(log) + 1) BY <3>3
    <3>5. \A n \in Nat : i \in 1..(n + 1) => i \in 1..n \/ i = n + 1 OBVIOUS
    <3>6. i \in 1..Len(log) \/ i = Len(log) + 1 BY <2>2, <3>4, <3>5
    <3> QED BY <3>1, <3>2, <3>6
  <2>5. Len(log') \in Ops BY <2>1, <2>2, <2>3 DEF Ops
  <2> QED BY <2>3, <2>4, <2>5 DEF LogOK
<1>2. ASSUME log' = log PROVE LogOK' /\ Len(log') = Len(log) /\ \A i \in 1..Len(log) : log'[i] = log[i]
  BY <1>2 DEF LogOK
<1>3. log' = log \/ \E prev \in 1..Len(log) : Operate(prev)
  BY WatchSteps DEF WatchFrame, Tick, Enroll, ApproveExpected, Polls, PollHealthy, PollUnavailable,
                    PollInvalid
<1>4. Len(log) \in Nat BY DEF LogOK, Ops
<1> QED BY <1>1, <1>2, <1>3, <1>4

\* What is recorded stays recorded, and is a report.
LEMMA Recording ==
    ASSUME alerts \subseteq Reports, NEW S \in SUBSET Reports, alerts' = Recorded(alerts, S)
    PROVE  alerts \subseteq alerts' /\ alerts' \subseteq Reports
BY RecordedFact

\* Every step keeps the types of the row and the reports.
LEMMA WatchTypes ==
    ASSUME MonitorTypeOK, WatchInv, [MonitorNext]_monitorAllVars
    PROVE  WatchTypeOK' /\ alerts \subseteq alerts'
<1> USE MonitorBounds
<1> DEFINE Goal == WatchTypeOK' /\ alerts \subseteq alerts'
<1>0. WatchTypeOK BY DEF MonitorTypeOK, WatchTypeOK, Rows
<1>1. CASE WatchFrame BY <1>0, <1>1 DEF WatchFrame, watchVars, WatchTypeOK
<1>2. ASSUME NEW prev \in 1..Len(log), Operate(prev) PROVE Goal
  BY <1>0, <1>2 DEF Operate, watchVars, WatchTypeOK
<1>3. CASE Tick BY <1>0, <1>3 DEF Tick, watchVars, WatchTypeOK
<1>4. ASSUME NEW n \in Ops, NEW reviewed \in BOOLEAN, Enroll(n, reviewed) PROVE Goal
  <2>1. Report("onboarding", n, "noted") \in Reports
    BY LargerFact DEF Report, Reports, Larger, Ops
  <2>2. alerts \subseteq alerts' /\ alerts' \subseteq Reports
    <3>1. CASE reviewed
      <4>1. alerts' = Recorded(alerts, {Report("onboarding", n, "noted")})
        BY <1>4, <3>1 DEF Enroll
      <4> QED BY <1>0, <2>1, <4>1, Recording DEF WatchTypeOK
    <3>2. CASE ~reviewed BY <1>0, <1>4, <3>2 DEF Enroll, WatchTypeOK
    <3> QED BY <3>1, <3>2
  <2>3. watch' = [enrolled |-> TRUE, first |-> n, retained |-> n,
                  expected |-> n, bootstrap |-> IF reviewed THEN n ELSE 0,
                  since |-> now, polled |-> Never, ready |-> FALSE]
    BY <1>4 DEF Enroll
  <2>4. n \in 0..MaxLog /\ now \in 0..MaxTime /\ Never \in Never..MaxTime
    BY <1>0 DEF Ops, WatchTypeOK, Never
  <2>5. watch' \in Rows BY <2>3, <2>4 DEF Rows
  <2> QED BY <1>0, <1>4, <2>2, <2>5 DEF Enroll, WatchTypeOK
<1>5. ASSUME NEW n \in Ops, ApproveExpected(n) PROVE Goal
  <2>1. watch' = [watch EXCEPT !.expected = n] /\ n \in 0..MaxLog
    BY <1>5 DEF ApproveExpected, Ops
  <2>2. watch' \in Rows BY <1>0, <2>1 DEF WatchTypeOK, Rows
  <2> QED BY <1>0, <1>5, <2>2 DEF ApproveExpected, WatchTypeOK
<1>6. CASE Polls
  <2>1. ASSUME NEW n \in Ops, PollHealthy(n) PROVE Goal
    <3>1. PollReports(n) \subseteq Reports BY ReportTypes DEF PollReports
    <3>2. alerts' = Recorded(alerts, PollReports(n)) BY <2>1 DEF PollHealthy, PollReports
    <3>3. alerts \subseteq alerts' /\ alerts' \subseteq Reports
      BY <1>0, <3>1, <3>2, Recording DEF WatchTypeOK
    <3>4. worst' \in 0..MaxTime
      BY <1>0, <2>1, BaselineFact, LargerFact DEF PollHealthy, Larger, WatchTypeOK
    <3>5. watch' = [watch EXCEPT !.retained = n, !.polled = now, !.ready = TRUE]
      BY <2>1 DEF PollHealthy
    <3>6. n \in 0..MaxLog /\ now \in Never..MaxTime BY <1>0 DEF Ops, WatchTypeOK, Never
    <3>7. watch' \in Rows BY <1>0, <3>5, <3>6 DEF WatchTypeOK, Rows
    <3> QED BY <1>0, <2>1, <3>3, <3>4, <3>7 DEF PollHealthy, WatchTypeOK
  <2>2. Report("invalid", 0, "noted") \in Reports
    BY LargerFact DEF Report, Reports, Larger
  <2>3. CoverageReports \subseteq Reports
    <3>1. 1 \in Ops BY DEF Ops
    <3> QED BY <3>1, ReportTypes
  <2>4. ASSUME NEW S \in SUBSET Reports, alerts' = Recorded(alerts, S),
               outages < MaxOutages, outages' = outages + 1,
               watch' = [watch EXCEPT !.ready = FALSE], UNCHANGED <<now, approvals, worst>>
        PROVE  Goal
    <3>1. alerts \subseteq alerts' /\ alerts' \subseteq Reports
      BY <1>0, <2>4, Recording DEF WatchTypeOK
    <3>2. watch' \in Rows BY <1>0, <2>4 DEF WatchTypeOK, Rows
    <3> QED BY <1>0, <2>4, <3>1, <3>2 DEF WatchTypeOK
  <2>5. CASE PollUnavailable BY <2>3, <2>4, <2>5 DEF PollUnavailable
  <2>6. CASE PollInvalid
    <3>1. CoverageReports \cup {Report("invalid", 0, "noted")} \in SUBSET Reports BY <2>2, <2>3
    <3> QED BY <2>4, <2>6, <3>1 DEF PollInvalid
  <2> QED BY <1>6, <2>1, <2>5, <2>6 DEF Polls
<1> QED BY <1>1, <1>2, <1>3, <1>4, <1>5, <1>6, WatchSteps

\* A silence of more than a day leaves its report with the poll that ends it.
LEMMA SilenceIsReported ==
    ASSUME NEW S, CoverageReports \subseteq S, CoverageLost, alerts' = Recorded(alerts, S)
    PROVE  HasGaps'
<1>1. Report("coverage", Baseline, "noted") \in S BY DEF CoverageReports
<1>2. PICK b \in alerts' : SameReport(Report("coverage", Baseline, "noted"), b)
  BY <1>1, RecordedFact
<1>3. b.category = "coverage" BY <1>2 DEF SameReport, Report
<1> QED BY <1>3 DEF HasGaps

\* What the reports of a healthy poll are about.
LEMMA PollSubjects ==
    ASSUME MonitorTypeOK, WatchInv, NEW n \in Ops, watch.retained <= n, NEW a \in PollReports(n)
    PROVE  /\ a.category \in {"operation", "status"} => a.subject <= n
           /\ a.category # "onboarding"
<1> USE MonitorBounds
<1>1. watch.retained \in 0..MaxLog BY DEF MonitorTypeOK
<1>2. CASE a \in CoverageReports BY <1>2 DEF CoverageReports, Report
<1>3. CASE a \in OperationReports(n)
  <2>1. PICK i \in (watch.retained + 1)..n \cup {n} : a = Report("operation", i, Disposition(i, n))
    BY <1>3 DEF OperationReports
  <2> QED BY <1>1, <2>1 DEF Report, Ops
<1>4. CASE a \in StatusReports(n)
  <2>1. PICK i \in 1..watch.retained : a = Report("status", i, Disposition(i, n))
    BY <1>4 DEF StatusReports
  <2> QED BY <1>1, <2>1 DEF Report, Ops
<1>5. CASE a \in RestoredReports BY <1>5 DEF RestoredReports, Report
<1> QED BY <1>2, <1>3, <1>4, <1>5 DEF PollReports

\* Every step keeps the row, the log and the reports in agreement.
LEMMA WatchStep ==
    ASSUME MonitorInv, [MonitorNext]_monitorAllVars
    PROVE  WatchInv'
<1> USE MonitorBounds
<1>0. /\ WatchTypeOK /\ LogOK /\ WatchInv /\ MonitorTypeOK
      /\ WatchTypeOK' /\ LogOK' /\ alerts \subseteq alerts' /\ Len(log) <= Len(log')
      /\ recipient # 0 => recipient' # 0
  <2>1. WatchTypeOK /\ LogOK /\ WatchInv /\ MonitorTypeOK
    BY DEF MonitorInv, MonitorTypeOK, WatchInv, WatchTypeOK, LogOK, Rows
  <2>2. WatchTypeOK' /\ LogOK' /\ alerts \subseteq alerts' /\ Len(log) <= Len(log')
    BY <2>1, WatchTypes, LogStep
  <2>3. recipient # 0 => recipient' # 0 BY EmailStep, EmailFrame DEF MonitorInv, MonitorTypeOK
  <2> QED BY <2>1, <2>2, <2>3
<1>a. Len(log) \in Nat /\ Len(log') \in Nat BY <1>0 DEF LogOK
<1>b. /\ watch.first \in Nat /\ watch.retained \in Nat /\ watch.expected \in Nat
      /\ watch.since \in Nat /\ watch.polled \in Int /\ now \in Nat /\ worst \in Nat
  BY <1>0 DEF WatchTypeOK, Rows, Never
<1>c. HasGaps => HasGaps' BY <1>0 DEF HasGaps
<1>1. CASE WatchFrame
  BY <1>0, <1>1, <1>a, <1>b, <1>c DEF WatchFrame, watchVars, WatchInv, LogOK
<1>2. ASSUME NEW prev \in 1..Len(log), Operate(prev) PROVE WatchInv'
  <2>1. UNCHANGED <<now, hosted, watch, approvals, alerts, worst>> BY <1>2 DEF Operate, watchVars
  <2>2. watch.retained <= Len(log') BY SMTT(40), <1>0, <1>a, <1>b DEF WatchInv
  <2>3. log' \in Seq(Nat) BY <1>0 DEF LogOK
  <2> QED BY <1>0, <1>b, <1>c, <2>1, <2>2, <2>3 DEF WatchInv
<1>3. CASE Tick
  BY SMTT(40), <1>0, <1>3, <1>a, <1>b, <1>c DEF Tick, watchVars, WatchInv, LogOK
<1>4. ASSUME NEW n \in Ops, NEW reviewed \in BOOLEAN, Enroll(n, reviewed) PROVE WatchInv'
  <2>1. alerts = {} /\ worst = 0 /\ ~watch.enrolled BY <1>0, <1>4 DEF Enroll, WatchInv
  <2>2. watch' = [enrolled |-> TRUE, first |-> n, retained |-> n,
                  expected |-> n, bootstrap |-> IF reviewed THEN n ELSE 0,
                  since |-> now, polled |-> Never, ready |-> FALSE]
    BY <1>4 DEF Enroll
  <2>3. ASSUME NEW a \in alerts'
        PROVE  reviewed /\ a.category = "onboarding" /\ a.subject = n
    <3>1. reviewed BY <1>4, <2>1, <2>3 DEF Enroll
    <3>2. alerts' = Recorded(alerts, {Report("onboarding", n, "noted")}) BY <1>4, <3>1 DEF Enroll
    <3>3. a = Report("onboarding", n, "noted") BY <2>1, <2>3, <3>2, RecordedFact
    <3> QED BY <3>1, <3>3 DEF Report
  <2>4. hosted' = hosted /\ (hosted => recipient # 0) /\ n <= Len(log) /\ UNCHANGED <<now, worst, log>>
    BY <1>4 DEF Enroll, ProviderEnrolls, BindingConfirmed
  <2>5. n \in Nat /\ n <= n BY DEF Ops
  <2>6. \A a \in alerts' : /\ a.category \in {"operation", "status"} => a.subject <= watch'.retained
                           /\ a.category = "onboarding" => a.subject = watch'.bootstrap
    BY <2>2, <2>3
  <2>7. worst' <= Day BY <2>1, <2>4
  <2> QED BY <1>0, <1>b, <2>2, <2>4, <2>5, <2>6, <2>7 DEF WatchInv, LogOK, Never
<1>5. ASSUME NEW n \in Ops, ApproveExpected(n) PROVE WatchInv'
  <2>1. /\ watch.enrolled /\ watch' = [watch EXCEPT !.expected = n]
        /\ UNCHANGED <<log, now, hosted, alerts, worst, recipient>>
        /\ n \in (watch.first + 1)..watch.retained
    BY <1>5 DEF ApproveExpected, emailVars
  <2>2. /\ watch'.enrolled /\ watch'.expected = n /\ watch'.first = watch.first
        /\ watch'.retained = watch.retained /\ watch'.since = watch.since
        /\ watch'.polled = watch.polled /\ watch'.bootstrap = watch.bootstrap
    BY <1>0, <2>1 DEF WatchTypeOK, Rows
  <2>3. n <= watch.retained BY <1>b, <2>1 DEF Ops
  <2>4. worst > Day => HasGaps' BY <1>0, <1>c DEF WatchInv
  <2>5. hosted => recipient # 0 BY <1>0, <2>1 DEF WatchInv
  <2> QED BY <1>0, <1>b, <2>1, <2>2, <2>3, <2>4, <2>5 DEF WatchInv, LogOK
<1>6. ASSUME NEW n \in Ops, PollHealthy(n) PROVE WatchInv'
  <2>1. /\ watch.enrolled /\ watch' = [watch EXCEPT !.retained = n, !.polled = now, !.ready = TRUE]
        /\ UNCHANGED <<log, now, hosted, recipient>>
        /\ n \in watch.retained..Len(log)
        /\ alerts' = Recorded(alerts, PollReports(n))
        /\ worst' = Larger(worst, now - Baseline)
    BY <1>6 DEF PollHealthy, PollReports, emailVars
  <2>2. /\ watch'.enrolled /\ watch'.expected = watch.expected /\ watch'.first = watch.first
        /\ watch'.retained = n /\ watch'.since = watch.since
        /\ watch'.polled = now /\ watch'.bootstrap = watch.bootstrap
    BY <1>0, <2>1 DEF WatchTypeOK, Rows
  <2>3. worst' > Day => HasGaps'
    <3>1. CASE CoverageLost
      <4>1. CoverageReports \subseteq PollReports(n) BY DEF PollReports
      <4> QED BY <2>1, <3>1, <4>1, SilenceIsReported
    <3>2. CASE ~CoverageLost
      <4>1. Baseline \in Nat /\ now - Baseline <= Day BY <1>0, <3>2, BaselineFact DEF CoverageLost
      <4>2. worst' > Day => worst > Day BY <1>b, <2>1, <4>1 DEF Larger
      <4> QED BY <1>0, <1>c, <4>2 DEF WatchInv
    <3> QED BY <3>1, <3>2
  <2>4. \A a \in alerts' : /\ a.category \in {"operation", "status"} => a.subject <= n
                           /\ a.category = "onboarding" => a.subject = watch.bootstrap
    <3>1. ASSUME NEW a \in alerts
          PROVE  /\ a.category \in {"operation", "status"} => a.subject <= n
                 /\ a.category = "onboarding" => a.subject = watch.bootstrap
      <4>1. a.category \in {"operation", "status"} => a.subject <= watch.retained /\ a.subject \in Nat
        BY SMTT(40), <1>0, LargerFact DEF WatchInv, WatchTypeOK, Reports, Larger
      <4>2. watch.retained <= n /\ n \in Nat BY <1>b, <2>1 DEF Ops
      <4> QED BY SMTT(40), <1>0, <1>b, <4>1, <4>2 DEF WatchInv
    <3>2. watch.retained <= n BY <2>1, <1>b, <1>a
    <3> QED BY <1>0, <2>1, <3>1, <3>2, RecordedFact, PollSubjects
  <2>5. n \in Nat /\ watch.retained <= n /\ n <= Len(log) BY <1>a, <1>b, <2>1 DEF Ops
  <2>6. /\ watch.first <= watch.retained /\ watch.expected <= watch.retained
        /\ watch.since <= now /\ (hosted => recipient # 0)
    BY <1>0, <2>1 DEF WatchInv
  <2>7. watch.first <= n /\ watch.expected <= n BY SMTT(40), <1>b, <2>5, <2>6
  <2> QED BY SMTT(40), <1>0, <1>b, <2>1, <2>2, <2>3, <2>4, <2>5, <2>6, <2>7 DEF WatchInv, LogOK
<1>7. CASE PollUnavailable \/ PollInvalid
  <2>1. /\ watch.enrolled /\ watch' = [watch EXCEPT !.ready = FALSE]
        /\ UNCHANGED <<log, now, hosted, recipient, worst>>
    BY <1>7 DEF PollUnavailable, PollInvalid, emailVars
  <2>2. PICK S : /\ alerts' = Recorded(alerts, S)
                 /\ S \subseteq CoverageReports \cup {Report("invalid", 0, "noted")}
    BY <1>7 DEF PollUnavailable, PollInvalid
  <2>3. /\ watch'.enrolled /\ watch'.expected = watch.expected /\ watch'.first = watch.first
        /\ watch'.retained = watch.retained /\ watch'.since = watch.since
        /\ watch'.polled = watch.polled /\ watch'.bootstrap = watch.bootstrap
    BY <1>0, <2>1 DEF WatchTypeOK, Rows
  <2>4. \A a \in S : a.category \in {"coverage", "invalid"}
    BY <2>2 DEF CoverageReports, Report
  <2>5. \A a \in alerts' : a \in alerts \/ a.category \in {"coverage", "invalid"}
    BY <2>2, <2>4, RecordedFact
  <2> QED BY <1>0, <1>b, <1>c, <2>1, <2>3, <2>5 DEF WatchInv, LogOK
<1> QED BY <1>1, <1>2, <1>3, <1>4, <1>5, <1>6, <1>7, WatchSteps DEF Polls

-----------------------------------------------------------------------------
(* The reports are complete.                                                 *)

\* Some report about operation i says what the retained log says of it now.
Told(i) ==
    /\ OperationReported(i)
    /\ \E a \in alerts : /\ a.category \in {"operation", "status"}
                         /\ a.subject = i
                         /\ a.status = Disposition(i, watch.retained)

\* What a view says of its operations does not change as the log grows.
LEMMA ViewKept ==
    ASSUME LogOK, [MonitorNext]_monitorAllVars, NEW n \in Nat, n <= Len(log), NEW i \in 1..n
    PROVE  Disposition(i, n)' = Disposition(i, n)
<1>1. Len(log) \in Nat BY DEF LogOK
<1>2. \A j \in (i + 1)..n : log'[j] = log[j]
  <2>1. \A j \in 1..Len(log) : log'[j] = log[j] BY LogStep
  <2>2. \A j \in (i + 1)..n : j \in 1..Len(log) BY <1>1
  <2> QED BY <2>1, <2>2
<1>3. Nullified(i, n)' <=> Nullified(i, n) BY <1>2 DEF Nullified
<1> QED BY <1>3 DEF Disposition

\* A longer view changes what is said of an operation only by making it void, or
\* when it was the current one.
LEMMA DispositionMoves ==
    ASSUME NEW m \in Nat, NEW n \in Nat, m <= n, NEW i \in 1..m,
           Disposition(i, n) # Disposition(i, m)
    PROVE  \/ ~Nullified(i, m) /\ Nullified(i, n)
           \/ i = m /\ i # n
<1>1. Nullified(i, m) => Nullified(i, n)
  <2>1. \A j \in (i + 1)..m : j \in (i + 1)..n OBVIOUS
  <2> QED BY <2>1 DEF Nullified
<1>2. i = n => i = m OBVIOUS
<1> QED BY <1>1, <1>2 DEF Disposition

\* A healthy poll tells of every operation of its view since enrollment.
LEMMA PollTells ==
    ASSUME MonitorInv, [MonitorNext]_monitorAllVars, NEW n \in Ops, PollHealthy(n),
           NEW i \in (watch.first + 1)..n
    PROVE  Told(i)'
<1> USE MonitorBounds
<1>1. /\ alerts' = Recorded(alerts, PollReports(n)) /\ log' = log
      /\ n \in watch.retained..Len(log)
      /\ watch' = [watch EXCEPT !.retained = n, !.polled = now, !.ready = TRUE]
  BY DEF PollHealthy, PollReports
<1>2. /\ watch.first \in Nat /\ watch.retained \in Nat /\ watch.expected \in Nat
      /\ Len(log) \in Nat /\ n \in Nat /\ i \in Nat /\ i >= 1
  <2>1. watch \in Rows /\ Len(log) \in Ops BY DEF MonitorInv, MonitorTypeOK, Rows
  <2>2. watch.first \in Nat /\ watch.retained \in Nat /\ watch.expected \in Nat
    BY <2>1 DEF Rows
  <2> QED BY SMTT(40), <2>1, <2>2 DEF Ops
<1>3. watch'.retained = n BY <1>1 DEF MonitorInv, MonitorTypeOK
<1>4. watch.retained <= n /\ watch.expected <= watch.retained BY <1>1, <1>2 DEF MonitorInv, WatchInv
<1>5. alerts \subseteq alerts' /\ \A a \in PollReports(n) : \E b \in alerts' : SameReport(a, b)
  BY <1>1, RecordedFact
<1>6. Disposition(i, n)' = Disposition(i, n) BY <1>1 DEF Disposition, Nullified
<1>7. Disposition(i, watch.retained)' = Disposition(i, n) BY <1>3, <1>6 DEF Disposition, Nullified
<1>8. CASE i <= watch.retained
  <2>1. Told(i)
    <3>1. i \in (watch.first + 1)..watch.retained BY <1>2, <1>8
    <3> QED BY <3>1 DEF MonitorInv, ReportsAreComplete, Told
  <2>2. OperationReported(i)' BY <1>5, <2>1 DEF Told, OperationReported
  <2>3. CASE Disposition(i, n) = Disposition(i, watch.retained)
    BY <1>5, <1>7, <2>1, <2>2, <2>3 DEF Told
  <2>4. CASE Disposition(i, n) # Disposition(i, watch.retained)
    <3>1. i \in 1..watch.retained BY <1>2, <1>8
    <3>2. \/ ~Nullified(i, watch.retained) /\ Nullified(i, n)
          \/ i = watch.retained /\ i # n
      BY <1>2, <1>4, <2>4, <3>1, DispositionMoves
    <3>3. Report("status", i, Disposition(i, n)) \in StatusReports(n)
      BY <2>1, <3>1, <3>2 DEF StatusReports, Told
    <3>4. PICK b \in alerts' : SameReport(Report("status", i, Disposition(i, n)), b)
      BY <1>5, <3>3 DEF PollReports
    <3>5. b.category = "status" /\ b.subject = i /\ b.status = Disposition(i, n)
      BY <3>4 DEF SameReport, Report
    <3> QED BY <1>7, <2>2, <3>5 DEF Told
  <2> QED BY <2>3, <2>4
<1>9. CASE i > watch.retained
  <2>1. i \in ((watch.retained + 1)..n \cup {n}) \ {watch.expected} BY <1>2, <1>4, <1>9
  <2> DEFINE r == Report("operation", i, Disposition(i, n))
  <2>2. r \in PollReports(n) BY <2>1 DEF OperationReports, PollReports
  <2>3. \A b \in alerts : ~SameReport(r, b)
    <3>1. r.category = "operation" /\ r.subject = i BY DEF Report
    <3>2. ASSUME NEW b \in alerts, b.category = "operation", b.subject = i PROVE FALSE
      <4>1. b.subject <= watch.retained BY <3>2 DEF MonitorInv, WatchInv
      <4> QED BY <1>2, <1>9, <3>2, <4>1
    <3> HIDE DEF r
    <3> QED BY <3>1, <3>2 DEF SameReport
  <2>4. r \in alerts' BY <1>1, <2>2, <2>3 DEF Recorded
  <2>5. r.category = "operation" /\ r.subject = i /\ r.status = Disposition(i, n) BY DEF Report
  <2> HIDE DEF r
  <2> QED BY <1>7, <2>4, <2>5 DEF Told, OperationReported
<1> QED BY <1>2, <1>8, <1>9

\* Every step keeps the reports complete.
LEMMA ReportStep ==
    ASSUME MonitorInv, [MonitorNext]_monitorAllVars
    PROVE  ReportsAreComplete'
<1> USE MonitorBounds
<1>0. /\ LogOK /\ alerts \subseteq alerts'
      /\ watch.first \in Nat /\ watch.retained \in Nat /\ watch.retained <= Len(log)
  <2>1. watch \in Rows /\ LogOK BY DEF MonitorInv, MonitorTypeOK, WatchInv, Rows, LogOK
  <2>2. watch.first \in Nat /\ watch.retained \in Nat BY <2>1 DEF Rows
  <2>3. alerts \subseteq alerts' BY WatchTypes DEF MonitorInv
  <2> QED BY <2>1, <2>2, <2>3 DEF MonitorInv, WatchInv
<1>1. ASSUME watch'.first = watch.first, watch'.retained = watch.retained
      PROVE  ReportsAreComplete'
  <2> SUFFICES ASSUME NEW i \in (watch.first + 1)..watch.retained PROVE Told(i)'
    BY <1>1 DEF ReportsAreComplete, Told
  <2>1. Told(i) BY DEF MonitorInv, ReportsAreComplete, Told
  <2>2. OperationReported(i)' BY <1>0, <2>1 DEF Told, OperationReported
  <2>3. i \in 1..watch.retained BY <1>0
  <2> DEFINE n == watch.retained
  <2>4. Disposition(i, n)' = Disposition(i, n)
    <3>1. ASSUME NEW m \in Nat, m = watch.retained PROVE Disposition(i, m)' = Disposition(i, m)
      BY <1>0, <2>3, <3>1, ViewKept
    <3>2. watch'.retained = watch.retained BY <1>1
    <3> QED BY <1>0, <3>1, <3>2 DEF Disposition, Nullified
  <2> QED BY <1>0, <2>1, <2>2, <2>4 DEF Told
<1>2. CASE WatchFrame \/ Tick \/ \E prev \in 1..Len(log) : Operate(prev)
  BY <1>1, <1>2 DEF WatchFrame, Tick, Operate, watchVars
<1>3. ASSUME NEW n \in Ops, NEW reviewed \in BOOLEAN, Enroll(n, reviewed) PROVE ReportsAreComplete'
  <2>1. watch'.first = n /\ watch'.retained = n /\ n \in Nat BY <1>3 DEF Enroll, Ops
  <2>2. (watch'.first + 1)..watch'.retained = {} BY <2>1
  <2> QED BY <2>2 DEF ReportsAreComplete
<1>4. ASSUME NEW n \in Ops, ApproveExpected(n) PROVE ReportsAreComplete'
  BY <1>1, <1>4 DEF ApproveExpected, MonitorInv, MonitorTypeOK
<1>5. ASSUME NEW n \in Ops, PollHealthy(n) PROVE ReportsAreComplete'
  <2>1. watch'.retained = n /\ watch'.first = watch.first BY <1>5 DEF PollHealthy, MonitorInv, MonitorTypeOK
  <2>2. \A i \in (watch.first + 1)..n : Told(i)' BY <1>5, PollTells
  <2> QED BY <2>1, <2>2 DEF ReportsAreComplete, Told
<1>6. CASE PollUnavailable \/ PollInvalid
  BY <1>1, <1>6 DEF PollUnavailable, PollInvalid, MonitorInv, MonitorTypeOK
<1> QED BY <1>2, <1>3, <1>4, <1>5, <1>6, WatchSteps DEF Polls

-----------------------------------------------------------------------------
(* Notices and attestations.                                                 *)

PostTypeOK ==
    /\ sent \subseteq alerts /\ mailed \subseteq alerts
    /\ posts \subseteq [alert : Reports, n : 1..MaxPosts, holds : BOOLEAN,
                        stage : {"posted", "mailing", "mailed"}]
    /\ posted \in Seq(Reports) /\ Len(posted) <= MaxPosts
    /\ desk \subseteq [alert : Reports, state : {"sending", "sent"}, by : 1..MaxPosts]

\* The notifier's and the worker's steps.
LEMMA PostSteps ==
    ASSUME [MonitorNext]_monitorAllVars
    PROVE  UNCHANGED postVars \/ Notices
<1>1. CASE Email BY <1>1 DEF Email, monitorVars, postVars
<1>2. CASE Tick \/ \E prev \in 1..Len(log) : Operate(prev) BY <1>2 DEF Tick, Operate
<1>3. CASE Calls
  BY <1>3 DEF Calls, Enroll, ApproveExpected, Attest, AttestOnboarding, Sign, RelyOnMove,
              RelyOnOnboarding, TakenBy
<1>4. CASE Polls BY <1>4 DEF Polls, PollHealthy, PollUnavailable, PollInvalid
<1>5. CASE UNCHANGED monitorAllVars BY <1>5 DEF monitorAllVars, monitorVars, postVars
<1> QED BY <1>1, <1>2, <1>3, <1>4, <1>5 DEF MonitorNext

\* A step of the notifier or the worker keeps sent and recorded reports mailed.
LEMMA NoticeStep ==
    ASSUME MonitorInv, [MonitorNext]_monitorAllVars
    PROVE  PostTypeOK' /\ NoticeInv' /\ mailed \subseteq mailed'
<1> USE MonitorBounds
<1> DEFINE Goal == PostTypeOK' /\ NoticeInv' /\ mailed \subseteq mailed'
           Posts == [alert : Reports, n : 1..MaxPosts, holds : BOOLEAN,
                     stage : {"posted", "mailing", "mailed"}]
           Claims == [alert : Reports, state : {"sending", "sent"}, by : 1..MaxPosts]
<1>0. /\ sent \subseteq alerts /\ mailed \subseteq alerts /\ posts \subseteq Posts
      /\ posted \in Seq(Reports) /\ Len(posted) <= MaxPosts /\ desk \subseteq Claims
      /\ alerts \subseteq Reports /\ NoticeInv /\ alerts \subseteq alerts'
  BY WatchTypes DEF MonitorInv, MonitorTypeOK
<1>1. CASE UNCHANGED postVars BY <1>0, <1>1 DEF postVars, PostTypeOK, NoticeInv
<1>2. ASSUME NEW a \in alerts, Claim(a) PROVE Goal
  <2>1. /\ posted' = Append(posted, a) /\ Len(posted) < MaxPosts
        /\ UNCHANGED <<sent, desk, mailed>>
    BY <1>2 DEF Claim
  <2>2. posted' \in Seq(Reports) /\ Len(posted') = Len(posted) + 1 /\ Len(posted') \in 1..MaxPosts
    BY <1>0, <2>1
  <2>3. posts' = {[p EXCEPT !.holds = @ /\ p.alert # a] : p \in posts}
                 \cup {[alert |-> a, n |-> Len(posted'), holds |-> TRUE, stage |-> "posted"]}
    BY <1>2 DEF Claim
  <2>4. ASSUME NEW q \in posts'
        PROVE  q \in Posts /\ q.alert \in alerts /\ (q.stage = "mailed" => q.alert \in mailed)
    <3>1. CASE q = [alert |-> a, n |-> Len(posted'), holds |-> TRUE, stage |-> "posted"]
      BY <1>0, <2>2, <3>1
    <3>2. ASSUME NEW p \in posts, q = [p EXCEPT !.holds = p.holds /\ p.alert # a]
          PROVE  q \in Posts /\ q.alert \in alerts /\ (q.stage = "mailed" => q.alert \in mailed)
      <4>1. p \in Posts BY <1>0
      <4>2. q.alert = p.alert /\ q.stage = p.stage /\ q \in Posts BY <3>2, <4>1
      <4> QED BY <1>0, <3>2, <4>2 DEF NoticeInv
    <3> QED BY <2>3, <2>4, <3>1, <3>2
  <2> QED BY <1>0, <2>1, <2>2, <2>4 DEF PostTypeOK, NoticeInv
<1>3. ASSUME NEW p \in posts, NEW good \in BOOLEAN, Answer(p, good), posted' = posted, mailed' = mailed,
             desk' \subseteq Claims, \A d \in desk' : d.state = "sent" => d.alert \in mailed,
             good => p.alert \in mailed
      PROVE  Goal
  BY <1>0, <1>3 DEF Answer, PostTypeOK, NoticeInv
<1>4. ASSUME NEW p \in posts, NEW q \in Posts, posts' = (posts \ {p}) \cup {q},
             q.alert = p.alert, q.stage = "mailed" => p.alert \in mailed',
             UNCHANGED <<sent, posted>>, mailed \subseteq mailed', mailed' \subseteq alerts,
             desk' \subseteq Claims, \A d \in desk' : d.state = "sent" => d.alert \in mailed
      PROVE  Goal
  BY <1>0, <1>4 DEF PostTypeOK, NoticeInv
<1>5. ASSUME NEW p \in posts, Refuse(p) PROVE Goal
  BY <1>0, <1>3, <1>5 DEF Refuse, NoticeInv
<1>6. ASSUME NEW p \in posts, Repeat(p) PROVE Goal
  <2>1. p.alert \in mailed BY <1>0, <1>6 DEF Repeat, NoticeInv
  <2> QED BY <1>0, <1>3, <1>6, <2>1 DEF Repeat, NoticeInv
<1>7. ASSUME NEW p \in posts, Accept(p) PROVE Goal
  <2> DEFINE q == [p EXCEPT !.stage = "mailing"]
  <2>1. p \in Posts BY <1>0
  <2>2. q \in Posts /\ q.alert = p.alert /\ q.stage = "mailing" BY <2>1
  <2>3. desk' \subseteq Claims /\ \A d \in desk' : d.state = "sent" => d.alert \in mailed
    BY <1>0, <1>7, <2>1 DEF Accept, NoticeInv
  <2>4. posts' = (posts \ {p}) \cup {q} /\ UNCHANGED <<sent, posted, mailed>>
    BY <1>7 DEF Accept, Move
  <2> HIDE DEF q
  <2> QED BY <1>0, <1>4, <2>2, <2>3, <2>4
<1>8. ASSUME NEW p \in posts, Mail(p) PROVE Goal
  <2> DEFINE q == [p EXCEPT !.stage = "mailed"]
  <2>1. p \in Posts BY <1>0
  <2>2. q \in Posts /\ q.alert = p.alert BY <2>1
  <2>3. posts' = (posts \ {p}) \cup {q} /\ UNCHANGED <<sent, posted, desk>>
        /\ mailed' = mailed \cup {p.alert}
    BY <1>8 DEF Mail, Move
  <2>4. p.alert \in alerts BY <1>0 DEF NoticeInv
  <2> HIDE DEF q
  <2> QED BY <1>0, <1>4, <2>2, <2>3, <2>4 DEF NoticeInv
<1>9. ASSUME NEW p \in posts, RecordMail(p) PROVE Goal
  <2>1. p.alert \in mailed BY <1>0, <1>9 DEF RecordMail, NoticeInv
  <2>2. desk' = {[d EXCEPT !.state = IF d.alert = p.alert /\ d.by = p.n THEN "sent" ELSE @] : d \in desk}
    BY <1>9 DEF RecordMail
  <2>3. ASSUME NEW e \in desk' PROVE e \in Claims /\ (e.state = "sent" => e.alert \in mailed)
    <3>1. PICK d \in desk : e = [d EXCEPT !.state = IF d.alert = p.alert /\ d.by = p.n THEN "sent"
                                                                                 ELSE d.state]
      BY <2>2, <2>3
    <3>2. d \in Claims BY <1>0
    <3>3. CASE d.alert = p.alert /\ d.by = p.n
      <4>1. e = [d EXCEPT !.state = "sent"] BY <3>1, <3>3
      <4> QED BY <2>1, <3>2, <3>3, <4>1
    <3>4. CASE ~(d.alert = p.alert /\ d.by = p.n)
      <4>1. e = [d EXCEPT !.state = d.state] BY <3>1, <3>4
      <4>2. e \in Claims /\ e.state = d.state /\ e.alert = d.alert BY <3>2, <4>1
      <4> QED BY <1>0, <4>2 DEF NoticeInv
    <3> QED BY <3>3, <3>4
  <2> QED BY <1>3, <1>9, <2>1, <2>3 DEF RecordMail
<1>10. ASSUME NEW p \in posts, MailFails(p) PROVE Goal
  BY <1>0, <1>3, <1>10 DEF MailFails, NoticeInv
<1>11. ASSUME NEW p \in posts, GiveUp(p) PROVE Goal
  <2> DEFINE q == [p EXCEPT !.holds = FALSE]
  <2>1. p \in Posts BY <1>0
  <2>2. q \in Posts /\ q.alert = p.alert /\ q.stage = p.stage BY <2>1
  <2>3. posts' = (posts \ {p}) \cup {q} /\ UNCHANGED <<sent, posted, desk, mailed>>
    BY <1>11 DEF GiveUp
  <2> HIDE DEF q
  <2> QED BY <1>0, <1>4, <2>2, <2>3 DEF NoticeInv
<1>12. ASSUME NEW p \in posts, Lose(p) PROVE Goal
  BY <1>0, <1>12 DEF Lose, PostTypeOK, NoticeInv
<1> QED BY <1>1, <1>2, <1>5, <1>6, <1>7, <1>8, <1>9, <1>10, <1>11, <1>12, PostSteps DEF Notices

Papers == [kind : {"none", "attest", "onboard"}, op : 0..MaxLog, gap : 0..MaxTime,
           since : 0..MaxTime, polled : 0..MaxTime, at : 0..MaxTime, relied : BOOLEAN]

\* The steps that write an attestation, or take one.
LEMMA PaperSteps ==
    ASSUME [MonitorNext]_monitorAllVars
    PROVE  \/ UNCHANGED paper
           \/ \E n \in Ops : Attest(n) \/ AttestOnboarding(n)
           \/ RelyOnMove \/ RelyOnOnboarding
<1>1. CASE Email BY <1>1 DEF Email, monitorVars
<1>2. CASE Tick \/ \E prev \in 1..Len(log) : Operate(prev) BY <1>2 DEF Tick, Operate
<1>3. CASE Polls BY <1>3 DEF Polls, PollHealthy, PollUnavailable, PollInvalid
<1>4. CASE Notices
  BY <1>4 DEF Notices, Claim, Refuse, Repeat, Accept, Mail, RecordMail, MailFails, GiveUp, Lose
<1>5. CASE UNCHANGED monitorAllVars BY <1>5 DEF monitorAllVars, monitorVars
<1>6. \A n \in Ops, reviewed \in BOOLEAN : Enroll(n, reviewed) => UNCHANGED paper BY DEF Enroll
<1>7. \A n \in Ops : ApproveExpected(n) => UNCHANGED paper BY DEF ApproveExpected
<1> QED BY <1>1, <1>2, <1>3, <1>4, <1>5, <1>6, <1>7 DEF MonitorNext, Calls

\* An enrolled account stays enrolled with its checkpoint; approvals are kept.
LEMMA EnrolledStays ==
    ASSUME MonitorInv, [MonitorNext]_monitorAllVars
    PROVE  /\ watch.enrolled => watch'.enrolled /\ watch'.bootstrap = watch.bootstrap
           /\ approvals \subseteq approvals'
           /\ hosted' = hosted
<1>0. watch \in Rows BY DEF MonitorInv, MonitorTypeOK, Rows
<1>1. CASE WatchFrame \/ Tick \/ \E prev \in 1..Len(log) : Operate(prev)
  BY <1>1 DEF WatchFrame, Tick, Operate, watchVars
<1>2. ASSUME NEW n \in Ops, NEW reviewed \in BOOLEAN, Enroll(n, reviewed)
      PROVE  ~watch.enrolled /\ UNCHANGED <<approvals, hosted>>
  BY <1>2 DEF Enroll
<1>3. CASE \E n \in Ops : ApproveExpected(n) BY <1>0, <1>3 DEF ApproveExpected, Rows
<1>4. CASE Polls BY <1>0, <1>4 DEF Polls, PollHealthy, PollUnavailable, PollInvalid, Rows
<1> QED BY <1>1, <1>2, <1>3, <1>4, WatchSteps

\* What is earned stays earned: approvals, mails and the checkpoint are kept.
LEMMA EarnedStays ==
    ASSUME MonitorInv, [MonitorNext]_monitorAllVars, NEW a, a.kind = "onboard" => watch.enrolled, Earned(a)
    PROVE  Earned(a)'
<1>1. /\ watch.enrolled => watch'.bootstrap = watch.bootstrap
      /\ approvals \subseteq approvals' /\ hosted' = hosted
  BY EnrolledStays
<1>2. mailed \subseteq mailed' BY NoticeStep
<1>3. hosted /\ a.kind = "onboard" => recipient' \in inbox'
  <2>1. hosted /\ a.kind = "onboard" => recipient # 0 BY DEF MonitorInv, WatchInv
  <2>2. EmailInv' /\ (recipient # 0 => recipient' # 0) BY EmailStep, EmailFrame DEF MonitorInv, MonitorTypeOK
  <2> QED BY <2>1, <2>2 DEF EmailInv
<1> QED BY <1>1, <1>2, <1>3 DEF Earned

\* What both signatures rest on.
LEMMA CoverageIsWhole ==
    ASSUME MonitorInv, NEW n \in Ops, Covered(n)
    PROVE  /\ watch.enrolled
           /\ Larger(worst, now - watch.polled) \in 0..MaxTime
           /\ Larger(worst, now - watch.polled) <= Day
           /\ watch.polled \in 0..MaxTime /\ now - watch.polled <= Fresh
           /\ watch.since \in 0..MaxTime /\ now \in 0..MaxTime /\ n \in 0..MaxLog
<1> USE MonitorBounds
<1>1. /\ watch \in Rows /\ now \in 0..MaxTime /\ worst \in 0..MaxTime
  BY DEF MonitorInv, MonitorTypeOK, Rows
<1>2. watch.polled \in 0..MaxTime /\ watch.since \in 0..MaxTime /\ watch.polled <= now
  <2>1. watch.polled \in Never..MaxTime /\ watch.since \in 0..MaxTime BY <1>1 DEF Rows
  <2>2. watch.polled # Never BY DEF Covered
  <2>3. watch.polled <= now BY DEF MonitorInv, WatchInv
  <2> QED BY <2>1, <2>2, <2>3 DEF Never
<1>3. watch.enrolled /\ now - watch.polled <= Fresh /\ ~HasGaps BY DEF Covered
<1>4. worst <= Day BY <1>1, <1>3 DEF MonitorInv, WatchInv
<1>5. n \in 0..MaxLog BY DEF Ops
<1> QED BY <1>1, <1>2, <1>3, <1>4, <1>5 DEF Larger

\* Every step keeps attestations well formed and earned.
LEMMA PaperStep ==
    ASSUME MonitorInv, [MonitorNext]_monitorAllVars
    PROVE  paper' \in Papers /\ PaperInv' /\ AttestationIsEarned'
<1> USE MonitorBounds
<1> DEFINE Goal == paper' \in Papers /\ PaperInv' /\ AttestationIsEarned'
<1>0. paper \in Papers /\ PaperInv /\ now \in 0..MaxTime BY DEF MonitorInv, MonitorTypeOK, Papers
<1>1. CASE UNCHANGED paper
  <2>1. PaperInv' BY <1>0, <1>1, EnrolledStays DEF PaperInv
  <2>2. PICK a : a = paper OBVIOUS
  <2>3. AttestationIsEarned'
    <3>1. CASE paper.kind = "none" BY <1>1, <3>1 DEF AttestationIsEarned
    <3>2. CASE paper.kind # "none"
      <4>1. Earned(a) /\ watch.enrolled
        BY <1>0, <2>2, <3>2 DEF MonitorInv, AttestationIsEarned, PaperInv
      <4>2. Earned(a)' BY <4>1, EarnedStays
      <4>3. paper' = a BY <1>1, <2>2
      <4> QED BY <4>2, <4>3 DEF AttestationIsEarned, Earned
    <3> QED BY <3>1, <3>2
  <2> QED BY <1>0, <1>1, <2>1, <2>3
<1>2. ASSUME NEW n \in Ops, NEW kind \in {"attest", "onboard"}, Covered(n), Sign(kind, n),
             kind = "attest" => /\ n \in approvals
                                /\ \E m \in mailed : m.category = "operation" /\ m.subject = n,
             kind = "onboard" => /\ n = watch.bootstrap
                                 /\ \E m \in mailed : m.category = "onboarding" /\ m.subject = n
      PROVE  Goal
  <2>1. paper' = [kind |-> kind, op |-> n, gap |-> Larger(worst, now - watch.polled),
                  since |-> watch.since, polled |-> watch.polled, at |-> now, relied |-> FALSE]
    BY <1>2 DEF Sign
  <2>2. /\ watch.enrolled
        /\ Larger(worst, now - watch.polled) \in 0..MaxTime
        /\ Larger(worst, now - watch.polled) <= Day
        /\ watch.polled \in 0..MaxTime /\ now - watch.polled <= Fresh
        /\ watch.since \in 0..MaxTime /\ n \in 0..MaxLog
    BY <1>2, CoverageIsWhole
  <2>3. paper' \in Papers BY <1>0, <2>1, <2>2 DEF Papers
  <2>4. UNCHANGED <<watch, hosted, recipient, inbox, approvals, mailed>>
    BY <1>2 DEF Sign, emailVars, watchVars, postVars
  <2>5. PaperInv' BY <2>1, <2>2, <2>4 DEF PaperInv
  <2>6. hosted => recipient \in inbox BY <2>2 DEF MonitorInv, WatchInv, EmailInv
  <2>7. /\ paper'.gap <= Day
        /\ paper'.at - paper'.polled <= Fresh + Fresh
        /\ paper'.kind = kind /\ paper'.op = n
    BY <1>0, <2>1, <2>2
  <2>8. Earned(paper)' BY <1>2, <2>4, <2>6, <2>7 DEF Earned
  <2> QED BY <2>3, <2>5, <2>8 DEF AttestationIsEarned
<1>3. ASSUME NEW n \in Ops, Attest(n) PROVE Goal
  <2>1. \E m \in mailed : m.category = "operation" /\ m.subject = n
    BY <1>3 DEF Attest, MonitorInv, NoticeInv
  <2> QED BY <1>2, <1>3, <2>1 DEF Attest
<1>4. ASSUME NEW n \in Ops, AttestOnboarding(n) PROVE Goal
  <2>1. PICK m \in sent : m.category = "onboarding" BY <1>4 DEF AttestOnboarding
  <2>2. m \in mailed /\ m \in alerts BY DEF MonitorInv, MonitorTypeOK, NoticeInv
  <2>3. m.subject = n BY <1>4, <2>1, <2>2 DEF MonitorInv, WatchInv, AttestOnboarding
  <2> QED BY <1>2, <1>4, <2>1, <2>2, <2>3 DEF AttestOnboarding
<1>5. ASSUME NEW kind \in {"attest", "onboard"}, Formed(kind), TakenBy(Fresh)
      PROVE  Goal
  <2>1. /\ paper.kind = kind /\ ~paper.relied /\ now - paper.at <= Fresh
        /\ paper' = [paper EXCEPT !.at = now, !.relied = TRUE]
        /\ UNCHANGED <<watch, hosted, recipient, inbox, approvals, mailed>>
    BY <1>5 DEF Formed, TakenBy, emailVars, watchVars, postVars
  <2>2. /\ paper' \in Papers /\ paper'.relied /\ paper'.kind = kind /\ paper'.op = paper.op
        /\ paper'.gap = paper.gap /\ paper'.polled = paper.polled /\ paper'.at = now
    BY <1>0, <2>1 DEF Papers
  <2>3. PaperInv' BY <1>0, <2>1, <2>2 DEF PaperInv
  <2>4. Earned(paper) BY <1>5, <2>1 DEF MonitorInv, AttestationIsEarned
  <2>5. paper.at - paper.polled <= Fresh /\ paper.at \in Nat /\ paper.polled \in Nat
    BY <1>0, <2>1 DEF PaperInv, Papers
  <2>6. now - paper.polled <= Fresh + Fresh
    BY <1>0, <1>5, <2>1, <2>5
  <2>7. Earned(paper)' BY <2>1, <2>2, <2>4, <2>6 DEF Earned
  <2> QED BY <2>2, <2>3, <2>7 DEF AttestationIsEarned
<1>6. CASE RelyOnMove BY <1>5, <1>6 DEF RelyOnMove
<1>7. CASE RelyOnOnboarding BY <1>5, <1>7 DEF RelyOnOnboarding
<1> QED BY <1>1, <1>3, <1>4, <1>6, <1>7, PaperSteps

-----------------------------------------------------------------------------

\* The inductive invariant holds in every reachable state.
THEOREM MonitorInvariance == MonitorSpec => []MonitorInv
<1>1. MonitorInit => MonitorInv
  <2> SUFFICES ASSUME MonitorInit PROVE MonitorInv OBVIOUS
  <2> USE MonitorBounds, EmailBounds
  <2>1. EmailTypeOK /\ EmailInv BY DEF MonitorInit, EmailInit, EmailTypeOK, EmailInv, NoSignup
  <2>2. LogOK BY DEF MonitorInit, LogOK, Ops
  <2>3. WatchTypeOK BY DEF MonitorInit, NoWatch, WatchTypeOK, Rows, Never
  <2>4. PostTypeOK /\ NoticeInv BY DEF MonitorInit, PostTypeOK, NoticeInv
  <2>5. paper \in Papers /\ PaperInv /\ AttestationIsEarned
    BY DEF MonitorInit, NoPaper, Papers, PaperInv, AttestationIsEarned
  <2>6. WatchInv
    <3>1. Len(log) = 1 BY DEF MonitorInit
    <3> QED BY <2>2, <3>1 DEF MonitorInit, NoWatch, WatchInv, LogOK, Never
  <2>7. ReportsAreComplete BY DEF MonitorInit, NoWatch, ReportsAreComplete
  <2>8. MonitorTypeOK
    BY <2>1, <2>2, <2>3, <2>4, <2>5 DEF MonitorTypeOK, LogOK, WatchTypeOK, Rows, PostTypeOK, Papers
  <2> QED BY <2>1, <2>4, <2>5, <2>6, <2>7, <2>8 DEF MonitorInv
<1>2. MonitorInv /\ [MonitorNext]_monitorAllVars => MonitorInv'
  <2> SUFFICES ASSUME MonitorInv, [MonitorNext]_monitorAllVars PROVE MonitorInv' OBVIOUS
  <2>1. EmailTypeOK' /\ EmailInv' BY EmailStep, EmailFrame DEF MonitorInv, MonitorTypeOK
  <2>2. LogOK'
    <3>1. LogOK BY DEF MonitorInv, MonitorTypeOK, WatchInv, LogOK
    <3> QED BY <3>1, LogStep
  <2>3. WatchTypeOK' BY WatchTypes DEF MonitorInv
  <2>4. PostTypeOK' /\ NoticeInv' BY NoticeStep
  <2>5. paper' \in Papers /\ PaperInv' /\ AttestationIsEarned' BY PaperStep
  <2>6. MonitorTypeOK'
    BY <2>1, <2>2, <2>3, <2>4, <2>5 DEF MonitorTypeOK, LogOK, WatchTypeOK, Rows, PostTypeOK, Papers
  <2> QED BY <2>1, <2>4, <2>5, <2>6, WatchStep, ReportStep DEF MonitorInv
<1> QED BY <1>1, <1>2, PTL DEF MonitorSpec

\* Type correctness of the monitor, the notifier, the alert worker and the
\* signup of the address.
THEOREM MonitorTypes == MonitorSpec => []MonitorTypeOK
<1>1. MonitorInv => MonitorTypeOK BY DEF MonitorInv
<1> QED BY <1>1, MonitorInvariance, PTL

\* Every operation that entered the retained log after enrollment was reported,
\* and a report says what became of it.
THEOREM NothingUnreported == MonitorSpec => []ReportsAreComplete
<1>1. MonitorInv => ReportsAreComplete BY DEF MonitorInv
<1> QED BY <1>1, MonitorInvariance, PTL

\* An attestation that was signed, and one that was relied on, is earned.
THEOREM AttestationsAreEarned == MonitorSpec => []AttestationIsEarned
<1>1. MonitorInv => AttestationIsEarned BY DEF MonitorInv
<1> QED BY <1>1, MonitorInvariance, PTL

-----------------------------------------------------------------------------
(***************************************************************************)
(* Signup, passkeys and credentials.                                       *)
(***************************************************************************)
RowRecord == [channel : {"browser", "cli"}, at : {"none", "admitted", "attached"}, package : BOOLEAN,
              digest : Operations \cup {None}, op : Operations \cup {None}, newest : Controllers \cup {None},
              live : BOOLEAN, completed : BOOLEAN]
AccountRecord == [state : States, did : Operations \cup {None}, binding : Operations \cup {None},
                  attempt : Controllers \cup {None}, evidence : BOOLEAN]
RunRecord == [at : Places, op : Operations \cup {None}, seen : States, connected : BOOLEAN]

(* The owner's side keeps the operation: the ceremony row, or the state    *)
(* file and the vault of the command line.                                 *)
Keeps(op) == IF row.channel = "browser" THEN row.op = op ELSE file.op = op /\ vault = op

(* Every call under way works for the operation kept.                      *)
CallsAgree ==
    \A c \in Controllers :
        /\ run[c].at \notin {"idle", "store"} => run[c].op # None
        /\ run[c].op # None => Keeps(run[c].op)
        /\ run[c].at \in {"submit", "send"} => account.did # None
        /\ run[c].at = "store" => row.channel = "browser"
        /\ run[c].at = "enroll" => row.channel = "cli" /\ creds["signup"] # "none"

(* The account is bound to it, and nothing else was sent.                  *)
GenesisAgrees ==
    /\ account.did # None => account.did = account.binding
    /\ account.binding # None => Keeps(account.binding)
    /\ \A op \in plc \cup inflight : account.did = op

(* Ceremonies and passkeys belong to the browser, state files to the       *)
(* command line.                                                           *)
ChannelAgrees ==
    /\ file.at # "none" => row.channel = "cli"
    /\ row.at = "attached" => row.channel = "browser"
    /\ row.channel = "cli" => ~row.completed /\ \A k \in Keys : passkeys[k] = None

(* While setup can still enroll a passkey it has enrolled none.            *)
KeysAgree ==
    /\ \A k \in revoked : passkeys[k] # None
    /\ cap["setup"] = "open" => ~row.completed /\ \A k \in Keys : passkeys[k] # "setup"
    /\ KeepsAKey

(* A registration that is signed names its operation.  Nothing is rotated  *)
(* before signup has handed over its credential, and a rotation that can   *)
(* revoke its source holds what replaces it.                               *)
CredentialsAgree ==
    /\ file.at = "signed" => file.op # None
    /\ ~file.done => held = {} /\ creds["signup"] # "revoked" /\ \A o \in Outputs : rotation[o].at = "none"
    /\ waiting # None => ~file.done
    /\ login.file # "none" => file.done
    /\ \A o \in Outputs : rotation[o].at # "none" =>
          rotation[o].from \in Tokens \ {o} /\ creds[rotation[o].from] # "none"
    /\ creds["login"] # "none" => login.challenge = "spent"
    /\ \A o \in Outputs : rotation[o].at \in {"saved", "done"} => o \in held
    /\ file.done => \E t \in held : creds[t] = "live"

SignupInv == CliTypeOK /\ CallsAgree /\ GenesisAgrees /\ ChannelAgrees /\ KeysAgree /\ CredentialsAgree

-----------------------------------------------------------------------------
LEMMA SignupShapes ==
  ASSUME SignupInv
  PROVE  /\ row \in RowRecord /\ account \in AccountRecord /\ run \in [Controllers -> RunRecord]
         /\ plc \subseteq Operations /\ inflight \subseteq Operations
         /\ \A c \in Controllers : run[c] \in RunRecord
         /\ lock \in Controllers \cup {None}
BY DEF SignupInv, CliTypeOK, TypeOK, RowRecord, AccountRecord, RunRecord

(* A step that leaves what the owner's side keeps alone.                   *)
LEMMA KeepsFrame ==
  ASSUME row'.channel = row.channel, row'.op = row.op, UNCHANGED <<file, vault>>, NEW op
  PROVE  Keeps(op)' <=> Keeps(op)
BY DEF Keeps

LEMMA GenesisFrame ==
  ASSUME SignupInv, row'.channel = row.channel, row'.op = row.op, UNCHANGED <<file, vault>>,
         account'.did = account.did, account'.binding = account.binding,
         plc' \cup inflight' \subseteq plc \cup inflight
  PROVE  GenesisAgrees'
<1>1. GenesisAgrees
  BY DEF SignupInv
<1>2. account.binding # None => Keeps(account.binding)'
  BY <1>1, KeepsFrame DEF GenesisAgrees
<1> QED BY <1>1, <1>2 DEF GenesisAgrees, Keeps

(* Call c moves and no other call does.                                    *)
Moves(c) == run' \in [Controllers -> RunRecord] /\ \A d \in Controllers : d # c => run'[d] = run[d]

LEMMA CallsFrame ==
  ASSUME SignupInv, NEW c \in Controllers, Moves(c),
         row'.channel = row.channel, UNCHANGED <<file, vault>>, row.op # None => row'.op = row.op,
         account.did # None => account'.did = account.did,
         creds["signup"] # "none" => creds'["signup"] # "none",
         run'[c].at \notin {"idle", "store"} => run'[c].op # None,
         run'[c].op # None => Keeps(run[c].op)',
         run'[c].at \in {"submit", "send"} => account'.did # None,
         run'[c].at = "store" => row.channel = "browser",
         run'[c].at = "enroll" => row.channel = "cli" /\ creds'["signup"] # "none"
  PROVE  CallsAgree'
<1>1. ASSUME NEW d \in Controllers, d # c
      PROVE  /\ run'[d].at \notin {"idle", "store"} => run'[d].op # None
             /\ run'[d].op # None => Keeps(run[d].op)'
             /\ run'[d].at \in {"submit", "send"} => account'.did # None
             /\ run'[d].at = "store" => row'.channel = "browser"
             /\ run'[d].at = "enroll" => row'.channel = "cli" /\ creds'["signup"] # "none"
  <2>1. run'[d] = run[d]
    BY <1>1 DEF Moves
  <2>2. run[d].op # None => Keeps(run[d].op)'
    BY <2>1 DEF SignupInv, CallsAgree, Keeps
  <2> QED BY <2>1, <2>2 DEF SignupInv, CallsAgree
<1> QED BY <1>1 DEF CallsAgree, Keeps

(* A step of a call that changes no more of the account than its state.    *)
StateOnly ==
    /\ account' \in AccountRecord /\ account'.did = account.did /\ account'.binding = account.binding
    /\ faults' \in 0 .. MaxFaults
    /\ UNCHANGED <<row, plc, inflight, accessVars, cliVars>>

LEMMA CallStep ==
  ASSUME SignupInv, NEW c \in Controllers, StateOnly, Moves(c), lock' \in Controllers \cup {None},
         run'[c].at \notin {"idle", "store"} => run'[c].op # None,
         run'[c].op # None => run'[c].op = run[c].op,
         run'[c].at \in {"submit", "send"} => account.did # None,
         run'[c].at = "store" => row.channel = "browser",
         run'[c].at = "enroll" => run[c].at = "enroll"
  PROVE  SignupInv'
<1>1. CliTypeOK'
  BY DEF SignupInv, CliTypeOK, TypeOK, StateOnly, Moves, AccountRecord, RunRecord, accessVars, cliVars, signupVars
<1>2. UNCHANGED <<row, file, vault, creds, waiting, held, login, rotation>> /\ account'.did = account.did
      /\ account'.binding = account.binding /\ UNCHANGED <<plc, inflight, cap, passkeys, revoked>>
  BY DEF StateOnly, accessVars, cliVars, signupVars
<1>3. run'[c].op # None => Keeps(run[c].op)'
  <2>1. run[c].op # None => Keeps(run[c].op)
    BY DEF SignupInv, CallsAgree
  <2> QED BY <1>2, <2>1 DEF Keeps
<1>4. CallsAgree'
  <2>1. run'[c].at = "enroll" => row.channel = "cli" /\ creds'["signup"] # "none"
    BY <1>2 DEF SignupInv, CallsAgree
  <2> QED BY <1>2, <1>3, <2>1, CallsFrame
<1>5. GenesisAgrees'
  BY <1>2, GenesisFrame
<1>6. ChannelAgrees' /\ KeysAgree'
  BY <1>2 DEF SignupInv, ChannelAgrees, KeysAgree, KeepsAKey, LiveKeys, Live
<1>7. CredentialsAgree'
  BY <1>2 DEF SignupInv, CredentialsAgree
<1> QED BY <1>1, <1>4, <1>5, <1>6, <1>7 DEF SignupInv

LEMMA GoFacts ==
  ASSUME SignupInv, NEW c \in Controllers, NEW place \in Places, Go(c, place)
  PROVE  Moves(c) /\ run'[c].at = place /\ run'[c].op = run[c].op
<1>1. run \in [Controllers -> RunRecord] /\ run[c] \in RunRecord
  BY SignupShapes
<1>2. PICK w \in RunRecord : run' = [run EXCEPT ![c] = w] /\ w.at = place /\ w.op = run[c].op
  <2>1. PICK w : w = [run[c] EXCEPT !.at = place, !.seen = "none"]
    OBVIOUS
  <2>2. w \in RunRecord /\ w.at = place /\ w.op = run[c].op
    BY <1>1, <2>1 DEF RunRecord, States
  <2>3. run' = [run EXCEPT ![c] = w]
    BY <1>1, <2>1 DEF Go
  <2> QED BY <2>2, <2>3
<1> QED BY <1>1, <1>2 DEF Moves

LEMMA IdleCall == Idle \in RunRecord /\ Idle.at = "idle" /\ Idle.op = None
BY DEF Idle, RunRecord, Places, States

LEMMA LeaveFacts ==
  ASSUME SignupInv, NEW c \in Controllers, Leave(c)
  PROVE  Moves(c) /\ run'[c].at = "idle" /\ run'[c].op = None /\ lock' \in Controllers \cup {None}
<1>1. run \in [Controllers -> RunRecord] /\ lock \in Controllers \cup {None}
  BY SignupShapes
<1>2. run' = [run EXCEPT ![c] = Idle] /\ lock' \in Controllers \cup {None}
  BY <1>1 DEF Leave, Free
<1> QED BY <1>1, <1>2, IdleCall DEF Moves

(* A call goes on to another place, or ends.                               *)
LEMMA GoStep ==
  ASSUME SignupInv, NEW c \in Controllers, StateOnly, lock' = lock, run[c].at \notin {"idle", "store"},
         NEW place \in Places \ {"idle", "store", "enroll"}, Go(c, place),
         place \in {"submit", "send"} => account.did # None
  PROVE  SignupInv'
<1>1. Moves(c) /\ run'[c].at = place /\ run'[c].op = run[c].op
  BY GoFacts
<1>2. lock' \in Controllers \cup {None} /\ run[c].op # None
  BY SignupShapes DEF SignupInv, CallsAgree
<1> QED BY <1>1, <1>2, CallStep

LEMMA LeaveStep ==
  ASSUME SignupInv, NEW c \in Controllers, StateOnly, Leave(c)
  PROVE  SignupInv'
<1>1. Moves(c) /\ run'[c].at = "idle" /\ run'[c].op = None /\ lock' \in Controllers \cup {None}
  BY LeaveFacts
<1> QED BY <1>1, CallStep

LEMMA FaultCounts ==
  ASSUME SignupInv, NEW kind, Fault(kind)
  PROVE  faults' \in 0 .. MaxFaults
BY SignupAssumption DEF SignupInv, CliTypeOK, TypeOK, Fault

LEMMA SteadyFaults ==
  ASSUME SignupInv, UNCHANGED faults
  PROVE  faults' \in 0 .. MaxFaults
BY DEF SignupInv, CliTypeOK, TypeOK

(* The steps of a call, one by one.                                        *)
LEMMA AccountState ==
  ASSUME SignupInv, NEW st \in States, NEW a \in Controllers \cup {None}, NEW e \in BOOLEAN,
         \/ account' = account
         \/ account' = [account EXCEPT !.state = st]
         \/ account' = [account EXCEPT !.state = st, !.attempt = a]
         \/ account' = [account EXCEPT !.state = st, !.attempt = a, !.evidence = e],
         faults' \in 0 .. MaxFaults, UNCHANGED <<row, plc, inflight, accessVars, cliVars>>
  PROVE  StateOnly
<1>1. account \in AccountRecord
  BY SignupShapes
<1> QED BY <1>1 DEF StateOnly, AccountRecord

LEMMA CancelledState ==
  ASSUME SignupInv, NEW a, account' = Cancelled(a), faults' \in 0 .. MaxFaults,
         UNCHANGED <<row, plc, inflight, accessVars, cliVars>>
  PROVE  StateOnly
<1>1. account' = account \/ account' = [account EXCEPT !.state = "address-staged", !.attempt = None]
  BY DEF Cancelled
<1>2. "address-staged" \in States /\ None \in Controllers \cup {None} /\ FALSE \in BOOLEAN
  BY DEF States
<1> QED BY <1>1, <1>2, AccountState

LEMMA SteadyState ==
  ASSUME SignupInv, account' = account, faults' \in 0 .. MaxFaults, UNCHANGED <<row, plc, inflight, accessVars, cliVars>>
  PROVE  StateOnly
BY SignupShapes DEF StateOnly

(* A call that finds the account in one of the states "from".              *)
LEMMA MovedStep ==
  ASSUME SignupInv, NEW c \in Controllers, run[c].at \notin {"idle", "store"}, NEW from, NEW to \in States,
         NEW place \in Places \ {"idle", "store", "enroll", "submit", "send"}, Moved(c, from, to, place),
         UNCHANGED <<row, plc, inflight, accessVars, faults, cliVars>>
  PROVE  SignupInv'
<1>1. faults' \in 0 .. MaxFaults
  BY SteadyFaults
<1>2. CASE account' = [account EXCEPT !.state = to] /\ Go(c, place) /\ lock' = lock
  <2>1. StateOnly
    BY <1>1, <1>2, AccountState DEF Moved
  <2> QED BY <1>2, <2>1, GoStep
<1>3. CASE Leave(c) /\ account' = account
  BY <1>1, <1>3, SteadyState, LeaveStep
<1> QED BY <1>2, <1>3 DEF Moved

LEMMA ReadAccountStep ==
  ASSUME SignupInv, NEW c \in Controllers, ReadAccount(c), UNCHANGED cliVars
  PROVE  SignupInv'
<1>1. StateOnly
  BY SteadyFaults, CancelledState DEF ReadAccount
<1>2. run \in [Controllers -> RunRecord] /\ run[c] \in RunRecord /\ run[c].op # None
  BY SignupShapes DEF ReadAccount, SignupInv, CallsAgree
<1>3. PICK place \in {"issue", "bind"} : run' = [run EXCEPT ![c].at = place]
  BY DEF ReadAccount
<1>4. PICK w \in RunRecord : run' = [run EXCEPT ![c] = w] /\ w.at = place /\ w.op = run[c].op
  <2>1. PICK w : w = [run[c] EXCEPT !.at = place]
    OBVIOUS
  <2>2. w \in RunRecord /\ w.at = place /\ w.op = run[c].op
    BY <1>2, <2>1 DEF RunRecord, Places
  <2>3. run' = [run EXCEPT ![c] = w]
    BY <1>2, <1>3, <2>1
  <2> QED BY <2>2, <2>3
<1>5. Moves(c) /\ run'[c].at = place /\ run'[c].op = run[c].op /\ lock' \in Controllers \cup {None}
  BY <1>2, <1>4, SignupShapes DEF Moves, ReadAccount
<1> QED BY <1>1, <1>2, <1>5, CallStep

LEMMA SubmitStep ==
  ASSUME SignupInv, NEW c \in Controllers, Submit(c), UNCHANGED cliVars
  PROVE  SignupInv'
<1>1. /\ faults' \in 0 .. MaxFaults /\ run[c].at \notin {"idle", "store"} /\ account.did # None
      /\ UNCHANGED <<row, plc, inflight, accessVars, cliVars>>
      /\ {"confirm", "send"} \subseteq Places \ {"idle", "store", "enroll"}
  BY SteadyFaults DEF Submit, SignupInv, CallsAgree, Places
<1>2. CASE Go(c, "confirm") /\ account' = account /\ lock' = lock
  BY <1>1, <1>2, SteadyState, GoStep
<1>3. CASE Go(c, "send") /\ account' = account /\ lock' = lock
  BY <1>1, <1>3, SteadyState, GoStep
<1>4. CASE Leave(c) /\ account' = account
  BY <1>1, <1>4, SteadyState, LeaveStep
<1>5. CASE Go(c, "send") /\ account' = [account EXCEPT !.state = "submission-unknown"] /\ lock' = lock
  <2>1. "submission-unknown" \in States
    BY DEF States
  <2>2. StateOnly
    BY <1>1, <1>5, <2>1, AccountState
  <2> QED BY <1>1, <1>5, <2>2, GoStep
<1> QED BY <1>2, <1>3, <1>4, <1>5 DEF Submit

LEMMA SendStep ==
  ASSUME SignupInv, NEW c \in Controllers, Send(c), UNCHANGED cliVars
  PROVE  SignupInv'
<1>1. /\ run[c].at = "send" /\ account.did # None /\ run[c].op # None /\ account.did \in Operations
      /\ account \in AccountRecord /\ lock \in Controllers \cup {None} /\ "sent" \in Places
  BY SignupShapes DEF Send, SignupInv, CallsAgree, AccountRecord, Places
<1>2. Moves(c) /\ run'[c].at = "sent" /\ run'[c].op = run[c].op
  BY <1>1, GoFacts DEF Send
<1>3. /\ UNCHANGED <<row, account, plc, lock, faults>> /\ inflight' = inflight \cup {account.did}
      /\ UNCHANGED <<cap, passkeys, revoked, sessions, asked>>
      /\ UNCHANGED <<file, vault, waiting, creds, held, login, rotation>>
  BY DEF Send, accessVars, cliVars, signupVars
<1>4. CliTypeOK'
  BY <1>1, <1>2, <1>3 DEF SignupInv, CliTypeOK, TypeOK, Moves, RunRecord
<1>5. CallsAgree'
  <2>1. Keeps(run[c].op)'
    BY <1>1, <1>2, <1>3 DEF SignupInv, CallsAgree, Keeps
  <2> QED BY <1>1, <1>2, <1>3, <2>1, CallsFrame
<1>6. GenesisAgrees'
  BY <1>3 DEF SignupInv, GenesisAgrees, Keeps
<1>7. ChannelAgrees' /\ KeysAgree'
  BY <1>3 DEF SignupInv, ChannelAgrees, KeysAgree, KeepsAKey, LiveKeys, Live
<1>8. CredentialsAgree'
  BY <1>3 DEF SignupInv, CredentialsAgree
<1> QED BY <1>4, <1>5, <1>6, <1>7, <1>8 DEF SignupInv

LEMMA LeavingSteps ==
  ASSUME SignupInv, NEW c \in Controllers, UNCHANGED cliVars, SentUnknown(c) \/ MonitorWaits(c) \/ Crash(c)
  PROVE  SignupInv'
<1>1. /\ Leave(c) /\ faults' \in 0 .. MaxFaults /\ account' = account
      /\ UNCHANGED <<row, plc, inflight, accessVars, cliVars>>
  BY FaultCounts DEF SentUnknown, MonitorWaits, Crash, accountVars
<1> QED BY <1>1, SteadyState, LeaveStep

LEMMA SentStep ==
  ASSUME SignupInv, NEW c \in Controllers, UNCHANGED cliVars, Sent(c) \/ Monitored(c) \/ EnterActivation(c)
  PROVE  SignupInv'
<1>1. /\ faults' \in 0 .. MaxFaults /\ run[c].at \notin {"idle", "store"} /\ account' = account
      /\ UNCHANGED <<row, plc, inflight, accessVars, cliVars>>
      /\ {"confirm", "begin", "attempt", "issue"} \subseteq Places \ {"idle", "store", "enroll", "submit", "send"}
  BY SteadyFaults DEF Sent, Monitored, EnterActivation, accountVars, Places
<1>2. StateOnly
  BY <1>1, SteadyState
<1>3. CASE Leave(c)
  BY <1>2, <1>3, LeaveStep
<1>4. ASSUME NEW place \in {"confirm", "begin", "attempt", "issue"}, Go(c, place), lock' = lock
      PROVE  SignupInv'
  BY <1>1, <1>2, <1>4, GoStep
<1> QED BY <1>3, <1>4 DEF Sent, Monitored, EnterActivation

LEMMA ConfirmStep ==
  ASSUME SignupInv, NEW c \in Controllers, UNCHANGED cliVars, Confirm(c) \/ Stage(c)
  PROVE  SignupInv'
<1>1. /\ "did-registered" \in States /\ "address-staged" \in States
      /\ {"stage", AfterStaging} \subseteq Places \ {"idle", "store", "enroll", "submit", "send"}
  BY DEF States, Places, AfterStaging
<1>2. run[c].at \notin {"idle", "store"} /\ UNCHANGED <<row, plc, inflight, accessVars, faults>>
  BY DEF Confirm, Stage
<1>3. CASE Confirm(c)
  BY <1>1, <1>2, <1>3, MovedStep DEF Confirm
<1>4. CASE Stage(c)
  BY <1>1, <1>2, <1>4, MovedStep DEF Stage
<1> QED BY <1>3, <1>4

LEMMA ActivationStep ==
  ASSUME SignupInv, NEW c \in Controllers, UNCHANGED cliVars, BeginActivation(c) \/ Activate(c) \/ ActivationFails(c)
  PROVE  SignupInv'
<1>1. /\ faults' \in 0 .. MaxFaults /\ run[c].at \notin {"idle", "store"}
      /\ UNCHANGED <<row, plc, inflight, accessVars, cliVars>>
  BY SteadyFaults, FaultCounts DEF BeginActivation, Activate, ActivationFails
<1>2. /\ {"issue", "verify"} \subseteq Places \ {"idle", "store", "enroll", "submit", "send"}
      /\ "activating" \in States /\ "active" \in States /\ TRUE \in BOOLEAN
  BY DEF States, Places
<1>3. CASE Leave(c) /\ account' = account
  BY <1>1, <1>3, SteadyState, LeaveStep
<1>5. CASE Go(c, "verify") /\ account' = Attempted(c) /\ lock' = lock
  <2>1. StateOnly
    BY <1>1, <1>2, <1>5, AccountState DEF Attempted
  <2> QED BY <1>1, <1>2, <1>5, <2>1, GoStep
<1>6. CASE Activate(c)
  <2>1. /\ account' = [account EXCEPT !.state = "active", !.attempt = None, !.evidence = TRUE]
        /\ Go(c, "issue") /\ lock' = lock /\ None \in Controllers \cup {None}
    BY <1>6 DEF Activate
  <2>2. StateOnly
    BY <1>1, <1>2, <2>1, AccountState
  <2> QED BY <1>1, <1>2, <2>1, <2>2, GoStep
<1>7. CASE ActivationFails(c)
  BY <1>1, <1>7, CancelledState, LeaveStep DEF ActivationFails
<1> QED BY <1>3, <1>5, <1>6, <1>7 DEF BeginActivation

LEMMA KeepsOne ==
  ASSUME NEW a, NEW b, Keeps(a), Keeps(b)
  PROVE  a = b
BY DEF Keeps

(* register binds the account to the operation of the call.                *)
LEMMA BoundFacts ==
  ASSUME SignupInv, NEW op \in Operations, Keeps(op)
  PROVE  /\ Bound(op) \in AccountRecord /\ Bound(op).binding = op /\ Bound(op).did \in {account.did, op}
         /\ account.did # None => account.did = op
         /\ account.binding # None => account.binding = op
<1>1. account \in AccountRecord /\ None \notin Operations
  BY SignupShapes, SignupAssumption
<1>2. account.binding # None => account.binding = op
  BY KeepsOne DEF SignupInv, GenesisAgrees
<1>3. account.did # None => account.did = op
  BY <1>1, <1>2 DEF SignupInv, GenesisAgrees, AccountRecord
<1>4. PICK b, d, s : /\ Bound(op) = [account EXCEPT !.binding = b, !.did = d, !.state = s]
                     /\ b = op /\ d \in {account.did, op} /\ s \in {account.state, "prepared"}
  <2> DEFINE b == IF account.binding = None THEN op ELSE account.binding
             d == IF account.state = "reserved" THEN op ELSE account.did
             s == IF account.state = "reserved" THEN "prepared" ELSE account.state
  <2>1. Bound(op) = [account EXCEPT !.binding = b, !.did = d, !.state = s]
    BY <1>1 DEF Bound, AccountRecord
  <2>2. b = op /\ d \in {account.did, op} /\ s \in {account.state, "prepared"}
    BY <1>2
  <2> HIDE DEF b, d, s
  <2> QED BY <2>1, <2>2
<1>5. Bound(op) \in AccountRecord /\ Bound(op).binding = b /\ Bound(op).did = d
  <2>1. b \in Operations \cup {None} /\ d \in Operations \cup {None} /\ s \in States
    BY <1>1, <1>4 DEF AccountRecord, States
  <2>2. PICK w : w = [account EXCEPT !.binding = b, !.did = d, !.state = s]
    OBVIOUS
  <2>3. w \in AccountRecord /\ w.binding = b /\ w.did = d
    BY <1>1, <2>1, <2>2 DEF AccountRecord
  <2> QED BY <1>4, <2>2, <2>3
<1> QED BY <1>2, <1>3, <1>4, <1>5

LEMMA BindStep ==
  ASSUME SignupInv, NEW c \in Controllers, Bind(c), UNCHANGED cliVars
  PROVE  SignupInv'
<1>1. /\ run \in [Controllers -> RunRecord] /\ run[c] \in RunRecord /\ account \in AccountRecord
      /\ None \notin Operations /\ lock \in Controllers \cup {None}
  BY SignupShapes, SignupAssumption
<1>2. PICK op \in Operations : op = run[c].op /\ Keeps(op)
  BY <1>1 DEF SignupInv, CallsAgree, Bind, RunRecord
<1>3. PICK b \in AccountRecord : b = Bound(op) /\ b.binding = op /\ b.did \in {account.did, op}
  BY <1>2, BoundFacts
<1>4. /\ UNCHANGED <<row, plc, inflight, faults, cap, passkeys, revoked, sessions, asked>>
      /\ UNCHANGED <<file, vault, waiting, creds, held, login, rotation>>
  BY DEF Bind, accessVars, cliVars, signupVars
<1>5. account' \in AccountRecord /\ account'.binding = op /\ account'.did \in {account.did, op}
  <2>1. account' = b \/ account' = [account EXCEPT !.binding = op]
    BY <1>2, <1>3 DEF Bind
  <2> QED BY <1>1, <1>3, <2>1 DEF AccountRecord
<1>6. PICK w \in RunRecord :
         /\ run' = [run EXCEPT ![c] = w] /\ w.op \in {None, op}
         /\ w.at \in {"submit", "stage", "monitor", "begin"} => w.op = op /\ account'.did = op
         /\ w.at \in {"submit", "stage", "monitor", "begin", "idle"}
  <2>1. CASE b.did = op /\ AfterRegister(b.state) # "idle"
    <3>1. PICK next \in {"submit", "stage", "monitor", "begin"}, seen \in States :
             run' = [run EXCEPT ![c].at = next, ![c].seen = seen]
      BY <1>1, <1>2, <1>3, <2>1 DEF Bind, AfterRegister, AfterStaging, AccountRecord, States
    <3>2. account' = b
      BY <1>2, <1>3, <2>1 DEF Bind
    <3>3. PICK w : w = [run[c] EXCEPT !.at = next, !.seen = seen]
      OBVIOUS
    <3>4. w \in RunRecord /\ w.at = next /\ w.op = op
      BY <1>1, <1>2, <3>3 DEF RunRecord, Places
    <3>5. run' = [run EXCEPT ![c] = w]
      BY <1>1, <3>1, <3>3
    <3> QED BY <2>1, <3>2, <3>4, <3>5
  <2>2. CASE ~(b.did = op /\ AfterRegister(b.state) # "idle")
    <3>1. run' = [run EXCEPT ![c] = Idle]
      BY <1>2, <1>3, <2>2 DEF Bind, Leave
    <3> QED BY <3>1, IdleCall
  <2> QED BY <2>1, <2>2
<1>7. Moves(c) /\ run'[c] = w
  BY <1>1, <1>6 DEF Moves
<1>8. lock' \in Controllers \cup {None}
  BY <1>1 DEF Bind, Leave, Free
<1>9. CliTypeOK'
  BY <1>4, <1>5, <1>7, <1>8 DEF SignupInv, CliTypeOK, TypeOK, Moves, RunRecord, AccountRecord
<1>10. (account.did # None => account.did = op) /\ op # None
  BY <1>1, <1>2, BoundFacts
<1>11. \A x : Keeps(x)' <=> Keeps(x)
  BY <1>4 DEF Keeps
<1>12. CallsAgree'
  <2>1. run'[c].op # None => Keeps(run[c].op)'
    BY <1>2, <1>4, <1>6, <1>7 DEF Keeps
  <2>2. account.did # None => account'.did = account.did
    BY <1>5, <1>10
  <2> QED BY <1>4, <1>6, <1>7, <1>10, <2>1, <2>2, CallsFrame
<1>13. GenesisAgrees'
  <2>1. Keeps(account.binding)'
    BY <1>2, <1>4, <1>5 DEF Keeps
  <2>2. \A x \in plc \cup inflight : x = op /\ account'.did = op
    <3>1. ASSUME NEW x \in plc \cup inflight
          PROVE  x = op
      <4>1. account.did = x /\ x # None
        BY <1>1, SignupShapes DEF SignupInv, GenesisAgrees
      <4> QED BY <1>10, <4>1
    <3>2. (plc \cup inflight # {}) => account.did = op
      BY <3>1 DEF SignupInv, GenesisAgrees
    <3> QED BY <1>5, <3>1, <3>2
  <2>3. account'.did # None => account'.did = account'.binding
    BY <1>5, <1>10
  <2> QED BY <1>4, <2>1, <2>2, <2>3 DEF GenesisAgrees
<1>14. ChannelAgrees' /\ KeysAgree' /\ CredentialsAgree'
  BY <1>4 DEF SignupInv, ChannelAgrees, KeysAgree, KeepsAKey, LiveKeys, Live, CredentialsAgree
<1> QED BY <1>9, <1>12, <1>13, <1>14 DEF SignupInv

(* A call takes the operation brought, or the one kept.                    *)
LEMMA BringFacts ==
  ASSUME SignupInv, NEW c \in Controllers, NEW op \in Operations, Bring(c, op)
  PROVE  Moves(c) /\ run'[c].at = "account" /\ run'[c].op = op
<1>1. run \in [Controllers -> RunRecord] /\ run[c] \in RunRecord
  BY SignupShapes
<1>2. PICK w : w = [run[c] EXCEPT !.at = "account", !.op = op]
  OBVIOUS
<1>3. w \in RunRecord /\ w.at = "account" /\ w.op = op
  BY <1>1, <1>2 DEF RunRecord, Places
<1>4. run' = [run EXCEPT ![c] = w]
  BY <1>1, <1>2 DEF Bring
<1> QED BY <1>1, <1>3, <1>4 DEF Moves

LEMMA StoreStep ==
  ASSUME SignupInv, NEW c \in Controllers, NEW op \in Operations, Store(c, op), UNCHANGED cliVars
  PROVE  SignupInv'
<1>1. CASE ~Accepts(op)
  <2>1. Leave(c) /\ account' = account /\ faults' \in 0 .. MaxFaults /\ UNCHANGED <<row, plc, inflight, accessVars, cliVars>>
    BY <1>1, SteadyFaults DEF Store, accountVars
  <2> QED BY <2>1, SteadyState, LeaveStep
<1>2. CASE Accepts(op)
  <2>1. /\ row' = [row EXCEPT !.op = op] /\ Bring(c, op) /\ UNCHANGED <<lock, account, plc, inflight, faults>>
        /\ UNCHANGED <<cap, passkeys, revoked, sessions, asked>>
        /\ UNCHANGED <<file, vault, waiting, creds, held, login, rotation>>
    BY <1>2 DEF Store, accountVars, accessVars, cliVars, signupVars
  <2>2. row \in RowRecord /\ op # None /\ row.channel = "browser" /\ (row.op # None => op = row.op)
    BY <1>2, SignupShapes, SignupAssumption DEF Store, SignupInv, CallsAgree, Accepts
  <2>3. /\ row' \in RowRecord /\ row'.op = op /\ row'.channel = row.channel /\ row'.at = row.at
        /\ row'.completed = row.completed
    BY <2>1, <2>2 DEF RowRecord
  <2>4. Moves(c) /\ run'[c].at = "account" /\ run'[c].op = op
    BY <2>1, BringFacts
  <2>5. CliTypeOK'
    BY <2>1, <2>3, <2>4 DEF SignupInv, CliTypeOK, TypeOK, Moves, RunRecord, RowRecord
  <2>6. CallsAgree'
    <3>1. Keeps(run[c].op)'
      BY <2>2, <2>3, <2>4 DEF Keeps
    <3> QED BY <2>1, <2>2, <2>3, <2>4, <3>1, CallsFrame
  <2>7. GenesisAgrees'
    BY <2>1, <2>2, <2>3 DEF SignupInv, GenesisAgrees, Keeps
  <2>8. ChannelAgrees' /\ KeysAgree' /\ CredentialsAgree'
    BY <2>1, <2>3 DEF SignupInv, ChannelAgrees, KeysAgree, KeepsAKey, LiveKeys, Live, CredentialsAgree
  <2> QED BY <2>5, <2>6, <2>7, <2>8 DEF SignupInv
<1> QED BY <1>1, <1>2

LEMMA PollStep ==
  ASSUME SignupInv, NEW c \in Controllers, Poll(c), UNCHANGED cliVars
  PROVE  SignupInv'
<1>1. /\ account' = account /\ faults' \in 0 .. MaxFaults /\ UNCHANGED <<row, plc, inflight, accessVars, cliVars>>
      /\ run[c].at = "store" /\ row.channel = "browser"
  BY FaultCounts DEF Poll, accountVars, SignupInv, CallsAgree
<1>2. StateOnly
  BY <1>1, SteadyState
<1>3. CASE row.op = None
  BY <1>2, <1>3, LeaveStep DEF Poll
<1>4. CASE row.op # None
  <2>1. PICK op \in Operations : op = row.op /\ op # None
    BY <1>4, SignupShapes DEF RowRecord
  <2>2. Moves(c) /\ run'[c].at = "account" /\ run'[c].op = op /\ lock' = lock
    BY <1>4, <2>1, BringFacts DEF Poll
  <2>3. /\ UNCHANGED <<row, account, plc, inflight, cap, passkeys, revoked, sessions, asked>>
        /\ UNCHANGED <<file, vault, waiting, creds, held, login, rotation>>
    BY <1>1 DEF accessVars, cliVars, signupVars
  <2>4. CliTypeOK'
    BY <1>1, <2>2, <2>3 DEF SignupInv, CliTypeOK, TypeOK, Moves, RunRecord
  <2>5. CallsAgree'
    <3>1. Keeps(run[c].op)'
      BY <1>1, <2>1, <2>2, <2>3 DEF Keeps
    <3> QED BY <2>1, <2>2, <2>3, <3>1, CallsFrame
  <2>6. GenesisAgrees'
    BY <2>3, GenesisFrame
  <2>7. ChannelAgrees' /\ KeysAgree' /\ CredentialsAgree'
    BY <2>3 DEF SignupInv, ChannelAgrees, KeysAgree, KeepsAKey, LiveKeys, Live, CredentialsAgree
  <2> QED BY <2>4, <2>5, <2>6, <2>7 DEF SignupInv
<1> QED BY <1>3, <1>4

LEMMA AdvanceStep ==
  ASSUME SignupInv, NEW c \in Controllers, Advance(c), UNCHANGED cliVars
  PROVE  SignupInv'
<1>1. /\ row \in RowRecord /\ run \in [Controllers -> RunRecord] /\ row.channel = "browser"
      /\ UNCHANGED <<account, plc, inflight, faults, cap, passkeys, revoked, sessions, asked>>
      /\ UNCHANGED <<file, vault, waiting, creds, held, login, rotation>> /\ lock' = c
  BY SignupShapes DEF Advance, accountVars, accessVars, cliVars, signupVars, SignupInv, ChannelAgrees
<1>2. /\ row' \in RowRecord /\ row'.op = row.op /\ row'.channel = row.channel /\ row'.at = row.at
      /\ row'.completed = row.completed
  BY <1>1 DEF Advance, RowRecord
<1>3. Moves(c) /\ run'[c].at = "store" /\ run'[c].op = None
  <2>1. PICK w : w = [Idle EXCEPT !.at = "store", !.connected = TRUE]
    OBVIOUS
  <2>2. w \in RunRecord /\ w.at = "store" /\ w.op = None
    BY <2>1 DEF Idle, RunRecord, Places, States
  <2> QED BY <1>1, <2>1, <2>2 DEF Advance, Moves
<1>4. CliTypeOK'
  BY <1>1, <1>2, <1>3 DEF SignupInv, CliTypeOK, TypeOK, Moves, RunRecord, RowRecord
<1>5. CallsAgree'
  BY <1>1, <1>2, <1>3, CallsFrame
<1>6. GenesisAgrees'
  BY <1>1, <1>2, GenesisFrame
<1>7. ChannelAgrees' /\ KeysAgree' /\ CredentialsAgree'
  BY <1>1, <1>2 DEF SignupInv, ChannelAgrees, KeysAgree, KeepsAKey, LiveKeys, Live, CredentialsAgree
<1> QED BY <1>4, <1>5, <1>6, <1>7 DEF SignupInv

LEMMA DisconnectStep ==
  ASSUME SignupInv, NEW c \in Controllers, Disconnect(c), UNCHANGED cliVars
  PROVE  SignupInv'
<1>1. StateOnly
  BY FaultCounts, SteadyState DEF Disconnect, accountVars
<1>2. run \in [Controllers -> RunRecord] /\ run[c] \in RunRecord /\ lock \in Controllers \cup {None}
  BY SignupShapes
<1>3. lock' \in Controllers \cup {None}
  BY <1>2 DEF Disconnect, Free
<1>4. CASE run[c].at = "store"
  <2>1. run' = [run EXCEPT ![c] = Idle]
    BY <1>2, <1>4 DEF Disconnect
  <2>2. Moves(c) /\ run'[c].at = "idle" /\ run'[c].op = None
    BY <1>2, <2>1, IdleCall DEF Moves
  <2> QED BY <1>1, <1>3, <2>2, CallStep
<1>5. CASE run[c].at # "store"
  <2>1. PICK w : w = [run[c] EXCEPT !.connected = FALSE]
    OBVIOUS
  <2>2. w \in RunRecord /\ w.at = run[c].at /\ w.op = run[c].op
    BY <1>2, <2>1 DEF RunRecord
  <2>3. run' = [run EXCEPT ![c] = w]
    BY <1>2, <1>5, <2>1 DEF Disconnect
  <2>4. Moves(c) /\ run'[c].at = run[c].at /\ run'[c].op = run[c].op
    BY <1>2, <2>2, <2>3 DEF Moves
  <2> QED BY <1>1, <1>3, <1>5, <2>4, CallStep DEF SignupInv, CallsAgree
<1> QED BY <1>4, <1>5

(* A step in which no call moves, the operation kept stays kept and the    *)
(* account stays bound as it is.                                           *)
Still ==
    /\ row'.channel = row.channel /\ UNCHANGED run
    /\ \A x : x # None /\ Keeps(x) => Keeps(x)'
    /\ account'.did = account.did /\ account'.binding = account.binding
    /\ plc' \cup inflight' \subseteq plc \cup inflight
    /\ creds["signup"] # "none" => creds'["signup"] # "none"

LEMMA StillFrame ==
  ASSUME SignupInv, Still
  PROVE  CallsAgree' /\ GenesisAgrees'
<1>1. CallsAgree'
  <2> SUFFICES ASSUME NEW c \in Controllers
               PROVE  /\ run'[c].at \notin {"idle", "store"} => run'[c].op # None
                      /\ run'[c].op # None => Keeps(run[c].op)'
                      /\ run'[c].at \in {"submit", "send"} => account'.did # None
                      /\ run'[c].at = "store" => row'.channel = "browser"
                      /\ run'[c].at = "enroll" => row'.channel = "cli" /\ creds'["signup"] # "none"
    BY DEF CallsAgree
  <2>1. PICK op : op = run[c].op /\ op = run'[c].op
    BY DEF Still
  <2>2. op # None => Keeps(op)'
    BY <2>1 DEF SignupInv, CallsAgree, Still
  <2>3. op # None => Keeps(run[c].op)'
    BY <2>1, <2>2 DEF Keeps
  <2> QED BY <2>1, <2>3 DEF SignupInv, CallsAgree, Still
<1>2. GenesisAgrees'
  <2>1. GenesisAgrees
    BY DEF SignupInv
  <2>2. PICK op : op = account.binding /\ op = account'.binding
    BY DEF Still
  <2>3. op # None => Keeps(op)'
    BY <2>1, <2>2 DEF GenesisAgrees, Still
  <2>4. op # None => Keeps(account.binding)'
    BY <2>2, <2>3 DEF Keeps
  <2> QED BY <2>1, <2>2, <2>4 DEF GenesisAgrees, Still
<1> QED BY <1>1, <1>2

LEMMA StillKept ==
  ASSUME SignupInv, UNCHANGED <<run, account, plc, inflight, file, vault, creds>>,
         row'.channel = row.channel, row'.op = row.op
  PROVE  CallsAgree' /\ GenesisAgrees'
<1>1. Still
  BY DEF Still, Keeps
<1> QED BY <1>1, StillFrame

(* The directory takes an operation on its way.                            *)
LEMMA LandStep ==
  ASSUME SignupInv, NEW op \in Operations, Land(op), UNCHANGED cliVars
  PROVE  SignupInv'
<1>1. /\ UNCHANGED <<row, account, run, lock, faults, cap, passkeys, revoked, sessions, asked>>
      /\ UNCHANGED <<file, vault, waiting, creds, held, login, rotation>>
      /\ plc' = plc \cup {op} /\ inflight' = inflight \ {op} /\ op \in inflight
  BY DEF Land, accessVars, cliVars, signupVars
<1>2. Still
  BY <1>1 DEF Still, Keeps
<1>3. CliTypeOK'
  BY <1>1 DEF SignupInv, CliTypeOK, TypeOK
<1>4. ChannelAgrees' /\ KeysAgree' /\ CredentialsAgree'
  BY <1>1 DEF SignupInv, ChannelAgrees, KeysAgree, KeepsAKey, LiveKeys, Live, CredentialsAgree
<1> QED BY <1>2, <1>3, <1>4, StillFrame DEF SignupInv

(* The ceremony row, short of its operation and its completion.            *)
LEMMA RowStep ==
  ASSUME SignupInv, UNCHANGED cliVars, Admit \/ Attach \/ Expire \/ \E op \in Operations : VerifyBackup(op)
  PROVE  SignupInv'
<1>1. /\ UNCHANGED <<account, plc, inflight, run, lock, cap, passkeys, revoked, sessions, asked>>
      /\ UNCHANGED <<file, vault, waiting, creds, held, login, rotation>> /\ faults' \in 0 .. MaxFaults
  BY FaultCounts, SteadyFaults DEF Admit, Attach, VerifyBackup, Expire, accountVars, accessVars, cliVars, signupVars
<1>2. row \in RowRecord
  BY SignupShapes
<1>3. /\ row' \in RowRecord /\ row'.channel = row.channel /\ row'.op = row.op /\ row'.completed = row.completed
      /\ row'.at = "attached" => row.channel = "browser"
  <2>1. CASE Admit
    BY <1>2, <2>1 DEF Admit, RowRecord
  <2>2. CASE Attach
    BY <1>2, <2>2 DEF Attach, RowRecord
  <2>3. CASE \E op \in Operations : VerifyBackup(op)
    BY <1>2, <2>3 DEF VerifyBackup, RowRecord, SignupInv, ChannelAgrees
  <2>4. CASE Expire
    BY <1>2, <2>4 DEF Expire, RowRecord, SignupInv, ChannelAgrees
  <2> QED BY <2>1, <2>2, <2>3, <2>4
<1>4. CliTypeOK'
  BY <1>1, <1>3 DEF SignupInv, CliTypeOK, TypeOK, RowRecord
<1>5. ChannelAgrees' /\ KeysAgree' /\ CredentialsAgree'
  BY <1>1, <1>3 DEF SignupInv, ChannelAgrees, KeysAgree, KeepsAKey, LiveKeys, Live, CredentialsAgree
<1> QED BY <1>1, <1>3, <1>4, <1>5, StillKept DEF SignupInv

LEMMA ReserveStep ==
  ASSUME SignupInv, Reserve, UNCHANGED cliVars
  PROVE  SignupInv'
<1>1. /\ UNCHANGED <<row, plc, inflight, run, lock, faults, cap, passkeys, revoked, sessions, asked>>
      /\ UNCHANGED <<file, vault, waiting, creds, held, login, rotation>>
  BY DEF Reserve, accessVars, cliVars, signupVars
<1>2. account \in AccountRecord
  BY SignupShapes
<1>3. account' \in AccountRecord /\ account'.did = account.did /\ account'.binding = account.binding
  BY <1>2 DEF Reserve, AccountRecord, States
<1>4. Still
  BY <1>1, <1>3 DEF Still, Keeps
<1>5. CliTypeOK'
  BY <1>1, <1>3 DEF SignupInv, CliTypeOK, TypeOK, AccountRecord
<1>6. ChannelAgrees' /\ KeysAgree' /\ CredentialsAgree'
  BY <1>1 DEF SignupInv, ChannelAgrees, KeysAgree, KeepsAKey, LiveKeys, Live, CredentialsAgree
<1> QED BY <1>4, <1>5, <1>6, StillFrame DEF SignupInv

(* Passkeys, sessions and capabilities: a step that leaves the rest alone. *)
Caps == [{"setup", "owner"} -> {"none", "open", "expired"} \cup Keys]

LEMMA AccessFrame ==
  ASSUME SignupInv, UNCHANGED <<accountVars, run, lock, cliVars>>,
         row' \in RowRecord, row'.channel = row.channel, row'.op = row.op, row'.at = row.at,
         row.channel = "cli" => UNCHANGED <<row, passkeys>>,
         faults' \in 0 .. MaxFaults, cap' \in Caps, passkeys' \in [Keys -> Authorities \cup {None}],
         revoked' \subseteq Keys, sessions' \subseteq Keys, asked' \subseteq Keys \X Keys, KeysAgree'
  PROVE  SignupInv'
<1>1. UNCHANGED <<account, plc, inflight, run, lock, file, vault, waiting, creds, held, login, rotation>>
  BY DEF accountVars, cliVars, signupVars
<1>2. CliTypeOK'
  BY <1>1 DEF SignupInv, CliTypeOK, TypeOK, RowRecord, Caps
<1>3. ChannelAgrees' /\ CredentialsAgree'
  BY <1>1 DEF SignupInv, ChannelAgrees, CredentialsAgree
<1> QED BY <1>1, <1>2, <1>3, StillKept DEF SignupInv

LEMMA AccessShapes ==
  ASSUME SignupInv
  PROVE  /\ row \in RowRecord /\ cap \in Caps /\ passkeys \in [Keys -> Authorities \cup {None}]
         /\ revoked \subseteq Keys /\ sessions \subseteq Keys /\ asked \subseteq Keys \X Keys
         /\ None \notin Authorities /\ "open" \notin Keys /\ None \notin Keys
BY SignupAssumption DEF SignupInv, CliTypeOK, TypeOK, RowRecord, Caps, Authorities

LEMMA CapabilityStep ==
  ASSUME SignupInv, NEW a \in {"setup", "owner"}, Prove \/ CapabilityExpires(a), UNCHANGED cliVars
  PROVE  SignupInv'
<1>1. /\ UNCHANGED <<accountVars, run, lock, cliVars, row, passkeys, revoked, sessions, asked>>
      /\ faults' \in 0 .. MaxFaults
  BY FaultCounts, SteadyFaults DEF Prove, CapabilityExpires
<1>2. cap' \in Caps /\ (cap'["setup"] = "open" => cap["setup"] = "open")
  <2>1. CASE Prove
    BY <2>1, AccessShapes DEF Prove, Caps
  <2>2. CASE CapabilityExpires(a)
    BY <2>2, AccessShapes DEF CapabilityExpires, Caps
  <2> QED BY <2>1, <2>2
<1>3. KeysAgree'
  BY <1>1, <1>2 DEF SignupInv, KeysAgree, KeepsAKey, LiveKeys, Live
<1> QED BY <1>1, <1>2, <1>3, AccessShapes, AccessFrame

LEMMA EnrollStep ==
  ASSUME SignupInv, NEW a \in {"setup", "owner"}, NEW k \in Keys, row.channel = "browser", EnrollPasskey(a, k), UNCHANGED cliVars
  PROVE  SignupInv'
<1>1. UNCHANGED <<accountVars, run, lock, cliVars, row, revoked, sessions, asked>> /\ faults' \in 0 .. MaxFaults
  BY SteadyFaults DEF EnrollPasskey
<1>2. cap' \in Caps /\ cap'[a] = k /\ \A b \in {"setup", "owner"} : b # a => cap'[b] = cap[b]
  BY AccessShapes DEF EnrollPasskey, Caps
<1>3. /\ passkeys' \in [Keys -> Authorities \cup {None}] /\ passkeys'[k] = a /\ passkeys[k] = None
      /\ \A j \in Keys : j # k => passkeys'[j] = passkeys[j]
  BY AccessShapes DEF EnrollPasskey, Challenged, Enrolls, Authorities
<1>4. a # None /\ "open" \notin Keys
  BY AccessShapes DEF Authorities
<1>5. KeysAgree'
  <2>1. k \notin revoked
    BY <1>3 DEF SignupInv, KeysAgree
  <2>2. k \in LiveKeys'
    BY <1>1, <1>3, <1>4, <2>1 DEF LiveKeys, Live
  <2>3. \A j \in revoked' : passkeys'[j] # None
    BY <1>1, <1>3, <1>4, AccessShapes DEF SignupInv, KeysAgree
  <2>4. cap'["setup"] = "open" => ~row'.completed /\ \A j \in Keys : passkeys'[j] # "setup"
    BY <1>1, <1>2, <1>3, <1>4 DEF SignupInv, KeysAgree
  <2> QED BY <2>2, <2>3, <2>4 DEF KeysAgree, KeepsAKey
<1> QED BY <1>1, <1>2, <1>3, <1>5, AccessShapes, AccessFrame

LEMMA SessionStep ==
  ASSUME SignupInv, NEW k \in Keys, NEW by \in Keys, SignIn(k) \/ SignOut(k) \/ AskRevoke(by, k), UNCHANGED cliVars
  PROVE  SignupInv'
<1>1. UNCHANGED <<accountVars, run, lock, cliVars, row, cap, passkeys, revoked>> /\ faults' \in 0 .. MaxFaults
  BY SteadyFaults DEF SignIn, SignOut, AskRevoke
<1>2. sessions' \subseteq Keys /\ asked' \subseteq Keys \X Keys
  BY AccessShapes DEF SignIn, SignOut, AskRevoke
<1>3. KeysAgree'
  BY <1>1 DEF SignupInv, KeysAgree, KeepsAKey, LiveKeys, Live
<1> QED BY <1>1, <1>2, <1>3, AccessShapes, AccessFrame

LEMMA AddKeyStep ==
  ASSUME SignupInv, NEW k \in Keys, NEW by \in Keys, row.channel = "browser", AddKey(by, k), UNCHANGED cliVars
  PROVE  SignupInv'
<1>1. UNCHANGED <<accountVars, run, lock, cliVars, row, cap, revoked, sessions, asked>> /\ faults' \in 0 .. MaxFaults
  BY SteadyFaults DEF AddKey
<1>2. /\ passkeys' \in [Keys -> Authorities \cup {None}] /\ passkeys'[k] = "session" /\ passkeys[k] = None
      /\ \A j \in Keys : j # k => passkeys'[j] = passkeys[j]
  BY AccessShapes DEF AddKey, Authorities
<1>3. "session" # None
  BY AccessShapes DEF Authorities
<1>4. KeysAgree'
  <2>1. k \notin revoked
    BY <1>2 DEF SignupInv, KeysAgree
  <2>2. k \in LiveKeys'
    BY <1>1, <1>2, <1>3, <2>1 DEF LiveKeys, Live
  <2>3. \A j \in revoked' : passkeys'[j] # None
    BY <1>1, <1>2, <1>3, AccessShapes DEF SignupInv, KeysAgree
  <2>4. cap'["setup"] = "open" => ~row'.completed /\ \A j \in Keys : passkeys'[j] # "setup"
    BY <1>1, <1>2 DEF SignupInv, KeysAgree
  <2> QED BY <2>2, <2>3, <2>4 DEF KeysAgree, KeepsAKey
<1> QED BY <1>1, <1>2, <1>4, AccessShapes, AccessFrame

(* Only a passkey that is not the last live one is revoked.                *)
LEMMA RevokeStep ==
  ASSUME SignupInv, NEW k \in Keys, NEW by \in Keys, Revoke(by, k), UNCHANGED cliVars
  PROVE  SignupInv'
<1>1. UNCHANGED <<accountVars, run, lock, cliVars, row, cap, passkeys>> /\ faults' \in 0 .. MaxFaults
  BY SteadyFaults DEF Revoke
<1>2. revoked' \subseteq Keys /\ sessions' \subseteq Keys /\ asked' \subseteq Keys \X Keys
  BY AccessShapes DEF Revoke
<1>3. KeysAgree'
  <2>1. CASE Revocable(k)
    <3>1. revoked' = revoked \cup {k} /\ passkeys[k] # None
      BY <2>1 DEF Revoke, Revocable, LiveKeys, Live
    <3>2. PICK j \in LiveKeys : j # k
      BY <2>1 DEF Revocable
    <3>3. j \in LiveKeys'
      BY <1>1, <3>1, <3>2 DEF LiveKeys, Live
    <3>4. \A i \in revoked' : passkeys'[i] # None
      BY <1>1, <3>1 DEF SignupInv, KeysAgree
    <3> QED BY <1>1, <3>3, <3>4 DEF SignupInv, KeysAgree, KeepsAKey
  <2>2. CASE ~Revocable(k)
    BY <1>1, <2>2 DEF Revoke, SignupInv, KeysAgree, KeepsAKey, LiveKeys, Live
  <2> QED BY <2>1, <2>2
<1> QED BY <1>1, <1>2, <1>3, AccessShapes, AccessFrame

LEMMA CompleteStep ==
  ASSUME SignupInv, NEW k \in Keys, Complete(k), UNCHANGED cliVars
  PROVE  SignupInv'
<1>1. UNCHANGED <<accountVars, run, lock, cliVars, passkeys, revoked, sessions, asked>> /\ faults' \in 0 .. MaxFaults
  BY SteadyFaults DEF Complete
<1>2. row' \in RowRecord /\ row'.channel = row.channel /\ row'.op = row.op /\ row'.at = row.at /\ row.channel # "cli"
  BY AccessShapes DEF Complete, RowRecord, SignupInv, ChannelAgrees
<1>3. cap' \in Caps /\ cap'["setup"] # "open"
  BY AccessShapes DEF Complete, Caps
<1>4. KeysAgree'
  BY <1>1, <1>3 DEF SignupInv, KeysAgree, KeepsAKey, LiveKeys, Live
<1> QED BY <1>1, <1>2, <1>3, <1>4, AccessShapes, AccessFrame

(* A call ends, and the operation kept stays kept.                         *)
LEMMA EndedFrame ==
  ASSUME SignupInv, NEW c \in Controllers, Leave(c), UNCHANGED <<row, account, plc, inflight, vault, creds>>,
         file'.op = file.op
  PROVE  CallsAgree' /\ GenesisAgrees' /\ run' \in [Controllers -> RunRecord] /\ lock' \in Controllers \cup {None}
<1>1. Moves(c) /\ run'[c].at = "idle" /\ run'[c].op = None /\ lock' \in Controllers \cup {None}
  BY LeaveFacts
<1>2. CallsAgree'
  <2> SUFFICES ASSUME NEW d \in Controllers
               PROVE  /\ run'[d].at \notin {"idle", "store"} => run'[d].op # None
                      /\ run'[d].op # None => Keeps(run[d].op)'
                      /\ run'[d].at \in {"submit", "send"} => account'.did # None
                      /\ run'[d].at = "store" => row'.channel = "browser"
                      /\ run'[d].at = "enroll" => row'.channel = "cli" /\ creds'["signup"] # "none"
    BY DEF CallsAgree
  <2>1. CASE d = c
    BY <1>1, <2>1
  <2>2. CASE d # c
    <3>1. run'[d] = run[d]
      BY <1>1, <2>2 DEF Moves
    <3>2. run[d].op # None => Keeps(run[d].op)'
      BY <3>1 DEF SignupInv, CallsAgree, Keeps
    <3> QED BY <3>1, <3>2 DEF SignupInv, CallsAgree
  <2> QED BY <2>1, <2>2
<1>3. GenesisAgrees'
  BY DEF SignupInv, GenesisAgrees, Keeps
<1> QED BY <1>1, <1>2, <1>3 DEF Moves

LEMMA IssueStep ==
  ASSUME SignupInv, NEW c \in Controllers, Issue(c), UNCHANGED cliVars
  PROVE  SignupInv'
<1>1. /\ UNCHANGED <<row, account, plc, inflight, passkeys, revoked, sessions, asked, faults>>
      /\ UNCHANGED <<file, vault, waiting, creds, held, login, rotation>> /\ Leave(c)
  BY DEF Issue, accountVars, cliVars, signupVars
<1>2. CallsAgree' /\ GenesisAgrees' /\ run' \in [Controllers -> RunRecord] /\ lock' \in Controllers \cup {None}
  BY <1>1, EndedFrame
<1>3. cap' \in Caps
  BY AccessShapes DEF Issue, Caps
<1>4. CliTypeOK'
  BY <1>1, <1>2, <1>3 DEF SignupInv, CliTypeOK, TypeOK, Caps, RunRecord
<1>5. cap'["setup"] = "open" => ~row.completed /\ \A k \in Keys : passkeys[k] # "setup"
  <2>1. CASE Issuable(c)
    <3>1. ~row.completed
      BY <2>1 DEF Issuable, Issue, Fenced, Stands
    <3>2. "setup" # None
      BY AccessShapes DEF Authorities
    <3> QED BY <2>1, <3>1, <3>2 DEF Issuable
  <2>2. CASE ~Issuable(c)
    BY <2>2 DEF Issue, SignupInv, KeysAgree
  <2> QED BY <2>1, <2>2
<1>6. KeysAgree'
  BY <1>1, <1>5 DEF SignupInv, KeysAgree, KeepsAKey, LiveKeys, Live
<1>7. ChannelAgrees' /\ CredentialsAgree'
  BY <1>1 DEF SignupInv, ChannelAgrees, CredentialsAgree
<1> QED BY <1>2, <1>4, <1>6, <1>7 DEF SignupInv

(* The steps of the command line.                                          *)
FileRecord == [at : {"none", "new", "prepared", "signed"}, op : Operations \cup {None}, done : BOOLEAN]
LoginRecord == [file : {"none", "new", "signed", "done"}, challenge : {"none", "open", "spent"}, live : BOOLEAN]
RotationRecord == [at : {"none", "pending", "saved", "done"}, from : Tokens \cup {None}]

LEMMA CliShapes ==
  ASSUME SignupInv
  PROVE  /\ file \in FileRecord /\ vault \in Operations \cup {None} /\ waiting \in Controllers \cup {None}
         /\ creds \in [Tokens -> {"none", "live", "revoked"}] /\ held \subseteq Tokens /\ login \in LoginRecord
         /\ rotation \in [Outputs -> RotationRecord] /\ \A o \in Outputs : rotation[o] \in RotationRecord
         /\ "signup" \in Tokens /\ "login" \in Tokens /\ Outputs \subseteq Tokens
         /\ None \notin Operations /\ None \notin Controllers
BY SignupAssumption DEF SignupInv, CliTypeOK, FileRecord, LoginRecord, RotationRecord, Tokens

CliTypes ==
    /\ file \in FileRecord /\ vault \in Operations \cup {None} /\ waiting \in Controllers \cup {None}
    /\ creds \in [Tokens -> {"none", "live", "revoked"}] /\ held \subseteq Tokens /\ login \in LoginRecord
    /\ rotation \in [Outputs -> RotationRecord]

(* A step of the command line in which the provider's signup does not move.*)
LEMMA CliFrame ==
  ASSUME SignupInv, faults' \in 0 .. MaxFaults, UNCHANGED <<row, accountVars, run, lock, accessVars>>,
         CliTypes', file'.at # "none" => row.channel = "cli",
         \A x : x # None /\ Keeps(x) => Keeps(x)',
         creds["signup"] # "none" => creds'["signup"] # "none", CredentialsAgree'
  PROVE  SignupInv'
<1>1. UNCHANGED <<row, account, plc, inflight, run, lock, cap, passkeys, revoked, sessions, asked>>
  BY DEF accountVars, accessVars
<1>2. CliTypeOK'
  BY <1>1 DEF SignupInv, CliTypeOK, TypeOK, CliTypes, FileRecord, LoginRecord, RotationRecord
<1>3. ChannelAgrees' /\ KeysAgree'
  BY <1>1 DEF SignupInv, ChannelAgrees, KeysAgree, KeepsAKey, LiveKeys, Live
<1>4. Still
  BY <1>1 DEF Still
<1> QED BY <1>2, <1>3, <1>4, StillFrame DEF SignupInv

(* The state file and the vault.                                           *)
LEMMA FileStep ==
  ASSUME SignupInv, CreateState \/ SavePreparation \/ BindVault \/ \E op \in Operations : SignGenesis(op)
  PROVE  SignupInv'
<1>1. /\ UNCHANGED <<row, accountVars, run, lock, accessVars>> /\ faults' \in 0 .. MaxFaults
      /\ UNCHANGED <<waiting, creds, held, login, rotation>>
  BY SteadyFaults DEF CreateState, SavePreparation, SignGenesis, BindVault, vars, accountVars, accessVars
<1>2. /\ file' \in FileRecord /\ file'.done = file.done /\ (file'.at # "none" => row.channel = "cli")
      /\ file'.at = "signed" => file'.op # None
  <2>1. CASE CreateState
    BY <2>1, CliShapes DEF CreateState, FileRecord
  <2>2. CASE SavePreparation
    BY <2>2, CliShapes DEF SavePreparation, FileRecord, SignupInv, ChannelAgrees
  <2>3. CASE \E op \in Operations : SignGenesis(op)
    BY <2>3, CliShapes DEF SignGenesis, Signs, FileRecord, SignupInv, ChannelAgrees
  <2>4. CASE BindVault
    BY <2>4, CliShapes DEF BindVault, SignupInv, ChannelAgrees, CredentialsAgree
  <2> QED BY <2>1, <2>2, <2>3, <2>4
<1>3. vault' \in Operations \cup {None} /\ (vault # None => vault' = vault /\ file'.op = file.op)
  <2>1. CASE CreateState \/ SavePreparation
    BY <2>1, CliShapes DEF CreateState, SavePreparation, FileRecord
  <2>2. CASE \E op \in Operations : SignGenesis(op)
    BY <2>2, CliShapes DEF SignGenesis, Signs
  <2>3. CASE BindVault
    BY <2>3, CliShapes DEF BindVault, FileRecord
  <2> QED BY <2>1, <2>2, <2>3
<1>4. \A x : x # None /\ Keeps(x) => Keeps(x)'
  BY <1>1, <1>3 DEF Keeps
<1>5. CliTypes'
  BY <1>1, <1>2, <1>3, CliShapes DEF CliTypes
<1>6. CredentialsAgree'
  BY <1>1, <1>2 DEF SignupInv, CredentialsAgree
<1> QED BY <1>1, <1>2, <1>4, <1>5, <1>6, CliFrame

(* The call answered, or is no longer waited for.                          *)
LEMMA WaitingStep ==
  ASSUME SignupInv, Refused \/ StopWaiting
  PROVE  SignupInv'
<1>1. /\ UNCHANGED <<row, accountVars, run, lock, accessVars>> /\ faults' \in 0 .. MaxFaults
      /\ UNCHANGED <<file, vault, creds, held, login, rotation>> /\ waiting' = None
  BY FaultCounts, SteadyFaults DEF Refused, StopWaiting, vars, accountVars, accessVars
<1>2. \A x : x # None /\ Keeps(x) => Keeps(x)'
  BY <1>1 DEF Keeps
<1>3. CliTypes'
  BY <1>1, CliShapes DEF CliTypes
<1>4. CredentialsAgree' /\ (file'.at # "none" => row.channel = "cli")
  BY <1>1 DEF SignupInv, CredentialsAgree, ChannelAgrees
<1> QED BY <1>1, <1>2, <1>3, <1>4, CliFrame

LEMMA LoginStep ==
  ASSUME SignupInv, Login
  PROVE  SignupInv'
<1>1. /\ UNCHANGED <<row, accountVars, run, lock, accessVars>> /\ faults' \in 0 .. MaxFaults
      /\ UNCHANGED <<file, vault, waiting, rotation>>
  BY FaultCounts, SteadyFaults
     DEF Login, LoginStart, LoginPrepare, LoginSign, LoginComplete, LoginSave, LoginExpires,
         vars, accountVars, accessVars, signupVars
<1>2. login' \in LoginRecord /\ (login'.file # "none" => file.done)
  <2>1. CASE LoginStart
    BY <2>1, CliShapes DEF LoginStart, LoginRecord
  <2>2. CASE LoginPrepare
    BY <2>2, CliShapes DEF LoginPrepare, LoginRecord, SignupInv, CredentialsAgree
  <2>3. CASE LoginSign
    BY <2>3, CliShapes DEF LoginSign, LoginRecord, SignupInv, CredentialsAgree
  <2>4. CASE LoginComplete
    BY <2>4, CliShapes DEF LoginComplete, LoginRecord, SignupInv, CredentialsAgree
  <2>5. CASE LoginSave
    BY <2>5, CliShapes DEF LoginSave, LoginRecord, SignupInv, CredentialsAgree
  <2>6. CASE LoginExpires
    BY <2>6, CliShapes DEF LoginExpires, LoginRecord, SignupInv, CredentialsAgree
  <2> QED BY <2>1, <2>2, <2>3, <2>4, <2>5, <2>6 DEF Login
<1>3. /\ creds' \in [Tokens -> {"none", "live", "revoked"}]
      /\ \A t \in Tokens : creds'[t] \in {creds[t], "live"}
  BY CliShapes DEF Login, LoginStart, LoginPrepare, LoginSign, LoginComplete, LoginSave, LoginExpires
<1>4. creds'["login"] # "none" => login'.challenge = "spent"
  <2>1. CASE LoginPrepare
    BY <2>1, CliShapes DEF LoginPrepare, SignupInv, CredentialsAgree
  <2>2. CASE LoginComplete
    BY <2>2, CliShapes DEF LoginComplete, LoginRecord
  <2>3. CASE LoginStart \/ LoginSign \/ LoginSave \/ LoginExpires
    BY <2>3, CliShapes DEF LoginStart, LoginSign, LoginSave, LoginExpires, LoginRecord, SignupInv, CredentialsAgree
  <2> QED BY <2>1, <2>2, <2>3 DEF Login
<1>5. held \subseteq held' /\ held' \subseteq Tokens /\ (held' # held => file.done)
  <2>1. CASE LoginSave
    BY <2>1, CliShapes DEF LoginSave, SignupInv, CredentialsAgree
  <2>2. CASE ~LoginSave
    BY <2>2, CliShapes DEF Login, LoginStart, LoginPrepare, LoginSign, LoginComplete, LoginExpires
  <2> QED BY <2>1, <2>2
<1>6. \A x : x # None /\ Keeps(x) => Keeps(x)'
  BY <1>1 DEF Keeps
<1>7. CliTypes'
  BY <1>1, <1>2, <1>3, <1>5, CliShapes DEF CliTypes
<1>8. \A o \in Outputs : rotation'[o].at # "none" =>
          rotation'[o].from \in Tokens \ {o} /\ creds'[rotation'[o].from] # "none"
  BY <1>1, <1>3 DEF SignupInv, CredentialsAgree
<1>9. CredentialsAgree'
  BY <1>1, <1>2, <1>3, <1>5, <1>4, <1>8, CliShapes DEF SignupInv, CredentialsAgree
<1>10. (creds["signup"] # "none" => creds'["signup"] # "none") /\ (file'.at # "none" => row.channel = "cli")
  BY <1>1, <1>3, CliShapes DEF SignupInv, ChannelAgrees
<1> QED BY <1>1, <1>6, <1>7, <1>9, <1>10, CliFrame

(* A rotation revokes its source by the authority of what replaces it, so  *)
(* one live credential the owner holds is left.                            *)
LEMMA RotateStep ==
  ASSUME SignupInv, NEW o \in Outputs, NEW t \in Tokens,
         RotateCreate(o) \/ RotateSave(o) \/ RotateRevoke(o) \/ RotateStart(o, t)
  PROVE  SignupInv'
<1>1. /\ UNCHANGED <<row, accountVars, run, lock, accessVars>> /\ faults' \in 0 .. MaxFaults
      /\ UNCHANGED <<file, vault, waiting, login>>
  BY SteadyFaults DEF RotateCreate, RotateSave, RotateRevoke, RotateStart, vars, accountVars, accessVars, signupVars
<1>2. /\ rotation[o] \in RotationRecord /\ rotation \in [Outputs -> RotationRecord] /\ held \subseteq Tokens
      /\ creds \in [Tokens -> {"none", "live", "revoked"}] /\ Outputs \subseteq Tokens /\ "signup" \in Tokens
  BY CliShapes
<1>3. (file'.at # "none" => row.channel = "cli") /\ \A x : x # None /\ Keeps(x) => Keeps(x)'
  BY <1>1 DEF Keeps, SignupInv, ChannelAgrees
<1>4. CASE RotateStart(o, t)
  <2>1. PICK w : w = [at |-> "pending", from |-> t]
    OBVIOUS
  <2>2. w \in RotationRecord /\ w.at = "pending" /\ w.from = t /\ t # o /\ t \in held /\ creds[t] = "live"
    BY <1>4, <2>1 DEF RotationRecord, RotateStart, Authenticates
  <2>3. rotation' = [rotation EXCEPT ![o] = w] /\ UNCHANGED <<creds, held>>
    BY <1>4, <2>1 DEF RotateStart
  <2>4. CliTypes'
    BY <1>1, <1>2, <2>2, <2>3, CliShapes DEF CliTypes
  <2>5. \A p \in Outputs : rotation'[p].at # "none" =>
          rotation'[p].from \in Tokens \ {p} /\ creds'[rotation'[p].from] # "none"
    BY <1>2, <2>2, <2>3 DEF SignupInv, CredentialsAgree
  <2>6. CredentialsAgree'
    BY <1>1, <1>2, <2>2, <2>3, <2>5 DEF SignupInv, CredentialsAgree
  <2> QED BY <1>1, <1>3, <2>3, <2>4, <2>6, CliFrame
<1>5. CASE RotateCreate(o)
  <2>1. creds' = [creds EXCEPT ![o] = "live"] /\ UNCHANGED <<held, rotation>> /\ o # "login"
    BY <1>5, OutputsAssumption DEF RotateCreate
  <2>2. CliTypes'
    BY <1>1, <1>2, <2>1, CliShapes DEF CliTypes
  <2>3. \A p \in Outputs : rotation'[p].at # "none" =>
          rotation'[p].from \in Tokens \ {p} /\ creds'[rotation'[p].from] # "none"
    BY <1>2, <2>1 DEF SignupInv, CredentialsAgree
  <2>4. creds'["login"] = creds["login"]
    BY <1>2, <2>1
  <2>5. CredentialsAgree'
    BY <1>1, <1>2, <2>1, <2>3, <2>4 DEF SignupInv, CredentialsAgree
  <2> QED BY <1>1, <1>2, <1>3, <2>1, <2>2, <2>5, CliFrame
<1>6. CASE RotateSave(o)
  <2>1. PICK w : w = [rotation[o] EXCEPT !.at = "saved"]
    OBVIOUS
  <2>2. w \in RotationRecord /\ w.at = "saved" /\ w.from = rotation[o].from /\ rotation[o].at # "none"
    BY <1>2, <1>6, <2>1 DEF RotationRecord, RotateSave
  <2>3. rotation' = [rotation EXCEPT ![o] = w] /\ held' = held \cup {o} /\ UNCHANGED creds
    BY <1>2, <1>6, <2>1 DEF RotateSave
  <2>4. CliTypes'
    BY <1>1, <1>2, <2>2, <2>3, CliShapes DEF CliTypes
  <2>5. CredentialsAgree'
    BY <1>1, <1>2, <2>2, <2>3 DEF SignupInv, CredentialsAgree
  <2> QED BY <1>1, <1>3, <2>3, <2>4, <2>5, CliFrame
<1>7. CASE RotateRevoke(o)
  <2>1. PICK from \in Tokens : from = rotation[o].from /\ from # o /\ creds[from] # "none"
    BY <1>7 DEF RotateRevoke, Revokes, SignupInv, CredentialsAgree
  <2>2. creds' = [creds EXCEPT ![from] = "revoked"] /\ held' = held /\ rotation[o].at = "saved" /\ creds[o] = "live"
    BY <1>7, <2>1 DEF RotateRevoke, Revokes, Authenticates
  <2>3. creds' \in [Tokens -> {"none", "live", "revoked"}] /\ creds'[o] = "live"
        /\ (creds["signup"] # "none" => creds'["signup"] # "none")
    BY <1>2, <2>1, <2>2
  <2>4. /\ rotation' \in [Outputs -> RotationRecord]
        /\ \A p \in Outputs : rotation'[p].from = rotation[p].from
        /\ \A p \in Outputs : rotation'[p].at = rotation[p].at \/ (p = o /\ rotation'[p].at = "done")
    <3>1. CASE rotation' = rotation
      BY <1>2, <3>1
    <3>2. CASE rotation' = [rotation EXCEPT ![o].at = "done"]
      <4>1. PICK w : w = [rotation[o] EXCEPT !.at = "done"]
        OBVIOUS
      <4>2. w \in RotationRecord /\ w.at = "done" /\ w.from = rotation[o].from
        BY <1>2, <4>1 DEF RotationRecord
      <4>3. rotation' = [rotation EXCEPT ![o] = w]
        BY <1>2, <3>2, <4>1
      <4> QED BY <1>2, <4>2, <4>3
    <3> QED BY <1>7, <3>1, <3>2 DEF RotateRevoke
  <2>5. CliTypes'
    BY <1>1, <1>2, <2>2, <2>3, <2>4, CliShapes DEF CliTypes
  <2>6. o \in held /\ file.done
    BY <2>2, <1>2 DEF SignupInv, CredentialsAgree
  <2>7. \A t1 \in Tokens : creds'[t1] = "none" <=> creds[t1] = "none"
    BY <1>2, <2>1, <2>2
  <2>8. \A p \in Outputs : rotation'[p].at # "none" =>
          rotation'[p].from \in Tokens \ {p} /\ creds'[rotation'[p].from] # "none"
    BY <2>2, <2>4, <2>7 DEF SignupInv, CredentialsAgree
  <2>9. creds'["login"] # "none" => login'.challenge = "spent"
    BY <1>1, <2>7 DEF SignupInv, CredentialsAgree, Tokens
  <2>10. CredentialsAgree'
    BY <1>1, <1>2, <2>2, <2>3, <2>4, <2>6, <2>8, <2>9 DEF SignupInv, CredentialsAgree
  <2> QED BY <1>1, <1>3, <2>3, <2>5, <2>10, CliFrame
<1> QED BY <1>4, <1>5, <1>6, <1>7

(* The signed registration is sent: a call for the operation kept.         *)
LEMMA RequestStep ==
  ASSUME SignupInv, NEW c \in Controllers, Request(c)
  PROVE  SignupInv'
<1>1. /\ UNCHANGED <<row, account, plc, inflight, lock, cap, passkeys, revoked, sessions, asked, faults>>
      /\ UNCHANGED <<file, vault, creds, held, login, rotation>> /\ waiting' = c /\ waiting' # None
  BY CliShapes DEF Request, accountVars, accessVars
<1>2. /\ run \in [Controllers -> RunRecord] /\ file.op \in Operations /\ vault = file.op /\ row.channel = "cli"
      /\ file.op # None /\ ~file.done
  BY SignupShapes, CliShapes DEF Request, FileRecord, SignupInv, ChannelAgrees, CredentialsAgree
<1>3. Moves(c) /\ run'[c].at = "bind" /\ run'[c].op = file.op
  <2>1. PICK w : w = [Idle EXCEPT !.at = "bind", !.op = file.op]
    OBVIOUS
  <2>2. w \in RunRecord /\ w.at = "bind" /\ w.op = file.op
    BY <1>2, <2>1 DEF Idle, RunRecord, Places, States
  <2> QED BY <1>2, <2>1, <2>2 DEF Request, Moves
<1>4. CliTypeOK'
  BY <1>1, <1>3 DEF SignupInv, CliTypeOK, TypeOK, Moves, RunRecord
<1>5. CallsAgree'
  <2>1. Keeps(run[c].op)'
    BY <1>1, <1>2, <1>3 DEF Keeps
  <2> QED BY <1>1, <1>2, <1>3, <2>1, CallsFrame
<1>6. GenesisAgrees'
  BY <1>1, GenesisFrame
<1>7. ChannelAgrees' /\ KeysAgree'
  BY <1>1 DEF SignupInv, ChannelAgrees, KeysAgree, KeepsAKey, LiveKeys, Live
<1>8. CredentialsAgree'
  BY <1>1, <1>2 DEF SignupInv, CredentialsAgree
<1> QED BY <1>4, <1>5, <1>6, <1>7, <1>8 DEF SignupInv

LEMMA IssueCredentialStep ==
  ASSUME SignupInv, NEW c \in Controllers, IssueCredential(c)
  PROVE  SignupInv'
<1>1. /\ UNCHANGED <<row, account, plc, inflight, cap, passkeys, revoked, sessions, asked, faults>>
      /\ UNCHANGED <<file, vault, waiting, held, login, rotation>> /\ row.channel = "cli"
  BY DEF IssueCredential, accountVars, accessVars, signupVars
<1>2. CASE Issues("signup")
  <2>1. creds' = [creds EXCEPT !["signup"] = "live"] /\ Go(c, "enroll") /\ lock' = lock /\ "enroll" \in Places
    BY <1>2 DEF IssueCredential, Places
  <2>2. Moves(c) /\ run'[c].at = "enroll" /\ run'[c].op = run[c].op /\ run[c].op # None
    BY <2>1, GoFacts DEF IssueCredential, SignupInv, CallsAgree
  <2>3. /\ creds' \in [Tokens -> {"none", "live", "revoked"}] /\ creds'["signup"] = "live"
        /\ \A t \in Tokens : creds'[t] \in {creds[t], "live"}
    BY <2>1, CliShapes
  <2>4. CliTypeOK'
    BY <1>1, <2>1, <2>2, <2>3 DEF SignupInv, CliTypeOK, TypeOK, Moves, RunRecord
  <2>5. CallsAgree'
    <3>1. Keeps(run[c].op)'
      BY <1>1, <2>2 DEF SignupInv, CallsAgree, Keeps
    <3> QED BY <1>1, <2>2, <2>3, <3>1, CallsFrame
  <2>6. GenesisAgrees'
    BY <1>1, GenesisFrame
  <2>7. ChannelAgrees' /\ KeysAgree'
    BY <1>1 DEF SignupInv, ChannelAgrees, KeysAgree, KeepsAKey, LiveKeys, Live
  <2>8. \A o \in Outputs : rotation'[o].at # "none" =>
          rotation'[o].from \in Tokens \ {o} /\ creds'[rotation'[o].from] # "none"
    BY <1>1, <2>3 DEF SignupInv, CredentialsAgree
  <2>9. creds'["login"] = creds["login"]
    BY <2>1, CliShapes
  <2>10. CredentialsAgree'
    BY <1>1, <2>3, <2>8, <2>9, CliShapes DEF SignupInv, CredentialsAgree
  <2> QED BY <2>4, <2>5, <2>6, <2>7, <2>10 DEF SignupInv
<1>3. CASE ~Issues("signup")
  <2>1. Leave(c) /\ creds' = creds
    BY <1>3 DEF IssueCredential
  <2>2. StateOnly
    BY <1>1, <2>1, SteadyState, SteadyFaults DEF accessVars, cliVars, signupVars
  <2> QED BY <2>1, <2>2, LeaveStep
<1> QED BY <1>2, <1>3

(* The answer with the credential reaches a command that still waits only  *)
(* while that credential lives: nothing is rotated before.                 *)
LEMMA IssueEnrollmentStep ==
  ASSUME SignupInv, NEW c \in Controllers, IssueEnrollment(c)
  PROVE  SignupInv'
<1>1. /\ UNCHANGED <<row, account, plc, inflight, passkeys, revoked, sessions, asked, faults>>
      /\ UNCHANGED <<vault, creds, login, rotation>> /\ Leave(c)
  BY DEF IssueEnrollment, accountVars
<1>2. row.channel = "cli" /\ creds["signup"] # "none"
  BY DEF IssueEnrollment, SignupInv, CallsAgree
<1>3. /\ file' \in FileRecord /\ file'.op = file.op /\ file'.at = file.at /\ held' \subseteq Tokens
      /\ waiting' \in Controllers \cup {None}
      /\ \/ UNCHANGED <<file, held, waiting>>
         \/ /\ file'.done = TRUE /\ "signup" \in held' /\ held \subseteq held' /\ waiting' = None /\ waiting # None
  <2>1. CASE waiting = c
    BY <2>1, CliShapes DEF IssueEnrollment, SaveCredential, FileRecord
  <2>2. CASE waiting # c
    BY <2>2, CliShapes DEF IssueEnrollment
  <2> QED BY <2>1, <2>2
<1>4. CallsAgree' /\ GenesisAgrees' /\ run' \in [Controllers -> RunRecord] /\ lock' \in Controllers \cup {None}
  BY <1>1, <1>3, EndedFrame
<1>5. cap' \in Caps
  BY AccessShapes DEF IssueEnrollment, Caps
<1>6. CliTypeOK'
  BY <1>1, <1>3, <1>4, <1>5 DEF SignupInv, CliTypeOK, TypeOK, Caps, RunRecord, FileRecord
<1>7. KeysAgree'
  <2>1. ~row.completed /\ \A k \in Keys : passkeys[k] = None
    BY <1>2 DEF SignupInv, ChannelAgrees
  <2>2. "setup" # None
    BY AccessShapes DEF Authorities
  <2> QED BY <1>1, <2>1, <2>2 DEF SignupInv, KeysAgree, KeepsAKey, LiveKeys, Live
<1>8. ChannelAgrees'
  BY <1>1, <1>3 DEF SignupInv, ChannelAgrees
<1>9. CredentialsAgree'
  <2>1. CASE UNCHANGED <<file, held, waiting>>
    BY <1>1, <2>1 DEF SignupInv, CredentialsAgree
  <2>2. CASE file'.done = TRUE /\ "signup" \in held' /\ held \subseteq held' /\ waiting' = None /\ waiting # None
    <3>1. creds["signup"] = "live"
      BY <1>2, <2>2, CliShapes DEF SignupInv, CredentialsAgree
    <3> QED BY <1>1, <1>3, <2>2, <3>1 DEF SignupInv, CredentialsAgree
  <2> QED BY <1>3, <2>1, <2>2
<1> QED BY <1>4, <1>6, <1>7, <1>8, <1>9 DEF SignupInv

-----------------------------------------------------------------------------
LEMMA SignupInit == CliInit => SignupInv
<1> SUFFICES ASSUME CliInit PROVE SignupInv
  OBVIOUS
<1>1. CliTypeOK
  BY SignupAssumption DEF CliInit, Init, CliTypeOK, TypeOK, States, Places, Idle, Tokens
<1>2. CallsAgree /\ GenesisAgrees
  BY IdleCall DEF CliInit, Init, CallsAgree, GenesisAgrees
<1>3. ChannelAgrees /\ KeysAgree
  BY DEF CliInit, Init, ChannelAgrees, KeysAgree, KeepsAKey
<1>4. CredentialsAgree
  BY DEF CliInit, CredentialsAgree, Tokens
<1> QED BY <1>1, <1>2, <1>3, <1>4 DEF SignupInv

LEMMA AccessStep ==
  ASSUME SignupInv, Access, UNCHANGED cliVars
  PROVE  SignupInv'
<1>1. \A k \in Authenticators : k \in Keys /\ row.channel = "browser"
  BY DEF Authenticators
<1>2. CASE Prove
  BY <1>2, CapabilityStep
<1>3. ASSUME NEW a \in {"setup", "owner"}, CapabilityExpires(a)
      PROVE  SignupInv'
  BY <1>3, CapabilityStep
<1>4. ASSUME NEW a \in {"setup", "owner"}, NEW k \in Authenticators, EnrollPasskey(a, k)
      PROVE  SignupInv'
  BY <1>1, <1>4, EnrollStep
<1>5. ASSUME NEW k \in Authenticators, SignIn(k) \/ SignOut(k) \/ Complete(k)
      PROVE  SignupInv'
  BY <1>1, <1>5, SessionStep, CompleteStep
<1>6. ASSUME NEW by \in Authenticators, NEW k \in Authenticators, AddKey(by, k) \/ AskRevoke(by, k) \/ Revoke(by, k)
      PROVE  SignupInv'
  BY <1>1, <1>6, AddKeyStep, SessionStep, RevokeStep
<1> QED BY <1>2, <1>3, <1>4, <1>5, <1>6 DEF Access

LEMMA SignupNext ==
  ASSUME SignupInv, CliNext
  PROVE  SignupInv'
<1>1. CASE Next /\ UNCHANGED cliVars
  <2>1. CASE Admit \/ Attach \/ Expire \/ \E op \in Operations : VerifyBackup(op)
    BY <1>1, <2>1, RowStep
  <2>2. CASE Reserve
    BY <1>1, <2>2, ReserveStep
  <2>3. ASSUME NEW op \in Operations, Land(op)
        PROVE  SignupInv'
    BY <1>1, <2>3, LandStep
  <2>4. ASSUME NEW c \in Controllers, Step(c)
        PROVE  SignupInv'
    BY <1>1, <2>4, ReadAccountStep, BindStep, SubmitStep, SendStep, SentStep, ConfirmStep, ActivationStep, IssueStep
       DEF Step
  <2>5. ASSUME NEW c \in Controllers, Advance(c) \/ Poll(c) \/ Disconnect(c)
        PROVE  SignupInv'
    BY <1>1, <2>5, AdvanceStep, PollStep, DisconnectStep
  <2>6. ASSUME NEW c \in Controllers, SentUnknown(c) \/ MonitorWaits(c) \/ Crash(c)
        PROVE  SignupInv'
    BY <1>1, <2>6, LeavingSteps
  <2>7. ASSUME NEW c \in Controllers, NEW op \in Operations, Store(c, op)
        PROVE  SignupInv'
    BY <1>1, <2>7, StoreStep
  <2>8. CASE Access
    BY <1>1, <2>8, AccessStep
  <2> QED BY <1>1, <2>1, <2>2, <2>3, <2>4, <2>5, <2>6, <2>7, <2>8 DEF Next
<1>2. CASE Create
  <2>1. CASE Prepare
    BY <2>1, RowStep, ReserveStep DEF Prepare
  <2>2. CASE CreateState \/ SavePreparation \/ BindVault \/ \E op \in Operations : SignGenesis(op)
    BY <2>2, FileStep
  <2>3. CASE Refused \/ StopWaiting
    BY <2>3, WaitingStep
  <2>4. ASSUME NEW c \in Controllers, Request(c) \/ IssueCredential(c) \/ IssueEnrollment(c)
        PROVE  SignupInv'
    BY <2>4, RequestStep, IssueCredentialStep, IssueEnrollmentStep
  <2> QED BY <1>2, <2>1, <2>2, <2>3, <2>4 DEF Create
<1>3. CASE Login
  BY <1>3, LoginStep
<1>4. CASE Rotate
  <2>1. ASSUME NEW o \in Outputs, RotateCreate(o) \/ RotateSave(o) \/ RotateRevoke(o)
        PROVE  SignupInv'
    BY <2>1, RotateStep DEF Tokens
  <2>2. ASSUME NEW o \in Outputs, NEW t \in Tokens, RotateStart(o, t)
        PROVE  SignupInv'
    BY <2>2, RotateStep
  <2> QED BY <1>4, <2>1, <2>2 DEF Rotate
<1> QED BY <1>1, <1>2, <1>3, <1>4 DEF CliNext

-----------------------------------------------------------------------------
\* In every reachable state the calls of advance and of account create, the
\* account, the directory, the capabilities and the credential files agree on one
\* operation and on who may still enroll (signup.ts, public.ts, account_create.rs).
THEOREM SignupAgrees == CliSpec => []SignupInv
<1>1. ASSUME SignupInv, UNCHANGED allVars
      PROVE  SignupInv'
  <2>1. /\ UNCHANGED <<row, account, plc, inflight, run, lock, cap, passkeys, revoked, sessions, asked, faults>>
        /\ UNCHANGED <<file, vault, waiting, creds, held, login, rotation>>
    BY <1>1 DEF allVars, vars, cliVars, signupVars
  <2>2. CliTypeOK' /\ CallsAgree' /\ GenesisAgrees' /\ ChannelAgrees'
    BY <1>1, <2>1, StillKept DEF SignupInv, CliTypeOK, TypeOK, ChannelAgrees
  <2>3. KeysAgree' /\ CredentialsAgree'
    BY <1>1, <2>1 DEF SignupInv, KeysAgree, KeepsAKey, LiveKeys, Live, CredentialsAgree
  <2> QED BY <2>2, <2>3 DEF SignupInv
<1>2. SignupInv /\ [CliNext]_allVars => SignupInv'
  BY <1>1, SignupNext
<1> QED BY <1>2, SignupInit, PTL DEF CliSpec

\* Type correctness of the ceremony, the account, the passkeys and the command
\* line's files (onboarding/repository.ts, accounts/passkeys.ts, apps/cli/src).
THEOREM SignupTypes == CliSpec => []CliTypeOK
<1>1. SignupInv => CliTypeOK
  BY DEF SignupInv
<1> QED BY <1>1, SignupAgrees, PTL

\* However many calls of advance or account create overlap, die, lose their
\* connection or bring another operation, the directory is sent one genesis, the
\* one the owner's side keeps and the account and its address are bound to
\* (signup.ts advance, public.ts register, account_create.rs).
THEOREM OneGenesisOnly == CliSpec => []OneGenesis
<1>1. SignupInv => OneGenesis
  <2> SUFFICES ASSUME SignupInv, NEW op \in plc \cup inflight
               PROVE  /\ account.did = op /\ account.binding = op
                      /\ IF row.channel = "browser" THEN row.op = op ELSE file.op = op /\ vault = op
    BY DEF OneGenesis
  <2>1. op # None /\ account.did = op
    BY SignupShapes, SignupAssumption DEF SignupInv, GenesisAgrees
  <2>2. account.binding = op
    BY <2>1 DEF SignupInv, GenesisAgrees
  <2>3. Keeps(account.binding)
    BY <2>1, <2>2 DEF SignupInv, GenesisAgrees
  <2> QED BY <2>1, <2>2, <2>3 DEF Keeps
<1> QED BY <1>1, SignupAgrees, PTL

\* However many passkeys are revoked at once and credentials rotated in chains or
\* from one source, a live passkey and a live credential file are left
\* (passkeys.ts revoke, credentials.rs rotate).
THEOREM OwnerKeepsAccess == CliSpec => []KeepsAccess
<1>1. SignupInv => KeepsAccess
  BY DEF SignupInv, KeysAgree, CredentialsAgree, KeepsAccess, Authenticates
<1> QED BY <1>1, SignupAgrees, PTL

(* Which steps change what.                                                *)
LEMMA WhoChanges ==
  ASSUME CliNext
  PROVE  /\ <<passkeys', revoked'>> # <<passkeys, revoked>> => Access
         /\ row' # row => \/ Admit \/ Attach \/ Expire \/ \E k \in Keys : Complete(k)
                          \/ \E op \in Operations : VerifyBackup(op)
                          \/ \E c \in Controllers : Advance(c) \/ \E op \in Operations : Store(c, op)
         /\ account' # account => Reserve \/ \E c \in Controllers : Step(c)
         /\ plc' # plc => \E op \in Operations : Land(op)
         /\ <<file', vault', creds'>> # <<file, vault, creds>> => Create \/ Login \/ Rotate
<1>1. CASE Create
  <2>1. /\ UNCHANGED <<passkeys, revoked, plc>> /\ (row' # row => Admit) /\ (account' # account => Reserve)
    BY <1>1 DEF Create, CreateState, Prepare, Admit, Reserve, SavePreparation, BindVault, Refused, StopWaiting,
                SignGenesis, Request, IssueCredential, IssueEnrollment, vars, accessVars, accountVars
  <2> QED BY <1>1, <2>1
<1>2. CASE Login \/ Rotate
  <2>1. UNCHANGED <<passkeys, revoked, plc, row, account>>
    BY <1>2 DEF Login, LoginStart, LoginPrepare, LoginSign, LoginComplete, LoginSave, LoginExpires,
                Rotate, RotateCreate, RotateSave, RotateRevoke, RotateStart, vars, accessVars, accountVars
  <2> QED BY <1>2, <2>1
<1>3. CASE Next /\ UNCHANGED cliVars
  <2>0. UNCHANGED <<file, vault, creds>>
    BY <1>3 DEF cliVars, signupVars
  <2>1. ASSUME NEW c \in Controllers, Step(c)
        PROVE  UNCHANGED <<passkeys, revoked, plc, row>>
    BY <2>1 DEF Step, ReadAccount, Bind, Submit, Send, Sent, Confirm, Stage, Monitored, EnterActivation,
                BeginActivation, Activate, ActivationFails, Issue, accessVars, accountVars
  <2>2. ASSUME NEW c \in Controllers, Poll(c) \/ SentUnknown(c) \/ MonitorWaits(c) \/ Crash(c) \/ Disconnect(c)
        PROVE  UNCHANGED <<passkeys, revoked, plc, row, account>>
    BY <2>2 DEF Poll, SentUnknown, MonitorWaits, Crash, Disconnect, accessVars, accountVars
  <2>3. ASSUME NEW c \in Controllers, Advance(c) \/ \E op \in Operations : Store(c, op)
        PROVE  UNCHANGED <<passkeys, revoked, plc, account>>
    BY <2>3 DEF Advance, Store, accessVars, accountVars
  <2>4. CASE Admit \/ Attach \/ Expire \/ \E op \in Operations : VerifyBackup(op)
    <3>1. UNCHANGED <<passkeys, revoked, plc, account>>
      BY <2>4 DEF Admit, Attach, Expire, VerifyBackup, accessVars, accountVars
    <3> QED BY <2>0, <2>4, <3>1
  <2>5. CASE Reserve
    BY <2>0, <2>5 DEF Reserve, accessVars
  <2>6. ASSUME NEW op \in Operations, Land(op)
        PROVE  UNCHANGED <<passkeys, revoked, row, account>>
    BY <2>6 DEF Land, accessVars
  <2>7. CASE Access
    <3>1. UNCHANGED <<plc, account>> /\ (row' # row => \E k \in Authenticators : Complete(k))
      BY <2>7 DEF Access, Prove, CapabilityExpires, EnrollPasskey, SignIn, SignOut, Complete, AddKey, AskRevoke,
                  Revoke, accountVars
    <3>2. Authenticators \subseteq Keys
      BY DEF Authenticators
    <3> QED BY <2>0, <2>7, <3>1, <3>2
  <2> QED BY <1>3, <2>0, <2>1, <2>2, <2>3, <2>4, <2>5, <2>6, <2>7 DEF Next
<1> QED BY <1>1, <1>2, <1>3 DEF CliNext

(* The ceremony keeps its operation and stays completed.                   *)
LEMMA RowStays ==
  ASSUME SignupInv, CliNext
  PROVE  /\ row'.channel = row.channel /\ (row.op # None => row'.op = row.op)
         /\ row.completed => row'.completed
<1>1. row \in RowRecord
  BY SignupShapes
<1>2. CASE row' = row
  BY <1>2
<1>3. CASE Admit \/ Attach \/ Expire
  BY <1>1, <1>3 DEF Admit, Attach, Expire, RowRecord
<1>4. ASSUME NEW k \in Keys, Complete(k)
      PROVE  /\ row'.channel = row.channel /\ (row.op # None => row'.op = row.op)
             /\ row.completed => row'.completed
  BY <1>1, <1>4 DEF Complete, RowRecord
<1>5. ASSUME NEW op \in Operations, VerifyBackup(op)
      PROVE  /\ row'.channel = row.channel /\ (row.op # None => row'.op = row.op)
             /\ row.completed => row'.completed
  BY <1>1, <1>5 DEF VerifyBackup, RowRecord
<1>6. ASSUME NEW c \in Controllers, Advance(c)
      PROVE  /\ row'.channel = row.channel /\ (row.op # None => row'.op = row.op)
             /\ row.completed => row'.completed
  BY <1>1, <1>6 DEF Advance, RowRecord
<1>7. ASSUME NEW c \in Controllers, NEW op \in Operations, Store(c, op)
      PROVE  /\ row'.channel = row.channel /\ (row.op # None => row'.op = row.op)
             /\ row.completed => row'.completed
  BY <1>1, <1>7 DEF Store, Accepts, RowRecord
<1> QED BY <1>2, <1>3, <1>4, <1>5, <1>6, <1>7, WhoChanges

(* What the vault is bound to stays in the state file.                     *)
LEMMA FileStays ==
  ASSUME SignupInv, CliNext
  PROVE  vault # None => vault' = vault /\ file'.op = file.op
<1>1. file \in FileRecord
  BY CliShapes
<1>2. CASE UNCHANGED <<file, vault>>
  BY <1>2
<1>3. CASE CreateState \/ SavePreparation
  BY <1>1, <1>3 DEF CreateState, SavePreparation, FileRecord
<1>4. CASE BindVault \/ \E op \in Operations : SignGenesis(op)
  BY <1>4 DEF BindVault, SignGenesis, Signs
<1>5. ASSUME NEW c \in Controllers, IssueEnrollment(c)
      PROVE  vault' = vault /\ file'.op = file.op
  BY <1>1, <1>5 DEF IssueEnrollment, SaveCredential, FileRecord
<1>6. CASE Prepare \/ Refused \/ StopWaiting \/ \E c \in Controllers : Request(c) \/ IssueCredential(c)
  BY <1>6 DEF Prepare, Refused, StopWaiting, Request, IssueCredential, cliVars, signupVars
<1>7. CASE Login \/ Rotate
  BY <1>7 DEF Login, LoginStart, LoginPrepare, LoginSign, LoginComplete, LoginSave, LoginExpires,
              Rotate, RotateCreate, RotateSave, RotateRevoke, RotateStart, signupVars
<1> QED BY <1>2, <1>3, <1>4, <1>5, <1>6, <1>7, WhoChanges DEF Create

(* No late call takes an active account back.                              *)
LEMMA ActiveStays ==
  ASSUME SignupInv, CliNext, account.state = "active"
  PROVE  account'.state = "active" /\ account'.did = account.did
<1>1. account \in AccountRecord
  BY SignupShapes
<1>2. CASE account' = account
  BY <1>2
<1>3. CASE Reserve
  BY <1>3 DEF Reserve
<1>4. ASSUME NEW c \in Controllers, Step(c)
      PROVE  account'.state = "active" /\ account'.did = account.did
  <2>1. CASE ReadAccount(c) \/ ActivationFails(c)
    BY <2>1 DEF ReadAccount, ActivationFails, Cancelled
  <2>2. CASE Bind(c)
    <3>1. PICK op : op = run[c].op
      OBVIOUS
    <3>2. PICK b : account' = [account EXCEPT !.binding = b]
      <4>1. Bound(op) = [account EXCEPT !.binding = Bound(op).binding]
        BY <1>1 DEF Bound, AccountRecord
      <4> QED BY <2>2, <3>1, <4>1 DEF Bind
    <3> QED BY <1>1, <3>2 DEF AccountRecord
  <2>3. CASE Submit(c) \/ Confirm(c) \/ Stage(c)
    BY <2>3 DEF Submit, Confirm, Stage, Moved
  <2>4. CASE BeginActivation(c) \/ Activate(c)
    BY <2>4 DEF BeginActivation, Activate, Commits
  <2>5. CASE Send(c) \/ Sent(c) \/ Monitored(c) \/ EnterActivation(c) \/ Issue(c)
    BY <2>5 DEF Send, Sent, Monitored, EnterActivation, Issue, accountVars
  <2> QED BY <1>4, <2>1, <2>2, <2>3, <2>4, <2>5 DEF Step
<1> QED BY <1>2, <1>3, <1>4, WhoChanges

(* A passkey keeps the authority that enrolled it, and stays revoked.      *)
LEMMA KeysStay ==
  ASSUME SignupInv, CliNext
  PROVE  revoked \subseteq revoked' /\ \A k \in Keys : passkeys[k] # None => passkeys'[k] = passkeys[k]
<1>1. CASE UNCHANGED <<passkeys, revoked>>
  BY <1>1
<1>2. CASE Access
  <2>1. ASSUME NEW a \in {"setup", "owner"}, NEW k \in Authenticators, EnrollPasskey(a, k)
        PROVE  revoked' = revoked /\ \A j \in Keys : passkeys[j] # None => passkeys'[j] = passkeys[j]
    BY <2>1, AccessShapes DEF EnrollPasskey, Challenged, Enrolls
  <2>2. ASSUME NEW by \in Authenticators, NEW k \in Authenticators, AddKey(by, k)
        PROVE  revoked' = revoked /\ \A j \in Keys : passkeys[j] # None => passkeys'[j] = passkeys[j]
    BY <2>2, AccessShapes DEF AddKey
  <2>3. ASSUME NEW by \in Authenticators, NEW k \in Authenticators, Revoke(by, k)
        PROVE  revoked \subseteq revoked' /\ passkeys' = passkeys
    BY <2>3 DEF Revoke
  <2>4. ASSUME NEW by \in Authenticators, NEW k \in Authenticators,
               SignIn(k) \/ SignOut(k) \/ Complete(k) \/ AskRevoke(by, k)
        PROVE  UNCHANGED <<passkeys, revoked>>
    BY <2>4 DEF SignIn, SignOut, Complete, AskRevoke
  <2>5. CASE Prove \/ \E a \in {"setup", "owner"} : CapabilityExpires(a)
    BY <2>5 DEF Prove, CapabilityExpires
  <2> QED BY <1>2, <2>1, <2>2, <2>3, <2>4, <2>5 DEF Access
<1> QED BY <1>1, <1>2, WhoChanges

(* No repeated command brings a revoked credential back.                   *)
LEMMA RevokedStay ==
  ASSUME SignupInv, CliNext, NEW t \in Tokens, creds[t] = "revoked"
  PROVE  creds'[t] = "revoked"
<1>1. creds \in [Tokens -> {"none", "live", "revoked"}] /\ Outputs \subseteq Tokens
  BY CliShapes
<1>2. CASE creds' = creds
  BY <1>2
<1>3. ASSUME NEW c \in Controllers, IssueCredential(c)
      PROVE  creds'[t] = "revoked"
  BY <1>1, <1>3 DEF IssueCredential, Issues
<1>4. CASE LoginComplete
  <2>1. creds["login"] = "none"
    BY <1>4, <1>1 DEF LoginComplete, SignupInv, CredentialsAgree
  <2> QED BY <1>1, <1>4, <2>1 DEF LoginComplete
<1>5. ASSUME NEW o \in Outputs, RotateCreate(o)
      PROVE  creds'[t] = "revoked"
  BY <1>1, <1>5 DEF RotateCreate
<1>6. ASSUME NEW o \in Outputs, RotateRevoke(o)
      PROVE  creds'[t] = "revoked"
  BY <1>1, <1>6 DEF RotateRevoke
<1>7. CASE Create
  <2>1. creds' = creds \/ \E c \in Controllers : IssueCredential(c)
    BY <1>7 DEF Create, CreateState, Prepare, SavePreparation, BindVault, Refused, StopWaiting, SignGenesis, Request,
                IssueEnrollment, cliVars
  <2> QED BY <1>2, <1>3, <2>1
<1>8. CASE Login
  <2>1. creds' = creds \/ LoginComplete
    BY <1>8 DEF Login, LoginStart, LoginPrepare, LoginSign, LoginSave, LoginExpires
  <2> QED BY <1>2, <1>4, <2>1
<1>9. CASE Rotate
  <2>1. creds' = creds \/ \E o \in Outputs : RotateCreate(o) \/ RotateRevoke(o)
    BY <1>9 DEF Rotate, RotateSave, RotateStart
  <2> QED BY <1>2, <1>5, <1>6, <2>1
<1> QED BY <1>2, <1>7, <1>8, <1>9, WhoChanges

(* What no step of a signup undoes.                                        *)
SignupGrows ==
    /\ \A op \in Operations : Keeps(op) => Keeps(op)'
    /\ account.state = "active" => account'.state = "active" /\ account'.did = account.did
    /\ plc \subseteq plc'
    /\ row.completed => row'.completed
    /\ revoked \subseteq revoked' /\ \A k \in Keys : passkeys[k] # None => passkeys'[k] = passkeys[k]
    /\ \A t \in Tokens : creds[t] = "revoked" => creds'[t] = "revoked"

\* No step undoes what a signup has reached: the operation the owner's side keeps
\* is never exchanged, no late call or abandoned attempt takes an active account
\* back, a completed ceremony stays completed, and neither a repeated command nor a
\* late request makes a revoked passkey or credential work again (signup.ts advance,
\* public.ts register, passkeys.ts, accounts/repository.ts issue, account_access.rs).
THEOREM SignupNeverUndone == CliSpec => [][SignupGrows]_allVars
<1>1. ASSUME SignupInv, CliNext
      PROVE  SignupGrows
  <2>1. \A op \in Operations : Keeps(op) => Keeps(op)'
    <3>1. None \notin Operations
      BY SignupAssumption
    <3> QED BY <1>1, <3>1, RowStays, FileStays DEF Keeps
  <2>2. plc \subseteq plc'
    BY <1>1, WhoChanges DEF Land
  <2> QED BY <1>1, <2>1, <2>2, ActiveStays, RowStays, KeysStay, RevokedStay DEF SignupGrows
<1>2. SignupInv /\ [CliNext]_allVars => [SignupGrows]_allVars
  BY <1>1
<1> QED BY <1>2, SignupAgrees, PTL DEF CliSpec

\* No step enrolls a passkey by the authority of setup after the owner completed
\* the ceremony, or a second one (signup.ts advance and complete, passkeys.ts
\* completeRegistration).
THEOREM SetupEnds == CliSpec => SetupAuthorityEnds
<1>1. ASSUME SignupInv, CliNext, NEW k \in Keys, passkeys[k] = None, passkeys'[k] = "setup"
      PROVE  ~row.completed /\ \A j \in Keys : passkeys[j] # "setup"
  <2>1. passkeys' # passkeys /\ "setup" # None
    BY <1>1, AccessShapes DEF Authorities
  <2>2. Access
    BY <1>1, <2>1, WhoChanges
  <2>3. CASE \E a \in {"setup", "owner"} : \E i \in Authenticators : EnrollPasskey(a, i)
    <3>1. PICK a \in {"setup", "owner"}, i \in Keys : EnrollPasskey(a, i)
      BY <2>3 DEF Authenticators
    <3>2. passkeys' = [passkeys EXCEPT ![i] = a] /\ cap[a] = "open"
      BY <3>1 DEF EnrollPasskey, Challenged, Enrolls
    <3>3. a = "setup"
      BY <1>1, <2>1, <3>2, AccessShapes
    <3> QED BY <1>1, <3>2, <3>3 DEF SignupInv, KeysAgree
  <2>4. CASE \E by, i \in Authenticators : AddKey(by, i)
    <3>1. PICK by \in Keys, i \in Keys : AddKey(by, i)
      BY <2>4 DEF Authenticators
    <3>2. passkeys' = [passkeys EXCEPT ![i] = "session"]
      BY <3>1 DEF AddKey
    <3> QED BY <1>1, <2>1, <3>2, AccessShapes
  <2>5. CASE ~(\E a \in {"setup", "owner"} : \E i \in Authenticators : EnrollPasskey(a, i))
             /\ ~(\E by, i \in Authenticators : AddKey(by, i))
    <3>1. passkeys' = passkeys
      BY <2>2, <2>5 DEF Access, Prove, CapabilityExpires, SignIn, SignOut, Complete, AskRevoke, Revoke
    <3> QED BY <2>1, <3>1
  <2> QED BY <2>3, <2>4, <2>5
<1>2. SignupInv /\ [CliNext]_allVars =>
        [\A k \in Keys : passkeys[k] = None /\ passkeys'[k] = "setup" =>
            ~row.completed /\ \A j \in Keys : passkeys[j] # "setup"]_vars
  BY <1>1 DEF allVars
<1> QED BY <1>2, SignupAgrees, PTL DEF CliSpec, SetupAuthorityEnds
=============================================================================
