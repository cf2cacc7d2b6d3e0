-------------------------- MODULE ConnectionProofs --------------------------
(***************************************************************************)
(* Proofs about Connections and ConnectionHistory for every set of         *)
(* requests and codes, every bound on epochs and faults.                   *)
(*                                                                         *)
(* The argument: every snapshot in a row, an answer or a request under way *)
(* is the empty one or that of one of the coordinator's events, and the    *)
(* events alternate between the beginning of a connection and its end.  A  *)
(* side that has consented to a request has learned every end before it,   *)
(* so that a side never lags behind by more than the last connection.      *)
(***************************************************************************)
EXTENDS ConnectionHistory, TLAPS

(* The epoch of the connection a reviewed state can lead to: the one that  *)
(* is active in it, or the next (connection-federation.ts activation).     *)
Target(snap) == IF snap.state = "active" THEN snap.epoch ELSE snap.epoch + 1

(* A snapshot the coordinator has signed: the empty one or that of one of  *)
(* its events.                                                             *)
Genuine(snap) ==
    snap = Empty \/ (snap.epoch \in 1 .. Len(history) /\ snap = EventSnapshot(snap.epoch))

(* The events alternate: a connection is named by the epoch it begins in   *)
(* and ended in the next; the request that began it has it as its result.  *)
Begins(e) ==
    /\ history[e].state = "active" /\ history[e].cid = e /\ e < MaxEpoch
    /\ history[e].request \in Requests /\ result[history[e].request] = e
    /\ e > 1 => history[e - 1].state = "disconnected"
Ends(e) ==
    /\ history[e].state = "disconnected" /\ e > 1 /\ history[e].cid = e - 1
    /\ history[e - 1].state = "active"
EventsStand == Len(history) <= MaxEpoch /\ \A e \in 1 .. Len(history) : Begins(e) \/ Ends(e)

(* Each side's pair is an event, the coordinator's the last one.           *)
PairsStand ==
    /\ pair["small"].epoch = Len(history)
    /\ \A s \in Sides : Genuine(pair[s])

(* A result is a connection both sides have consented to, and the one that *)
(* the reviewed state leads to.                                            *)
ResultsStand ==
    \A r \in Requests : result[r] # 0 =>
        /\ result[r] \in 1 .. Len(history) /\ history[result[r]].state = "active"
        /\ \A s \in Sides : attempt[s][r].at \in Retained /\ Target(attempt[s][r].snap) = result[r]

OutboxStands ==
    \A job \in outbox :
        /\ job.epoch \in 1 .. Len(history)
        /\ job.request # None => result[job.request] = job.epoch
        /\ job.request = None => history[job.epoch].state = "disconnected"

(* What the two copies of a consent have to do with each other and with    *)
(* the pair of their side, which never lags more than one connection       *)
(* behind the reviewed state.                                              *)
AttemptStands(s, r) ==
    LET a == attempt[s][r]
        b == attempt[Other(s)][r]
    IN /\ a.code \in Codes /\ Genuine(a.snap)
       /\ a.snap.state # "active" => a.snap.epoch + 2 <= MaxEpoch
       /\ Target(a.snap) <= pair[s].epoch + 1
       /\ inviter[a.code] = s => a.at \in Retained /\ a.at # "pending"
       /\ (inviter[a.code] = s \/ a.admission) => b.at # "none"
       /\ b.at # "none" => b.snap = a.snap /\ b.code = a.code
       /\ a.at = "active" => a.admission /\ a.cid = Target(a.snap)
AttemptsStand == \A s \in Sides, r \in Requests : attempt[s][r].at # "none" => AttemptStands(s, r)

(* A tombstone is for a connection that has ended or whose end is queued;  *)
(* a side has one for every end up to its epoch.                           *)
TombsAt(s) ==
    /\ \A c \in tomb[s] : c \in 1 .. pair[s].epoch /\ (c \in leaving[s] \/ Ended(c) # {})
    /\ \A c \in leaving[s] : c \in 1 .. Len(history) /\ history[c].state = "active"
    /\ \A e \in 1 .. pair[s].epoch : history[e].state = "disconnected" => history[e].cid \in tomb[s]
    /\ pair[s].state = "active" /\ pair[s].cid \in tomb[s] => pair[s].cid \in leaving[s]
TombsStand == \A s \in Sides : TombsAt(s)

(* A consent older than the side's last cutoff cannot bring a connection   *)
(* any more: the side has left one that is no earlier.                     *)
Outdated(s, r) == IF inviter[attempt[s][r].code] = s THEN attempt[s][r].code \in stale[s] ELSE r \in stale[s]
StaleStands ==
    \A s \in Sides, r \in Requests :
        /\ r \in stale[s] => attempt[s][r].at # "none"
        /\ attempt[s][r].at # "none" /\ Outdated(s, r) => \E c \in tomb[s] : c >= Target(attempt[s][r].snap)

(* Requests under way. *)
AdmitStands(m) ==
    /\ m.request \in Requests
    /\ attempt[m.from][m.request].at \in Retained
    /\ attempt[m.from][m.request].snap = m.snap
    /\ inviter[attempt[m.from][m.request].code] = Other(m.from)
    /\ m.step = "learned" => Target(m.snap) <= pair[Other(m.from)].epoch + 1
    /\ m.step = "commit" => attempt[m.from][m.request].admission
SyncStands(m) ==
    /\ m.from = "small" /\ m.snap # Empty
    /\ m.snap.state = "active" => m.request \in Requests /\ result[m.request] = m.snap.epoch
CheckedStands(m) ==
    /\ m.current # None => Genuine(m.current) /\ m.current.epoch >= m.snap.epoch /\ m.snap.state = "active"
    /\ m.snap.state = "active" /\ m.current = None => m.snap.cid \in tomb["large"] \/ pair["large"].epoch >= m.snap.epoch
MessageStands(m) ==
    /\ Genuine(m.snap)
    /\ m.step \in {"admit", "learned", "commit"} => AdmitStands(m)
    /\ m.step = "disconnect" => m.snap.state = "active"
    /\ m.step \in {"sync", "checked"} => SyncStands(m)
    /\ m.step = "checked" => CheckedStands(m)
WireStands == \A m \in wire : MessageStands(m)

(* What a worker waits for and the answer it has. *)
Acked(snap) ==
    \/ pair["large"].epoch >= snap.epoch
    \/ snap.state = "active" /\ (snap.cid \in tomb["large"] \/ snap.epoch < Len(history))
AnswerStands(s) ==
    LET w == worker[s]
    IN /\ w.answer = "admission" => w.msg.step = "admit" /\ attempt[Other(s)][w.msg.request].at # "none"
       /\ w.answer = "result" => w.msg.step \in {"commit", "disconnect"}
       /\ w.answer = "result" /\ w.msg.step = "commit" =>
            result[w.msg.request] # 0 /\ w.snap = EventSnapshot(result[w.msg.request]) /\ Genuine(w.current)
       /\ w.answer = "result" /\ w.msg.step = "disconnect" => Genuine(w.snap) /\ w.snap.state = "disconnected"
       /\ w.answer = "ack" => w.msg.step = "sync" /\ Acked(w.msg.snap)
JobStands(s) ==
    /\ worker[s].msg.step # "sync" => worker[s].job = None
    /\ worker[s].msg.step = "sync" =>
        /\ s = "small" /\ worker[s].job \in outbox
        /\ worker[s].job.epoch <= worker[s].msg.snap.epoch
        /\ worker[s].job.request # None => worker[s].job.epoch = worker[s].msg.snap.epoch
        /\ worker[s].msg.snap.state = "active" /\ worker[s].job.request = None =>
             worker[s].job.epoch < worker[s].msg.snap.epoch
WorkerAt(s) ==
    \/ worker[s] = Idle
    \/ /\ worker[s].msg # None
       /\ worker[s].msg.from = s
       /\ worker[s].msg.step \notin {"learned", "checked"}
       /\ MessageStands(worker[s].msg) /\ AnswerStands(s) /\ JobStands(s)
WorkerStands == \A s \in Sides : WorkerAt(s)

(* Every event that the other side has not adopted is still queued for it. *)
Replicates ==
    \A e \in 1 .. Len(history) :
        [epoch |-> e, request |-> history[e].request] \in outbox \/ Acked(EventSnapshot(e))

Core ==
    /\ EventsStand /\ PairsStand /\ ResultsStand /\ OutboxStands /\ AttemptsStand
    /\ TombsStand /\ StaleStands /\ Replicates

IInv == TypeOK /\ Core /\ WireStands /\ WorkerStands

(* What no step undoes: events, results, tombstones and consents are kept, *)
(* and no pair goes back.                                                  *)
CellGrows(s, r) ==
    attempt[s][r].at # "none" =>
        /\ attempt'[s][r].at # "none"
        /\ attempt'[s][r].snap = attempt[s][r].snap
        /\ attempt'[s][r].code = attempt[s][r].code
        /\ attempt[s][r].at \in Retained => attempt'[s][r].at \in Retained
        /\ attempt[s][r].admission => attempt'[s][r].admission
Grows ==
    /\ Len(history') >= Len(history)
    /\ \A e \in 1 .. Len(history) : history'[e] = history[e]
    /\ \A s \in Sides : pair'[s].epoch >= pair[s].epoch /\ tomb[s] \subseteq tomb'[s]
    /\ \A r \in Requests : result[r] # 0 => result'[r] = result[r]
    /\ \A s \in Sides, r \in Requests : CellGrows(s, r)
    /\ inviter' = inviter

-----------------------------------------------------------------------------
LEMMA SideFacts ==
    /\ \A s \in Sides : Other(s) \in Sides /\ Other(s) # s /\ Other(Other(s)) = s
    /\ "small" \in Sides /\ "large" \in Sides /\ Other("small") = "large" /\ Other("large") = "small"
    /\ \A s \in Sides : s = "small" \/ s = "large"
<1>1. Sides = {"small", "large"}
  BY DEF Sides
<1>2. Other("small") = "large" /\ Other("large") = "small"
  BY DEF Other
<1>3. \A s \in Sides : s = "small" \/ s = "large"
  BY <1>1
<1>4. ASSUME NEW s \in Sides
      PROVE  Other(s) \in Sides /\ Other(s) # s /\ Other(Other(s)) = s
  <2>1. CASE s = "small"
    BY <1>1, <1>2, <2>1
  <2>2. CASE s = "large"
    BY <1>1, <1>2, <2>2
  <2> QED BY <1>3, <2>1, <2>2
<1>5. "small" \in Sides /\ "large" \in Sides
  BY <1>1
<1> QED BY <1>2, <1>3, <1>4, <1>5

(* The shape of the variables, one fact for each use.                      *)
LEMMA Shapes ==
  ASSUME TypeOK
  PROVE  /\ Len(history) \in Nat /\ DOMAIN history = 1 .. Len(history)
         /\ \A e \in 1 .. Len(history) : /\ history[e].state \in {"active", "disconnected"}
                                         /\ history[e].cid \in Nat /\ history[e].request \in Requests \cup {None}
         /\ \A r \in Requests : result[r] \in Nat
         /\ \A s \in Sides : /\ pair[s] \in Snapshot
                             /\ \A c \in tomb[s] : c \in Nat
                             /\ \A c \in leaving[s] : c \in Nat
         /\ \A s \in Sides, r \in Requests : attempt[s][r] \in Attempt
         /\ MaxEpoch \in Nat
<1> DEFINE Event == [state: {"active", "disconnected"}, cid: Epochs, request: Requests \cup {None}]
<1>1. history \in Seq(Event)
  BY DEF TypeOK
<1> HIDE DEF Event
<1>2. Len(history) \in Nat /\ DOMAIN history = 1 .. Len(history)
  BY <1>1
<1>3. ASSUME NEW e \in 1 .. Len(history)
      PROVE  /\ history[e].state \in {"active", "disconnected"}
             /\ history[e].cid \in Nat /\ history[e].request \in Requests \cup {None}
  <2>1. history[e] \in Event
    BY <1>1, <1>2
  <2> QED BY <2>1, BoundAssumption DEF Epochs, Event
<1>4. \A r \in Requests : result[r] \in Nat
  BY BoundAssumption DEF TypeOK, Epochs
<1>5. \A s \in Sides : pair[s] \in Snapshot
  BY DEF TypeOK
<1>6. \A s \in Sides : (\A c \in tomb[s] : c \in Nat) /\ (\A c \in leaving[s] : c \in Nat)
  BY BoundAssumption DEF TypeOK, Epochs
<1>7. \A s \in Sides, r \in Requests : attempt[s][r] \in Attempt
  BY DEF TypeOK
<1> QED BY <1>2, <1>3, <1>4, <1>5, <1>6, <1>7, BoundAssumption

(* The same after a step.                                                  *)
LEMMA NextShapes ==
  ASSUME TypeOK'
  PROVE  /\ Len(history') \in Nat /\ DOMAIN history' = 1 .. Len(history')
         /\ \A e \in 1 .. Len(history') : /\ history'[e].state \in {"active", "disconnected"}
                                         /\ history'[e].cid \in Nat /\ history'[e].request \in Requests \cup {None}
         /\ \A r \in Requests : result'[r] \in Nat
         /\ \A s \in Sides : /\ pair'[s] \in Snapshot
                             /\ \A c \in tomb'[s] : c \in Nat
                             /\ \A c \in leaving'[s] : c \in Nat
         /\ \A s \in Sides, r \in Requests : attempt'[s][r] \in Attempt
         /\ MaxEpoch \in Nat
<1> DEFINE Event == [state: {"active", "disconnected"}, cid: Epochs, request: Requests \cup {None}]
<1>1. history' \in Seq(Event)
  BY DEF TypeOK
<1> HIDE DEF Event
<1>2. Len(history') \in Nat /\ DOMAIN history' = 1 .. Len(history')
  BY <1>1
<1>3. ASSUME NEW e \in 1 .. Len(history')
      PROVE  /\ history'[e].state \in {"active", "disconnected"}
             /\ history'[e].cid \in Nat /\ history'[e].request \in Requests \cup {None}
  <2>1. history'[e] \in Event
    BY <1>1, <1>2
  <2> QED BY <2>1, BoundAssumption DEF Epochs, Event
<1>4. \A r \in Requests : result'[r] \in Nat
  BY BoundAssumption DEF TypeOK, Epochs
<1>5. \A s \in Sides : pair'[s] \in Snapshot
  BY DEF TypeOK
<1>6. \A s \in Sides : (\A c \in tomb'[s] : c \in Nat) /\ (\A c \in leaving'[s] : c \in Nat)
  BY BoundAssumption DEF TypeOK, Epochs
<1>7. \A s \in Sides, r \in Requests : attempt'[s][r] \in Attempt
  BY DEF TypeOK
<1> QED BY <1>2, <1>3, <1>4, <1>5, <1>6, <1>7, BoundAssumption

LEMMA SnapshotFacts ==
  ASSUME NEW x \in Snapshot
  PROVE  /\ x.epoch \in Nat /\ x.cid \in Nat /\ x.state \in {"empty", "active", "disconnected"}
         /\ x.epoch <= MaxEpoch /\ x.cid <= MaxEpoch
         /\ x = [epoch |-> x.epoch, state |-> x.state, cid |-> x.cid]
         /\ Target(x) \in Nat
  BY BoundAssumption DEF Snapshot, Epochs, Target

LEMMA GenuineGrows ==
  ASSUME TypeOK, TypeOK', Grows, NEW x \in Snapshot, Genuine(x)
  PROVE  Genuine(x)'
<1>1. CASE x = Empty
  BY <1>1 DEF Genuine, Empty
<1>2. CASE x # Empty
  <2>1. x.epoch \in 1 .. Len(history) /\ x = EventSnapshot(x.epoch)
    BY <1>2 DEF Genuine
  <2>2. x.epoch \in 1 .. Len(history')
    BY <2>1, Shapes, NextShapes DEF Grows
  <2>3. EventSnapshot(x.epoch)' = EventSnapshot(x.epoch)
    BY <2>1 DEF EventSnapshot, Grows
  <2> QED BY <2>1, <2>2, <2>3 DEF Genuine
<1> QED BY <1>1, <1>2

LEMMA MessageFacts ==
  ASSUME NEW m \in Message
  PROVE  /\ m.step \in {"admit", "learned", "commit", "disconnect", "sync", "checked"}
         /\ m.from \in Sides /\ m.request \in Requests \cup {None}
         /\ m.snap \in Snapshot /\ m.current \in Snapshot \cup {None}
         /\ m # None
  BY NoneAssumption DEF Message

(* A request stays in order whatever other steps are taken.                *)
LEMMA MessageGrows ==
  ASSUME TypeOK, TypeOK', Grows, NEW m \in Message, MessageStands(m)
  PROVE  MessageStands(m)'
<1> DEFINE s == m.from
           r == m.request
<1>0. /\ s \in Sides /\ Other(s) \in Sides /\ m.snap \in Snapshot /\ m.current \in Snapshot \cup {None}
      /\ Target(m.snap) \in Nat
  BY MessageFacts, SideFacts, SnapshotFacts
<1>1. Genuine(m.snap)'
  BY <1>0, GenuineGrows DEF MessageStands
<1>2. ASSUME m.step \in {"admit", "learned", "commit"}
      PROVE  AdmitStands(m)'
  <2>1. AdmitStands(m)
    BY <1>2 DEF MessageStands
  <2>2. r \in Requests /\ attempt[s][r].at \in Retained /\ attempt[s][r].at # "none"
    BY <2>1 DEF AdmitStands, Retained
  <2>3. CellGrows(s, r)
    BY <1>0, <2>2 DEF Grows
  <2>4. /\ attempt'[s][r].at \in Retained /\ attempt'[s][r].snap = m.snap
        /\ attempt'[s][r].code = attempt[s][r].code
    BY <2>1, <2>2, <2>3 DEF CellGrows, AdmitStands
  <2>5. inviter'[attempt'[s][r].code] = Other(s)
    BY <2>1, <2>4 DEF AdmitStands, Grows
  <2>6. m.step = "learned" => Target(m.snap) <= pair'[Other(s)].epoch + 1
    <3>1. pair[Other(s)].epoch \in Nat /\ pair'[Other(s)].epoch \in Nat
      BY <1>0, SnapshotFacts, Shapes, NextShapes
    <3>2. pair'[Other(s)].epoch >= pair[Other(s)].epoch
      BY <1>0 DEF Grows
    <3> QED BY <1>0, <2>1, <3>1, <3>2 DEF AdmitStands
  <2>7. m.step = "commit" => attempt'[s][r].admission
    BY <2>1, <2>2, <2>3 DEF AdmitStands, CellGrows
  <2> QED BY <2>2, <2>4, <2>5, <2>6, <2>7 DEF AdmitStands
<1>3. ASSUME m.step \in {"sync", "checked"}
      PROVE  SyncStands(m)'
  <2>1. SyncStands(m)
    BY <1>3 DEF MessageStands
  <2>2. ASSUME m.snap.state = "active"
        PROVE  r \in Requests /\ result'[r] = m.snap.epoch
    <3>1. r \in Requests /\ result[r] = m.snap.epoch
      BY <2>1, <2>2 DEF SyncStands
    <3>2. m.snap.epoch # 0
      BY <1>0, <2>1, <2>2, Shapes DEF MessageStands, Genuine, Empty, SyncStands
    <3> QED BY <3>1, <3>2 DEF Grows
  <2> QED BY <2>1, <2>2 DEF SyncStands
<1>4. ASSUME m.step = "checked"
      PROVE  CheckedStands(m)'
  <2>1. CheckedStands(m)
    BY <1>4 DEF MessageStands
  <2>2. m.current # None => Genuine(m.current)'
    BY <1>0, <2>1, GenuineGrows DEF CheckedStands
  <2>3. pair["large"].epoch >= m.snap.epoch => pair'["large"].epoch >= m.snap.epoch
    <3>1. pair["large"].epoch \in Nat /\ pair'["large"].epoch \in Nat /\ m.snap.epoch \in Nat
      BY <1>0, SideFacts, SnapshotFacts, Shapes, NextShapes
    <3>2. pair'["large"].epoch >= pair["large"].epoch
      BY SideFacts DEF Grows
    <3> QED BY <3>1, <3>2
  <2>4. m.snap.cid \in tomb["large"] => m.snap.cid \in tomb'["large"]
    BY SideFacts DEF Grows
  <2> QED BY <2>1, <2>2, <2>3, <2>4 DEF CheckedStands
<1> QED BY <1>1, <1>2, <1>3, <1>4 DEF MessageStands

LEMMA WorkerFacts ==
  ASSUME TypeOK, NEW s \in Sides
  PROVE  /\ worker[s].msg \in Message \cup {None} /\ worker[s].answer \in Answers
         /\ worker[s].snap \in Snapshot /\ worker[s].current \in Snapshot
         /\ worker[s].job \in outbox \cup {None}
         /\ worker[s] = [msg |-> worker[s].msg, job |-> worker[s].job, answer |-> worker[s].answer,
                         snap |-> worker[s].snap, current |-> worker[s].current]
<1> DEFINE W == [msg: Message \cup {None}, job: outbox \cup {None}, answer: Answers,
                 snap: Snapshot, current: Snapshot]
<1>1. worker \in [Sides -> W]
  BY DEF TypeOK
<1> HIDE DEF W
<1>2. worker[s] \in W
  BY <1>1
<1> QED BY <1>2 DEF W

LEMMA AckedGrows ==
  ASSUME TypeOK, TypeOK', Grows, NEW x \in Snapshot, Acked(x)
  PROVE  Acked(x)'
<1>1. /\ pair["large"].epoch \in Nat /\ pair'["large"].epoch \in Nat /\ x.epoch \in Nat
      /\ Len(history) \in Nat /\ Len(history') \in Nat
  BY SideFacts, SnapshotFacts, Shapes, NextShapes
<1>2. pair'["large"].epoch >= pair["large"].epoch /\ tomb["large"] \subseteq tomb'["large"]
  BY SideFacts DEF Grows
<1>3. Len(history') >= Len(history)
  BY DEF Grows
<1> QED BY <1>1, <1>2, <1>3 DEF Acked

(* So does what a worker waits for.                                        *)
LEMMA WorkerGrows ==
  ASSUME TypeOK, TypeOK', ResultsStand, Grows, NEW s \in Sides, WorkerAt(s), worker'[s] = worker[s],
         outbox \subseteq outbox' \/ s = "large"
  PROVE  WorkerAt(s)'
<1>1. CASE worker[s] = Idle
  BY <1>1 DEF WorkerAt, Idle, Empty
<1>2. CASE worker[s] # Idle
  <2> DEFINE w == worker[s]
             r == w.msg.request
  <2>0. w.msg \in Message /\ w.snap \in Snapshot /\ w.current \in Snapshot /\ Other(s) \in Sides
    BY <1>2, WorkerFacts, SideFacts DEF WorkerAt
  <2>1. MessageStands(w.msg) /\ AnswerStands(s) /\ JobStands(s) /\ w.msg.from = s
    BY <1>2 DEF WorkerAt
  <2>2. MessageStands(worker[s].msg)'
    <3>1. PICK m \in Message : m = worker[s].msg
      BY <2>0
    <3>2. MessageStands(m)'
      BY <2>1, <3>1, MessageGrows
    <3> QED BY <3>1, <3>2
  <2>3. AnswerStands(s)'
    <3>1. w.answer = "admission" => attempt'[Other(s)][r].at # "none"
      <4> SUFFICES ASSUME w.answer = "admission"
                   PROVE  attempt'[Other(s)][r].at # "none"
        OBVIOUS
      <4>1. r \in Requests /\ attempt[Other(s)][r].at # "none"
        BY <2>1 DEF AnswerStands, MessageStands, AdmitStands
      <4>2. CellGrows(Other(s), r)
        BY <2>0, <4>1 DEF Grows
      <4> QED BY <4>1, <4>2 DEF CellGrows
    <3>2. ASSUME w.answer = "result", w.msg.step = "commit"
          PROVE  result'[r] # 0 /\ w.snap = EventSnapshot(result[r])' /\ Genuine(w.current)'
      <4>1. r \in Requests /\ result[r] # 0 /\ w.snap = EventSnapshot(result[r]) /\ Genuine(w.current)
        BY <2>1, <3>2 DEF AnswerStands, MessageStands, AdmitStands
      <4>2. result[r] \in 1 .. Len(history) /\ result'[r] = result[r]
        BY <4>1 DEF ResultsStand, Grows
      <4>3. EventSnapshot(result[r])' = EventSnapshot(result[r])
        BY <4>2 DEF EventSnapshot, Grows
      <4>4. PICK x \in Snapshot : x = w.current
        BY <2>0
      <4>5. Genuine(x)'
        BY <4>1, <4>4, GenuineGrows
      <4>6. Genuine(worker[s].current)'
        BY <4>4, <4>5
      <4> QED BY <4>1, <4>2, <4>3, <4>6 DEF Genuine
    <3>3. ASSUME w.answer = "result", w.msg.step = "disconnect"
          PROVE  Genuine(worker[s].snap)' /\ w.snap.state = "disconnected"
      <4>1. Genuine(w.snap) /\ w.snap.state = "disconnected"
        BY <2>1, <3>3 DEF AnswerStands
      <4>2. PICK x \in Snapshot : x = w.snap
        BY <2>0
      <4>3. Genuine(x)'
        BY <4>1, <4>2, GenuineGrows
      <4> QED BY <4>1, <4>2, <4>3
    <3>4. ASSUME w.answer = "ack"
          PROVE  w.msg.step = "sync" /\ Acked(worker[s].msg.snap)'
      <4>1. w.msg.step = "sync" /\ Acked(w.msg.snap)
        BY <2>1, <3>4 DEF AnswerStands
      <4>2. PICK x \in Snapshot : x = w.msg.snap
        BY <2>0, MessageFacts
      <4>3. Acked(x)'
        BY <4>1, <4>2, AckedGrows
      <4> QED BY <4>1, <4>2, <4>3
    <3>5. /\ w.answer = "admission" => w.msg.step = "admit"
          /\ w.answer = "result" => w.msg.step \in {"commit", "disconnect"}
      BY <2>1 DEF AnswerStands
    <3> QED BY <3>1, <3>2, <3>3, <3>4, <3>5 DEF AnswerStands
  <2>4. JobStands(s)'
    BY <2>1 DEF JobStands
  <2>5. w.msg # None /\ w.msg.step \notin {"learned", "checked"}
    BY <1>2 DEF WorkerAt
  <2> QED BY <2>1, <2>2, <2>3, <2>4, <2>5 DEF WorkerAt
<1> QED BY <1>1, <1>2

LEMMA WireGrows ==
  ASSUME TypeOK, TypeOK', Grows, WireStands, NEW n \in Message, MessageStands(n)', wire' \subseteq wire \cup {n}
  PROVE  WireStands'
<1>1. ASSUME NEW m \in wire'
      PROVE  MessageStands(m)'
  <2>1. CASE m \in wire
    <3>1. m \in Message /\ MessageStands(m)
      BY <2>1 DEF TypeOK, WireStands
    <3> QED BY <3>1, MessageGrows
  <2>2. CASE m = n
    BY <2>2
  <2> QED BY <2>1, <2>2
<1> QED BY <1>1 DEF WireStands

LEMMA WireKept ==
  ASSUME TypeOK, TypeOK', Grows, WireStands, wire' \subseteq wire
  PROVE  WireStands'
<1>1. ASSUME NEW m \in wire'
      PROVE  MessageStands(m)'
  <2>1. m \in Message /\ MessageStands(m)
    BY DEF TypeOK, WireStands
  <2> QED BY <2>1, MessageGrows
<1> QED BY <1>1 DEF WireStands

coreVars == <<history, result, outbox, pair, tomb, stale, attempt, leaving, inviter>>

LEMMA CoreFrame ==
  ASSUME Core, UNCHANGED coreVars
  PROVE  Core'
<1>1. EventsStand' /\ PairsStand' /\ OutboxStands'
  BY DEF Core, coreVars, EventsStand, Begins, Ends, PairsStand, Genuine, EventSnapshot, Empty, OutboxStands
<1>2. ResultsStand'
  BY SMTT(30) DEF Core, coreVars, ResultsStand, Target, Retained
<1>3. AttemptsStand'
  BY DEF Core, coreVars, AttemptsStand, AttemptStands, Genuine, EventSnapshot, Empty, Target, Retained
<1>4. TombsStand'
  BY DEF Core, coreVars, TombsStand, TombsAt, Ended
<1>5. StaleStands'
  BY DEF Core, coreVars, StaleStands, Outdated, Target
<1>6. Replicates'
  BY DEF Core, coreVars, Replicates, Acked, EventSnapshot
<1> QED BY <1>1, <1>2, <1>3, <1>4, <1>5, <1>6 DEF Core

LEMMA GrowsFrame ==
  ASSUME TypeOK, UNCHANGED <<history, result, pair, tomb, attempt, inviter>>
  PROVE  Grows
<1>1. \A s \in Sides : pair[s].epoch \in Nat
  BY Shapes, SnapshotFacts
<1>2. Len(history) \in Nat
  BY Shapes
<1> QED BY <1>1, <1>2 DEF Grows, CellGrows

(* What follows a reviewed state begins a connection, if it has come.      *)
LEMMA TargetFacts ==
  ASSUME TypeOK, EventsStand, NEW x \in Snapshot, Genuine(x)
  PROVE  /\ Target(x) \in 1 .. Len(history) + 1
         /\ Target(x) <= Len(history) => history[Target(x)].state = "active"
<1>0. Len(history) \in Nat /\ x.epoch \in Nat
  BY Shapes, SnapshotFacts
<1>1. CASE x = Empty
  <2>1. Target(x) = 1
    BY <1>1 DEF Target, Empty
  <2>2. 1 <= Len(history) => history[1].state = "active"
    BY <1>0 DEF EventsStand, Begins, Ends
  <2> QED BY <1>0, <2>1, <2>2
<1>2. CASE x # Empty
  <2>1. x.epoch \in 1 .. Len(history) /\ x.state = history[x.epoch].state
    BY <1>2 DEF Genuine, EventSnapshot
  <2>2. CASE x.state = "active"
    <3>1. Target(x) = x.epoch
      BY <2>2 DEF Target
    <3>2. x.epoch \in 1 .. Len(history) + 1
      BY <1>0, <2>1
    <3>3. history[x.epoch].state = "active"
      BY <2>1, <2>2
    <3> QED BY <3>1, <3>2, <3>3
  <2>3. CASE x.state # "active"
    <3>1. Target(x) = x.epoch + 1
      BY <2>3 DEF Target
    <3>2. ASSUME x.epoch + 1 <= Len(history)
          PROVE  history[x.epoch + 1].state = "active"
      <4>1. x.epoch + 1 \in 1 .. Len(history) /\ x.epoch + 1 - 1 = x.epoch
        BY <1>0, <3>2
      <4>2. Begins(x.epoch + 1) \/ Ends(x.epoch + 1)
        BY <4>1 DEF EventsStand
      <4>3. ~Ends(x.epoch + 1)
        BY <2>1, <2>3, <4>1 DEF Ends
      <4> QED BY <4>2, <4>3 DEF Begins
    <3> QED BY <1>0, <2>1, <3>1, <3>2
  <2> QED BY <2>2, <2>3
<1> QED BY <1>1, <1>2

(* A side has learned every end before a connection it is part of.         *)
LEMMA Behind ==
  ASSUME TypeOK, Core, NEW s \in Sides, NEW e \in 1 .. Len(history), history[e].state = "active"
  PROVE  e <= pair[s].epoch + 1
<1>1. PICK r \in Requests : r = history[e].request /\ result[r] = e
  BY DEF Core, EventsStand, Begins, Ends
<1>2. e \in Nat /\ e # 0
  BY Shapes
<1>3. attempt[s][r].at \in Retained /\ Target(attempt[s][r].snap) = e
  BY <1>1, <1>2 DEF Core, ResultsStand
<1>4. attempt[s][r].at # "none"
  BY <1>3 DEF Retained
<1>5. AttemptStands(s, r)
  BY <1>4 DEF Core, AttemptsStand
<1> QED BY <1>3, <1>5 DEF AttemptStands

LEMMA ApplyFacts ==
  ASSUME TypeOK, NEW s \in Sides, NEW x \in Snapshot, Apply(s, x)
  PROVE  /\ \A t \in Sides : t # s => pair'[t] = pair[t] /\ tomb'[t] = tomb[t] /\ stale'[t] = stale[t]
         /\ tomb'[s] = Buried(s, x)
         /\ Adopts(s, x) => pair'[s] = x
         /\ ~Adopts(s, x) => pair'[s] = pair[s]
         /\ Buried(s, x) # tomb[s] /\ x.epoch >= pair[s].epoch => stale'[s] = stale[s] \cup Dated(s)
         /\ ~(Buried(s, x) # tomb[s] /\ x.epoch >= pair[s].epoch) => stale'[s] = stale[s]
<1>1. pair = [t \in Sides |-> pair[t]] /\ tomb = [t \in Sides |-> tomb[t]] /\ stale = [t \in Sides |-> stale[t]]
  BY DEF TypeOK
<1>2. tomb' = [tomb EXCEPT ![s] = Buried(s, x)]
  BY DEF Apply
<1>3. pair' = [pair EXCEPT ![s] = IF Adopts(s, x) THEN x ELSE pair[s]]
  BY DEF Apply
<1>4. stale' = [stale EXCEPT ![s] =
         IF Buried(s, x) # tomb[s] /\ x.epoch >= pair[s].epoch THEN stale[s] \cup Dated(s) ELSE stale[s]]
  BY DEF Apply
<1> QED BY <1>1, <1>2, <1>3, <1>4

(* What a side's rows are after it applied a snapshot of the coordinator.  *)
LEMMA ApplyStands ==
  ASSUME TypeOK, Core, NEW s \in Sides, NEW x \in Snapshot, Genuine(x), Apply(s, x)
  PROVE  /\ pair'[s] \in Snapshot /\ Genuine(pair'[s])
         /\ pair'[s].epoch >= pair[s].epoch /\ tomb[s] \subseteq tomb'[s]
         /\ \A c \in tomb'[s] : c \in 1 .. pair'[s].epoch /\ (c \in leaving[s] \/ Ended(c) # {})
         /\ \A e \in 1 .. pair'[s].epoch : history[e].state = "disconnected" => history[e].cid \in tomb'[s]
         /\ pair'[s].state = "active" /\ pair'[s].cid \in tomb'[s] =>
              pair'[s].cid \in leaving[s] /\ pair'[s] = pair[s]
         /\ \/ stale'[s] = stale[s]
            \/ /\ stale'[s] = stale[s] \cup Dated(s)
               /\ \E c \in tomb'[s] : \A r \in Requests :
                    attempt[s][r].at # "none" => c >= Target(attempt[s][r].snap)
         /\ pair'[s] = pair[s] \/ (pair'[s] = x /\ (x.state = "active" => x.cid \notin tomb[s]))
         /\ x.state = "disconnected" => pair'[s].epoch >= x.epoch
<1> DEFINE p == pair[s]
<1>0. /\ p \in Snapshot /\ Genuine(p)
      /\ p.epoch \in Nat /\ x.epoch \in Nat /\ x.cid \in Nat /\ p.cid \in Nat /\ Len(history) \in Nat
      /\ x.state \in {"empty", "active", "disconnected"}
      /\ \A c \in tomb[s] : c \in Nat
  BY Shapes, SnapshotFacts DEF Core, PairsStand
<1>1. /\ tomb'[s] = Buried(s, x)
      /\ Adopts(s, x) => pair'[s] = x
      /\ ~Adopts(s, x) => pair'[s] = pair[s]
      /\ Buried(s, x) # tomb[s] /\ x.epoch >= pair[s].epoch => stale'[s] = stale[s] \cup Dated(s)
      /\ ~(Buried(s, x) # tomb[s] /\ x.epoch >= pair[s].epoch) => stale'[s] = stale[s]
  BY ApplyFacts
<1>2. pair'[s] \in Snapshot /\ Genuine(pair'[s])
  BY <1>0, <1>1
<1>3. tomb[s] \subseteq tomb'[s] /\ (x.state # "disconnected" => tomb'[s] = tomb[s])
      /\ (x.state = "disconnected" => tomb'[s] = tomb[s] \cup {x.cid})
  BY <1>1 DEF Buried
<1>4. pair'[s].epoch >= pair[s].epoch
  BY <1>0, <1>1 DEF Adopts
<1>5. pair'[s] = pair[s] \/ (pair'[s] = x /\ (x.state = "active" => x.cid \notin tomb[s]))
  BY <1>1, <1>3 DEF Adopts
<1>6. x.state = "disconnected" =>
        /\ x.epoch \in 1 .. Len(history) /\ x.epoch > 1 /\ x.cid = x.epoch - 1
        /\ history[x.epoch].state = "disconnected" /\ history[x.epoch].cid = x.cid
        /\ history[x.epoch - 1].state = "active"
        /\ (x.epoch < p.epoch \/ pair'[s] = x)
  <2> SUFFICES ASSUME x.state = "disconnected"
               PROVE  /\ x.epoch \in 1 .. Len(history) /\ x.epoch > 1 /\ x.cid = x.epoch - 1
                      /\ history[x.epoch].state = "disconnected" /\ history[x.epoch].cid = x.cid
                      /\ history[x.epoch - 1].state = "active"
                      /\ (x.epoch < p.epoch \/ pair'[s] = x)
    OBVIOUS
  <2>1. /\ x.epoch \in 1 .. Len(history) /\ history[x.epoch].state = "disconnected"
        /\ history[x.epoch].cid = x.cid
    BY DEF Genuine, Empty, EventSnapshot
  <2>2. Ends(x.epoch)
    BY <2>1 DEF Core, EventsStand, Begins
  <2>3. x.epoch < p.epoch \/ pair'[s] = x
    BY <1>0, <1>1 DEF Adopts
  <2> QED BY <2>1, <2>2, <2>3 DEF Ends
<1>7. x.state = "disconnected" => pair'[s].epoch >= x.epoch
  BY <1>0, <1>2, <1>4, <1>6, SnapshotFacts
<1>8. ASSUME NEW c \in tomb'[s]
      PROVE  c \in 1 .. pair'[s].epoch /\ (c \in leaving[s] \/ Ended(c) # {})
  <2>0. pair'[s].epoch \in Nat
    BY <1>2, SnapshotFacts
  <2>1. CASE c \in tomb[s]
    <3>1. c \in 1 .. p.epoch /\ (c \in leaving[s] \/ Ended(c) # {})
      BY <2>1 DEF Core, TombsStand, TombsAt
    <3> QED BY <1>0, <1>4, <2>0, <3>1
  <2>2. CASE c \notin tomb[s]
    <3>1. x.state = "disconnected" /\ c = x.cid
      BY <1>3, <2>2
    <3>2. x.epoch \in Ended(c)
      BY <1>6, <3>1 DEF Ended
    <3>3. c \in 1 .. pair'[s].epoch
      BY <1>0, <1>6, <1>7, <2>0, <3>1
    <3> QED BY <3>2, <3>3
  <2> QED BY <2>1, <2>2
<1>9. ASSUME NEW e \in 1 .. pair'[s].epoch, history[e].state = "disconnected"
      PROVE  history[e].cid \in tomb'[s]
  <2>0. pair'[s].epoch \in Nat /\ e \in Nat /\ 1 <= e
    BY <1>2, SnapshotFacts
  <2>1. CASE e <= p.epoch
    <3>1. e \in 1 .. p.epoch
      BY <1>0, <2>0, <2>1
    <3>2. history[e].cid \in tomb[s]
      BY <1>9, <3>1 DEF Core, TombsStand, TombsAt
    <3> QED BY <1>3, <3>2
  <2>2. CASE e > p.epoch
    <3>1. pair'[s] = x /\ x.epoch >= e
      BY <1>0, <1>5, <2>0, <2>2
    <3>2. x.epoch \in 1 .. Len(history) /\ x.state = history[x.epoch].state /\ x.cid = history[x.epoch].cid
      BY <1>0, <2>0, <3>1 DEF Genuine, Empty, EventSnapshot
    <3>3. e \in 1 .. Len(history)
      BY <1>0, <2>0, <3>1, <3>2
    <3>4. CASE e = x.epoch
      BY <1>3, <1>9, <3>2, <3>4
    <3>5. CASE e < x.epoch
      \* an end before the one adopted is followed by a beginning, which has been learned
      <4>1. e + 1 \in 1 .. Len(history) /\ e + 1 - 1 = e
        BY <1>0, <2>0, <3>2, <3>5
      <4>2. Begins(e + 1) \/ Ends(e + 1)
        BY <4>1 DEF Core, EventsStand
      <4>3. history[e + 1].state = "active"
        BY <1>9, <4>1, <4>2 DEF Begins, Ends
      <4>4. e + 1 <= p.epoch + 1
        BY <4>1, <4>3, Behind
      <4> QED BY <1>0, <2>0, <2>2, <4>4
    <3> QED BY <1>0, <2>0, <3>1, <3>4, <3>5
  <2> QED BY <1>0, <2>0, <2>1, <2>2
<1>10. ASSUME pair'[s].state = "active", pair'[s].cid \in tomb'[s]
       PROVE  pair'[s].cid \in leaving[s] /\ pair'[s] = pair[s]
  <2>1. pair'[s] = pair[s]
    <3> SUFFICES ASSUME pair'[s] # pair[s]
                 PROVE  FALSE
      OBVIOUS
    <3>1. pair'[s] = x /\ x.cid \notin tomb[s]
      BY <1>5, <1>10
    <3> QED BY <1>3, <1>10, <3>1
  <2>2. pair[s].cid \in tomb[s]
    <3> SUFFICES ASSUME pair[s].cid \notin tomb[s]
                 PROVE  FALSE
      OBVIOUS
    <3>1. x.state = "disconnected" /\ p.cid = x.cid
      BY <1>3, <1>10, <2>1
    <3>2. p.epoch \in 1 .. Len(history) /\ history[p.epoch].state = "active" /\ history[p.epoch].cid = p.cid
      BY <1>0, <1>10, <2>1 DEF Genuine, Empty, EventSnapshot
    <3>3. p.cid = p.epoch
      BY <3>2 DEF Core, EventsStand, Begins, Ends
    <3>4. pair'[s] = x
      BY <1>0, <1>6, <3>1, <3>3
    <3> QED BY <1>10, <3>1, <3>4
  <2>3. pair[s].cid \in leaving[s]
    BY <1>10, <2>1, <2>2 DEF Core, TombsStand, TombsAt
  <2> QED BY <2>1, <2>3
<1>11. ASSUME stale'[s] # stale[s]
       PROVE  /\ stale'[s] = stale[s] \cup Dated(s)
              /\ \E c \in tomb'[s] : \A r \in Requests :
                   attempt[s][r].at # "none" => c >= Target(attempt[s][r].snap)
  <2>1. x.state = "disconnected" /\ x.cid \notin tomb[s] /\ x.epoch >= p.epoch
    BY <1>1, <1>3, <1>11
  <2>2. x.epoch > p.epoch
    <3> SUFFICES ASSUME x.epoch = p.epoch
                 PROVE  FALSE
      BY <1>0, <2>1
    <3>1. x.epoch \in 1 .. p.epoch
      BY <1>0, <1>6, <2>1
    <3> QED BY <1>6, <2>1, <3>1 DEF Core, TombsStand, TombsAt
  <2>4. ASSUME NEW r \in Requests, attempt[s][r].at # "none"
        PROVE  x.cid >= Target(attempt[s][r].snap)
    <3> DEFINE y == attempt[s][r].snap
    <3>1. AttemptStands(s, r)
      BY <2>4 DEF Core, AttemptsStand
    <3>2. y \in Snapshot /\ Genuine(y) /\ Target(y) <= p.epoch + 1
      BY <3>1, Shapes DEF AttemptStands, Attempt
    <3>3. Target(y) \in Nat
      BY <3>2, SnapshotFacts
    <3>4. Target(y) <= Len(history) => history[Target(y)].state = "active"
      BY <3>2, TargetFacts DEF Core
    <3>5. Target(y) # x.epoch
      BY <1>0, <1>6, <2>1, <3>3, <3>4
    <3> QED BY <1>0, <1>6, <2>1, <2>2, <3>2, <3>3, <3>5
  <2> QED BY <1>1, <1>3, <1>11, <2>1, <2>4
<1> QED BY <1>2, <1>3, <1>4, <1>5, <1>7, <1>8, <1>9, <1>10, <1>11

(* What a step of the federation does to one side's rows: the pair does    *)
(* not go back, and consents become stale only when the side leaves a      *)
(* connection no earlier than the one they could lead to.                  *)
SideStep(s) ==
    /\ pair'[s].epoch >= pair[s].epoch /\ tomb[s] \subseteq tomb'[s]
    /\ Genuine(pair'[s])
    /\ TombsAt(s)'
    /\ \/ stale'[s] = stale[s]
       \/ /\ stale'[s] = stale[s] \cup Dated(s)
          /\ \E c \in tomb'[s] : \A r \in Requests :
               attempt[s][r].at # "none" => c >= Target(attempt[s][r].snap)

LEMMA SideStill ==
  ASSUME TypeOK, Core, NEW s \in Sides, history' = history,
         pair'[s] = pair[s], tomb'[s] = tomb[s], stale'[s] = stale[s], leaving'[s] = leaving[s]
  PROVE  SideStep(s)
<1>1. pair[s].epoch \in Nat
  BY Shapes, SnapshotFacts
<1>2. Genuine(pair[s]) /\ TombsAt(s)
  BY DEF Core, PairsStand, TombsStand
<1>3. TombsAt(s)'
  BY <1>2 DEF TombsAt, Ended
<1> QED BY <1>1, <1>2, <1>3 DEF SideStep

LEMMA SideApplies ==
  ASSUME TypeOK, Core, NEW s \in Sides, NEW x \in Snapshot, Genuine(x), Apply(s, x), history' = history,
         leaving'[s] = leaving[s]
  PROVE  SideStep(s)
<1>1. TombsAt(s)'
  <2>1. \A c \in leaving'[s] : c \in 1 .. Len(history) /\ history[c].state = "active"
    BY DEF Core, TombsStand, TombsAt
  <2> QED BY <2>1, ApplyStands DEF TombsAt, Ended
<1> QED BY <1>1, ApplyStands DEF SideStep

LEMMA EventsKept ==
  ASSUME TypeOK, EventsStand, Grows, history' = history
  PROVE  EventsStand'
<1>1. ASSUME NEW e \in 1 .. Len(history), Begins(e)
      PROVE  Begins(e)'
  BY <1>1, Shapes DEF Begins, Grows
<1>2. ASSUME NEW e \in 1 .. Len(history), Ends(e)
      PROVE  Ends(e)'
  BY <1>2 DEF Ends
<1> QED BY <1>1, <1>2 DEF EventsStand

LEMMA ResultsKept ==
  ASSUME TypeOK, TypeOK', ResultsStand, Grows, NEW r \in Requests, result[r] # 0
  PROVE  /\ result'[r] \in 1 .. Len(history') /\ history'[result'[r]].state = "active"
         /\ \A s \in Sides : attempt'[s][r].at \in Retained /\ Target(attempt'[s][r].snap) = result'[r]
<1>1. /\ result[r] \in 1 .. Len(history) /\ history[result[r]].state = "active"
      /\ \A s \in Sides : attempt[s][r].at \in Retained /\ Target(attempt[s][r].snap) = result[r]
  BY DEF ResultsStand
<1>2. result'[r] = result[r]
  BY DEF Grows
<1>3. result[r] \in 1 .. Len(history') /\ history'[result[r]] = history[result[r]]
  BY <1>1, Shapes, NextShapes DEF Grows
<1>4. ASSUME NEW s \in Sides
      PROVE  attempt'[s][r].at \in Retained /\ attempt'[s][r].snap = attempt[s][r].snap
  <2>1. CellGrows(s, r)
    BY DEF Grows
  <2>2. attempt[s][r].at \in Retained /\ attempt[s][r].at # "none"
    BY <1>1 DEF Retained
  <2> QED BY <2>1, <2>2 DEF CellGrows
<1> QED BY <1>1, <1>2, <1>3, <1>4

LEMMA OutboxKept ==
  ASSUME TypeOK, TypeOK', OutboxStands, Grows, NEW job \in outbox
  PROVE  /\ job.epoch \in 1 .. Len(history')
         /\ job.request # None => result'[job.request] = job.epoch
         /\ job.request = None => history'[job.epoch].state = "disconnected"
<1>1. /\ job.epoch \in 1 .. Len(history)
      /\ job.request # None => result[job.request] = job.epoch
      /\ job.request = None => history[job.epoch].state = "disconnected"
  BY DEF OutboxStands
<1>2. job.request \in Requests \cup {None}
  BY DEF TypeOK
<1>3. job.request # None => result'[job.request] = job.epoch
  BY <1>1, <1>2, Shapes DEF Grows
<1> QED BY <1>1, <1>3, Shapes, NextShapes DEF Grows

LEMMA ReplicatesKept ==
  ASSUME TypeOK, TypeOK', Replicates, Grows, outbox \subseteq outbox', NEW e \in 1 .. Len(history)
  PROVE  [epoch |-> e, request |-> history'[e].request] \in outbox' \/ Acked(EventSnapshot(e))'
<1>1. history'[e] = history[e]
  BY DEF Grows
<1>2. [epoch |-> e, request |-> history[e].request] \in outbox \/ Acked(EventSnapshot(e))
  BY DEF Replicates
<1>3. ASSUME Acked(EventSnapshot(e))
      PROVE  Acked(EventSnapshot(e))'
  <2>1. pair'["large"].epoch >= pair["large"].epoch /\ tomb["large"] \subseteq tomb'["large"]
    BY SideFacts DEF Grows
  <2>2. /\ pair'["large"].epoch \in Nat /\ pair["large"].epoch \in Nat /\ e \in Nat
        /\ Len(history) \in Nat /\ Len(history') \in Nat
    BY Shapes, NextShapes, SideFacts, SnapshotFacts
  <2>3. Len(history') >= Len(history)
    BY DEF Grows
  <2> QED BY <1>1, <1>3, <2>1, <2>2, <2>3 DEF Acked, EventSnapshot
<1> QED BY <1>1, <1>2, <1>3

LEMMA AttemptFacts ==
  ASSUME TypeOK, NEW s \in Sides, NEW r \in Requests
  PROVE  /\ attempt[s][r].at \in {"none", "draft", "pending", "admitted", "active", "expired", "conflict"}
         /\ attempt[s][r].snap \in Snapshot /\ attempt[s][r].code \in Codes \cup {None}
         /\ attempt[s][r].admission \in BOOLEAN /\ attempt[s][r].cid \in Epochs
         /\ attempt[s][r] = [at |-> attempt[s][r].at, snap |-> attempt[s][r].snap, code |-> attempt[s][r].code,
                             admission |-> attempt[s][r].admission, cid |-> attempt[s][r].cid]
<1>1. attempt[s][r] \in Attempt
  BY Shapes
<1> QED BY <1>1 DEF Attempt

(* A consent stays in order when it is not touched and its other copy does *)
(* not appear.                                                             *)
LEMMA AttemptKept ==
  ASSUME TypeOK, TypeOK', AttemptsStand, Grows, NEW s \in Sides, NEW r \in Requests,
         attempt[s][r].at # "none", attempt'[s][r] = attempt[s][r],
         attempt[Other(s)][r].at # "none" \/ attempt'[Other(s)][r].at = "none"
  PROVE  AttemptStands(s, r)'
<1> DEFINE a == attempt[s][r]
           b == attempt[Other(s)][r]
<1>0. Other(s) \in Sides /\ a.snap \in Snapshot
  BY SideFacts, AttemptFacts
<1>1. AttemptStands(s, r)
  BY DEF AttemptsStand
<1>2. Genuine(attempt[s][r].snap)'
  <2>1. PICK x \in Snapshot : x = a.snap
    BY <1>0
  <2>2. Genuine(x)'
    BY <1>1, <2>1, GenuineGrows DEF AttemptStands
  <2> QED BY <2>1, <2>2
<1>3. Target(a.snap) <= pair'[s].epoch + 1
  <2>1. pair[s].epoch \in Nat /\ pair'[s].epoch \in Nat /\ Target(a.snap) \in Nat
    BY <1>0, Shapes, NextShapes, SnapshotFacts
  <2>2. pair'[s].epoch >= pair[s].epoch
    BY DEF Grows
  <2> QED BY <1>1, <2>1, <2>2 DEF AttemptStands
<1>4. CellGrows(Other(s), r)
  BY <1>0 DEF Grows
<1>5. /\ b.at # "none" => attempt'[Other(s)][r].at # "none"
      /\ attempt'[Other(s)][r].at # "none" =>
           attempt'[Other(s)][r].snap = a.snap /\ attempt'[Other(s)][r].code = a.code
  BY <1>1, <1>4 DEF AttemptStands, CellGrows
<1>6. inviter' = inviter
  BY DEF Grows
<1> QED BY <1>1, <1>2, <1>3, <1>5, <1>6 DEF AttemptStands

LEMMA AttemptsKept ==
  ASSUME TypeOK, TypeOK', AttemptsStand, Grows, attempt' = attempt
  PROVE  AttemptsStand'
<1>1. ASSUME NEW s \in Sides, NEW r \in Requests, attempt'[s][r].at # "none"
      PROVE  AttemptStands(s, r)'
  BY <1>1, AttemptKept
<1> QED BY <1>1 DEF AttemptsStand

(* A step that changes no event: what has to be shown of it.               *)
LEMMA SidesGrow ==
  ASSUME TypeOK, UNCHANGED <<history, result, inviter>>, \A s \in Sides : SideStep(s),
         \A s \in Sides, r \in Requests : CellGrows(s, r)
  PROVE  Grows
BY Shapes DEF SideStep, Grows

LEMMA SidesCore ==
  ASSUME TypeOK, TypeOK', Core, UNCHANGED <<history, result, outbox, inviter>>,
         \A s \in Sides : SideStep(s), Grows, AttemptsStand',
         \A s \in Sides, r \in Requests :
            attempt[s][r].at = "none" /\ attempt'[s][r].at # "none" => ~Outdated(s, r)'
  PROVE  Core'
<1>1. EventsStand'
  BY EventsKept DEF Core
<1>2. PairsStand'
  <2>1. pair'["small"].epoch = Len(history)
    <3>1. pair["small"].epoch = Len(history) /\ pair'["small"].epoch >= pair["small"].epoch
      BY SideFacts DEF Core, PairsStand, SideStep
    <3>2. pair'["small"].epoch \in Nat /\ Len(history) \in Nat
      BY NextShapes, Shapes, SideFacts, SnapshotFacts
    <3>3. Genuine(pair'["small"])
      BY SideFacts DEF SideStep
    <3>4. pair'["small"].epoch <= Len(history)
      BY <3>2, <3>3 DEF Genuine, Empty
    <3> QED BY <3>1, <3>2, <3>4
  <2>2. ASSUME NEW s \in Sides
        PROVE  Genuine(pair[s])'
    <3>1. Genuine(pair'[s])
      BY DEF SideStep
    <3> QED BY <3>1 DEF Genuine, EventSnapshot, Empty
  <2> QED BY <2>1, <2>2 DEF PairsStand
<1>3. ResultsStand'
  <2>1. ResultsStand
    BY DEF Core
  <2>2. ASSUME NEW r \in Requests, result'[r] # 0
        PROVE  /\ result'[r] \in 1 .. Len(history') /\ history'[result'[r]].state = "active"
               /\ \A s \in Sides : attempt'[s][r].at \in Retained /\ Target(attempt'[s][r].snap) = result'[r]
    BY <2>1, <2>2, ResultsKept
  <2> QED BY <2>2 DEF ResultsStand, Target, Retained
<1>4. OutboxStands'
  <2>1. OutboxStands
    BY DEF Core
  <2> QED BY <2>1, OutboxKept DEF OutboxStands
<1>5. TombsStand'
  BY DEF SideStep, TombsStand
<1>6. StaleStands'
  <2>1. ASSUME NEW s \in Sides, NEW r \in Requests, r \in stale'[s]
        PROVE  attempt'[s][r].at # "none"
    <3>1. r \in stale[s] \/ r \in Dated(s)
      BY <2>1 DEF SideStep
    <3>2. r \in stale[s] => attempt[s][r].at # "none"
      BY DEF Core, StaleStands
    <3>3. r \in Dated(s) => attempt[s][r].at # "none"
      BY RequestAssumption DEF Dated
    <3> QED BY <3>1, <3>2, <3>3 DEF Grows, CellGrows
  <2>2. ASSUME NEW s \in Sides, NEW r \in Requests, attempt'[s][r].at # "none", Outdated(s, r)'
        PROVE  \E c \in tomb'[s] : c >= Target(attempt'[s][r].snap)
    <3>1. attempt[s][r].at # "none"
      BY <2>2
    <3>2. attempt'[s][r].snap = attempt[s][r].snap /\ attempt'[s][r].code = attempt[s][r].code
      BY <3>1 DEF Grows, CellGrows
    <3>3. CASE stale'[s] = stale[s]
      <4>1. Outdated(s, r)
        BY <2>2, <3>2, <3>3 DEF Outdated
      <4>2. PICK c \in tomb[s] : c >= Target(attempt[s][r].snap)
        BY <3>1, <4>1 DEF Core, StaleStands
      <4>3. c \in tomb'[s]
        BY <4>2 DEF SideStep
      <4> QED BY <3>2, <4>2, <4>3
    <3>4. CASE stale'[s] # stale[s]
      <4>1. PICK c \in tomb'[s] : \A q \in Requests :
                    attempt[s][q].at # "none" => c >= Target(attempt[s][q].snap)
        BY <3>4 DEF SideStep
      <4> QED BY <3>1, <3>2, <4>1
    <3> QED BY <3>3, <3>4
  <2> QED BY <2>1, <2>2 DEF StaleStands, Target
<1>7. Replicates'
  <2>1. Replicates
    BY DEF Core
  <2>2. ASSUME NEW e \in 1 .. Len(history')
        PROVE  [epoch |-> e, request |-> history'[e].request] \in outbox' \/ Acked(EventSnapshot(e))'
    BY <2>1, ReplicatesKept
  <2> QED BY <2>2 DEF Replicates
<1> QED BY <1>1, <1>2, <1>3, <1>4, <1>5, <1>6, <1>7 DEF Core

-----------------------------------------------------------------------------
(* Workers and requests.                                                   *)

Waits(jobs) == [msg: Message \cup {None}, job: jobs \cup {None}, answer: Answers, snap: Snapshot, current: Snapshot]

LEMMA EmptyFacts == Empty \in Snapshot /\ Empty.epoch = 0 /\ Empty.state = "empty" /\ Genuine(Empty)
  BY BoundAssumption DEF Empty, Snapshot, Epochs, Genuine

LEMMA IdleFacts ==
  /\ Idle.msg = None /\ Idle.job = None /\ Idle.answer = "waiting" /\ Idle.snap = Empty /\ Idle.current = Empty
  /\ \A jobs : Idle \in Waits(jobs)
  BY EmptyFacts DEF Idle, Waits, Answers

LEMMA SendFacts ==
  ASSUME TypeOK, NEW s \in Sides, NEW m \in Message, outbox' = outbox, Send(s, m)
  PROVE  /\ wire' = wire \cup {m} /\ wire' \subseteq Message
         /\ worker' \in [Sides -> Waits(outbox')]
         /\ worker'[s] = [msg |-> m, job |-> None, answer |-> "waiting", snap |-> Empty, current |-> Empty]
         /\ \A t \in Sides : t # s => worker'[t] = worker[t]
<1>1. wire' = wire \cup {m} /\ wire' \subseteq Message
  BY DEF Send, TypeOK
<1>2. worker \in [Sides -> Waits(outbox)]
  BY DEF TypeOK, Waits
<1> DEFINE w == [msg |-> m, job |-> None, answer |-> "waiting", snap |-> Empty, current |-> Empty]
<1>3. worker' = [worker EXCEPT ![s] = w]
  <2>1. [Idle EXCEPT !.msg = m] = w
    BY DEF Idle
  <2>2. worker' = [worker EXCEPT ![s] = [Idle EXCEPT !.msg = m]]
    BY DEF Send
  <2> QED BY <2>1, <2>2
<1>4. w \in Waits(outbox)
  BY EmptyFacts DEF Waits, Answers
<1> HIDE DEF w
<1>5. worker' \in [Sides -> Waits(outbox')] /\ worker'[s] = w /\ \A t \in Sides : t # s => worker'[t] = worker[t]
  BY <1>2, <1>3, <1>4
<1> QED BY <1>1, <1>5 DEF w

LEMMA DoneFacts ==
  ASSUME TypeOK, NEW s \in Sides, Done(s), \A t \in Sides : t # s => worker[t].job \in outbox' \cup {None}
  PROVE  /\ worker' \in [Sides -> Waits(outbox')]
         /\ worker'[s] = Idle
         /\ \A t \in Sides : t # s => worker'[t] = worker[t]
<1>1. worker = [t \in Sides |-> worker[t]]
  BY DEF TypeOK
<1>2. worker' = [worker EXCEPT ![s] = Idle]
  BY DEF Done
<1>3. worker'[s] = Idle /\ \A t \in Sides : t # s => worker'[t] = worker[t]
  BY <1>1, <1>2
<1>4. ASSUME NEW t \in Sides
      PROVE  worker'[t] \in Waits(outbox')
  <2>1. CASE t = s
    BY <1>3, <2>1, IdleFacts
  <2>2. CASE t # s
    <3>1. PICK w : w = worker[t]
      OBVIOUS
    <3>2. /\ w.msg \in Message \cup {None} /\ w.answer \in Answers /\ w.snap \in Snapshot /\ w.current \in Snapshot
          /\ w = [msg |-> w.msg, job |-> w.job, answer |-> w.answer, snap |-> w.snap, current |-> w.current]
          /\ w.job \in outbox' \cup {None}
      BY <2>2, <3>1, WorkerFacts
    <3>3. w \in Waits(outbox')
      BY <3>2 DEF Waits
    <3> QED BY <1>3, <2>2, <3>1, <3>3
  <2> QED BY <2>1, <2>2
<1> QED BY <1>1, <1>2, <1>3, <1>4

LEMMA SentFacts ==
  ASSUME NEW m \in Message
  PROVE  /\ Sent(m).from = m.from /\ Sent(m).request = m.request /\ Sent(m).snap = m.snap
         /\ m.step \in {"admit", "learned"} => Sent(m).step = "admit"
         /\ m.step \in {"sync", "checked"} => Sent(m).step = "sync"
         /\ m.step \in {"commit", "disconnect"} => Sent(m).step = m.step
         /\ Sent(m) # None
<1>1. m = [step |-> m.step, from |-> m.from, request |-> m.request, snap |-> m.snap, current |-> m.current]
  BY DEF Message
<1>2. PICK k : k = (IF m.step = "learned" THEN "admit" ELSE IF m.step = "checked" THEN "sync" ELSE m.step)
  OBVIOUS
<1>3. Sent(m) = [step |-> k, from |-> m.from, request |-> m.request, snap |-> m.snap, current |-> None]
  <2>1. Sent(m) = [m EXCEPT !.step = k, !.current = None]
    <3>1. Sent(m) = [m EXCEPT !.step = IF m.step = "learned" THEN "admit" ELSE IF m.step = "checked" THEN "sync" ELSE m.step,
                              !.current = None]
      BY DEF Sent
    <3> QED BY <1>2, <3>1
  <2>2. [m EXCEPT !.step = k, !.current = None]
          = [step |-> k, from |-> m.from, request |-> m.request, snap |-> m.snap, current |-> None]
    <3>1. PICK st, fr, rq, sn, cu : m = [step |-> st, from |-> fr, request |-> rq, snap |-> sn, current |-> cu]
      BY <1>1
    <3>2. m.from = fr /\ m.request = rq /\ m.snap = sn
      BY <3>1
    <3>3. PICK q : q = [m EXCEPT !.step = k, !.current = None]
      OBVIOUS
    <3>4. q = [step |-> k, from |-> fr, request |-> rq, snap |-> sn, current |-> None]
      BY <3>1, <3>3
    <3> QED BY <3>2, <3>3, <3>4
  <2> QED BY <2>1, <2>2
<1>4. Sent(m) \in Message
  BY <1>2, <1>3, MessageFacts DEF Message
<1>5. /\ m.step \in {"admit", "learned"} => k = "admit"
      /\ m.step \in {"sync", "checked"} => k = "sync"
      /\ m.step \in {"commit", "disconnect"} => k = m.step
  BY <1>2
<1> QED BY <1>3, <1>4, <1>5, NoneAssumption

LEMMA AnswerFacts ==
  ASSUME TypeOK, NEW m \in wire, NEW a \in Answers, NEW x \in Snapshot, NEW y \in Snapshot,
         Answer(m, a, x, y), outbox \subseteq outbox'
  PROVE  /\ wire' = wire \ {m} /\ wire' \subseteq Message
         /\ worker' \in [Sides -> Waits(outbox')]
         /\ \A t \in Sides : t # m.from \/ ~Awaited(m) => worker'[t] = worker[t]
         /\ Awaited(m) => /\ worker[m.from].msg = Sent(m)
                          /\ worker'[m.from] = [msg |-> Sent(m), job |-> worker[m.from].job, answer |-> a,
                                                snap |-> x, current |-> y]
<1>1. wire' = wire \ {m} /\ wire' \subseteq Message /\ m \in Message
  BY DEF Answer, TypeOK
<1>2. worker = [t \in Sides |-> worker[t]] /\ m.from \in Sides
  BY <1>1, MessageFacts DEF TypeOK
<1>3. \A t \in Sides : worker[t] \in Waits(outbox')
  <2> TAKE t \in Sides
  <2>1. PICK w : w = worker[t]
    OBVIOUS
  <2>2. /\ w.msg \in Message \cup {None} /\ w.answer \in Answers /\ w.snap \in Snapshot /\ w.current \in Snapshot
        /\ w = [msg |-> w.msg, job |-> w.job, answer |-> w.answer, snap |-> w.snap, current |-> w.current]
        /\ w.job \in outbox' \cup {None}
    BY <2>1, WorkerFacts
  <2>3. w \in Waits(outbox')
    BY <2>2 DEF Waits
  <2> QED BY <2>1, <2>3
<1>4. CASE ~Awaited(m)
  <2>1. worker' = worker
    BY <1>4 DEF Answer
  <2> QED BY <1>1, <1>2, <1>3, <1>4, <2>1
<1>5. CASE Awaited(m)
  <2> DEFINE w == [msg |-> Sent(m), job |-> worker[m.from].job, answer |-> a, snap |-> x, current |-> y]
  <2>1. worker[m.from].msg = Sent(m)
    BY <1>5 DEF Awaited
  <2>2. worker[m.from] = [msg |-> worker[m.from].msg, job |-> worker[m.from].job, answer |-> worker[m.from].answer,
                          snap |-> worker[m.from].snap, current |-> worker[m.from].current]
    BY <1>2, WorkerFacts
  <2>3. worker' = [worker EXCEPT ![m.from].answer = a, ![m.from].snap = x, ![m.from].current = y]
    BY <1>5 DEF Answer
  <2>4. worker' = [worker EXCEPT ![m.from] = w]
    <3>1. PICK f : f = m.from
      OBVIOUS
    <3>2. PICK v : v = worker[f]
      OBVIOUS
    <3>3. v = [msg |-> Sent(m), job |-> v.job, answer |-> v.answer, snap |-> v.snap, current |-> v.current]
      BY <2>1, <2>2, <3>1, <3>2
    <3>4. PICK v1 : v1 = [v EXCEPT !.answer = a, !.snap = x, !.current = y]
      OBVIOUS
    <3>5. v1 = w
      <4>1. PICK v2, v3, v4, v5 : v = [msg |-> Sent(m), job |-> v2, answer |-> v3, snap |-> v4, current |-> v5]
        BY <3>3
      <4>2. v2 = worker[m.from].job
        BY <3>1, <3>2, <4>1
      <4>3. v1 = [msg |-> Sent(m), job |-> v2, answer |-> a, snap |-> x, current |-> y]
        BY <3>4, <4>1
      <4> QED BY <4>2, <4>3
    <3>6. worker' = [worker EXCEPT ![f] = v1]
      <4>1. PICK w1 : w1 = [worker EXCEPT ![f].answer = a]
        OBVIOUS
      <4>2. PICK w2 : w2 = [w1 EXCEPT ![f].snap = x]
        OBVIOUS
      <4>3. worker' = [w2 EXCEPT ![f].current = y]
        BY <2>3, <3>1, <4>1, <4>2
      <4>4. w1 = [worker EXCEPT ![f] = [v EXCEPT !.answer = a]]
        BY <1>2, <3>1, <3>2, <4>1
      <4>5. w2 = [worker EXCEPT ![f] = [v EXCEPT !.answer = a, !.snap = x]]
        BY <1>2, <3>1, <3>2, <4>2, <4>4
      <4> QED BY <1>2, <3>1, <3>2, <3>4, <4>3, <4>5
    <3> QED BY <3>1, <3>5, <3>6
  <2>5. w \in Waits(outbox')
    BY <1>2, <1>3, <2>1 DEF Waits
  <2> HIDE DEF w
  <2>6. worker'[m.from] = w /\ (\A t \in Sides : t # m.from => worker'[t] = worker[t])
        /\ worker' \in [Sides -> Waits(outbox')]
    BY <1>2, <1>3, <2>4, <2>5
  <2> QED BY <1>1, <1>5, <2>1, <2>6 DEF w
<1> QED BY <1>4, <1>5

(* A request is answered.                                                  *)
LEMMA AnswerStep ==
  ASSUME TypeOK, TypeOK', ResultsStand, WireStands, WorkerStands, Grows, outbox \subseteq outbox',
         NEW m \in wire, NEW a \in Answers, NEW x \in Snapshot, NEW y \in Snapshot, Answer(m, a, x, y),
         a = "admission" => m.step \in {"admit", "learned"} /\ attempt'[Other(m.from)][m.request].at # "none",
         a = "result" => m.step \in {"commit", "disconnect"},
         a = "result" /\ m.step = "commit" =>
            result'[m.request] # 0 /\ x = EventSnapshot(result[m.request])' /\ Genuine(y)',
         a = "result" /\ m.step = "disconnect" => Genuine(x)' /\ x.state = "disconnected",
         a = "ack" => m.step = "checked" /\ Acked(m.snap)'
  PROVE  WireStands' /\ WorkerStands'
<1>0. m \in Message /\ m.from \in Sides
  BY MessageFacts DEF TypeOK
<1>1. /\ wire' = wire \ {m}
      /\ \A t \in Sides : t # m.from \/ ~Awaited(m) => worker'[t] = worker[t]
      /\ Awaited(m) => /\ worker[m.from].msg = Sent(m)
                       /\ worker'[m.from] = [msg |-> Sent(m), job |-> worker[m.from].job, answer |-> a,
                                             snap |-> x, current |-> y]
  BY AnswerFacts
<1>2. WireStands'
  BY <1>1, WireKept
<1>3. ASSUME NEW t \in Sides
      PROVE  WorkerAt(t)'
  <2>1. WorkerAt(t)
    BY DEF WorkerStands
  <2>2. CASE t # m.from \/ ~Awaited(m)
    <3>1. worker'[t] = worker[t]
      BY <1>1, <2>2
    <3> QED BY <2>1, <3>1, WorkerGrows
  <2>3. CASE t = m.from /\ Awaited(m)
    <3>1. PICK q : q = Sent(m)
      OBVIOUS
    <3>2. /\ q.from = m.from /\ q.request = m.request /\ q.snap = m.snap /\ q # None
          /\ m.step \in {"admit", "learned"} => q.step = "admit"
          /\ m.step \in {"sync", "checked"} => q.step = "sync"
          /\ m.step \in {"commit", "disconnect"} => q.step = m.step
      BY <1>0, <3>1, SentFacts
    <3>3. /\ worker[t].msg = q
          /\ worker'[t] = [msg |-> q, job |-> worker[t].job, answer |-> a, snap |-> x, current |-> y]
      BY <1>1, <2>3, <3>1
    <3>4. worker[t] # Idle
      BY <3>2, <3>3, IdleFacts
    <3>5. q \in Message /\ q.step \notin {"learned", "checked"} /\ MessageStands(q) /\ JobStands(t)
      BY <2>1, <3>2, <3>3, <3>4, WorkerFacts DEF WorkerAt
    <3>6. MessageStands(q)'
      BY <3>5, MessageGrows
    <3>7. /\ worker'[t].msg = q /\ worker'[t].job = worker[t].job /\ worker'[t].answer = a
          /\ worker'[t].snap = x /\ worker'[t].current = y
      BY <3>3
    <3>8. MessageStands(worker[t].msg)'
      BY <3>6, <3>7
    <3>9. AnswerStands(t)'
      <4>1. a = "admission" => q.step = "admit" /\ attempt'[Other(t)][q.request].at # "none"
        BY <2>3, <3>2
      <4>2. a = "result" => q.step \in {"commit", "disconnect"} /\ q.step = m.step
        BY <3>2
      <4>3. a = "result" /\ q.step = "commit" =>
              result'[q.request] # 0 /\ x = EventSnapshot(result[q.request])' /\ Genuine(y)'
        BY <3>2, <4>2
      <4>4. a = "result" /\ q.step = "disconnect" => Genuine(x)' /\ x.state = "disconnected"
        BY <3>2, <4>2
      <4>5. a = "ack" => q.step = "sync" /\ Acked(q.snap)'
        BY <3>2
      <4>6. Genuine(x)' => Genuine(worker[t].snap)'
        BY <3>7
      <4>7. Genuine(y)' => Genuine(worker[t].current)'
        BY <3>7
      <4>8. Acked(q.snap)' => Acked(worker[t].msg.snap)'
        BY <3>7
      <4>9. EventSnapshot(result[q.request])' = EventSnapshot(result[worker[t].msg.request])'
        BY <3>7
      <4> QED BY <3>7, <4>1, <4>2, <4>3, <4>4, <4>5, <4>6, <4>7, <4>8, <4>9 DEF AnswerStands
    <3>10. JobStands(t)'
      BY <3>3, <3>5, <3>7 DEF JobStands
    <3> QED BY <2>3, <3>2, <3>5, <3>7, <3>8, <3>9, <3>10 DEF WorkerAt
  <2> QED BY <2>2, <2>3
<1> QED BY <1>2, <1>3 DEF WorkerStands

(* Nothing is asserted of a refusal.                                       *)
LEMMA RefuseStep ==
  ASSUME TypeOK, TypeOK', ResultsStand, WireStands, WorkerStands, Grows, outbox \subseteq outbox',
         NEW m \in wire, NEW a \in {"refused", "expired"}, Refuse(m, a)
  PROVE  WireStands' /\ WorkerStands'
<1>1. Answer(m, a, Empty, Empty) /\ Empty \in Snapshot /\ a \in Answers
  BY EmptyFacts DEF Refuse, Answers
<1>2. a # "admission" /\ a # "result" /\ a # "ack"
  OBVIOUS
<1> QED BY <1>1, <1>2, AnswerStep

LEMMA SendStep ==
  ASSUME TypeOK, TypeOK', ResultsStand, WireStands, WorkerStands, Grows, outbox' = outbox,
         NEW s \in Sides, NEW m \in Message, Send(s, m), m.from = s, MessageStands(m)',
         m.step \in {"admit", "commit", "disconnect"}
  PROVE  WireStands' /\ WorkerStands'
<1>1. /\ wire' = wire \cup {m}
      /\ worker'[s] = [msg |-> m, job |-> None, answer |-> "waiting", snap |-> Empty, current |-> Empty]
      /\ \A t \in Sides : t # s => worker'[t] = worker[t]
  BY SendFacts
<1>2. WireStands'
  BY <1>1, WireGrows
<1>3. ASSUME NEW t \in Sides
      PROVE  WorkerAt(t)'
  <2>1. WorkerAt(t)
    BY DEF WorkerStands
  <2>2. CASE t # s
    <3>1. worker'[t] = worker[t]
      BY <1>1, <2>2
    <3> QED BY <2>1, <3>1, WorkerGrows
  <2>3. CASE t = s
    <3>1. worker'[t].msg = m /\ worker'[t].answer = "waiting" /\ worker'[t].job = None
      BY <1>1, <2>3
    <3>2. MessageStands(worker[t].msg)'
      BY <3>1
    <3>3. AnswerStands(t)' /\ JobStands(t)'
      BY <3>1 DEF AnswerStands, JobStands
    <3> QED BY <2>3, <3>1, <3>2, <3>3, MessageFacts DEF WorkerAt
  <2> QED BY <2>2, <2>3
<1> QED BY <1>2, <1>3 DEF WorkerStands

LEMMA DoneStep ==
  ASSUME TypeOK, TypeOK', ResultsStand, WireStands, WorkerStands, Grows, wire' = wire,
         NEW s \in Sides, Done(s), outbox \subseteq outbox' \/ s = "small"
  PROVE  WireStands' /\ WorkerStands'
<1>1. worker = [t \in Sides |-> worker[t]] /\ worker' = [worker EXCEPT ![s] = Idle]
  BY DEF TypeOK, Done
<1>2. worker'[s] = Idle /\ \A t \in Sides : t # s => worker'[t] = worker[t]
  BY <1>1
<1>3. WireStands'
  BY WireKept
<1>4. ASSUME NEW t \in Sides
      PROVE  WorkerAt(t)'
  <2>1. WorkerAt(t)
    BY DEF WorkerStands
  <2>2. CASE t # s
    <3>1. worker'[t] = worker[t]
      BY <1>2, <2>2
    <3>2. outbox \subseteq outbox' \/ t = "large"
      BY <2>2, SideFacts
    <3> QED BY <2>1, <3>1, <3>2, WorkerGrows
  <2>3. CASE t = s
    BY <1>2, <2>3 DEF WorkerAt, Idle, Empty
  <2> QED BY <2>2, <2>3
<1> QED BY <1>3, <1>4 DEF WorkerStands

(* Neither workers nor requests are touched.                               *)
LEMMA WorkersStill ==
  ASSUME TypeOK, TypeOK', ResultsStand, WireStands, WorkerStands, Grows, UNCHANGED <<wire, worker>>,
         outbox \subseteq outbox'
  PROVE  WireStands' /\ WorkerStands'
<1>1. WireStands'
  BY WireKept
<1>2. ASSUME NEW t \in Sides
      PROVE  WorkerAt(t)'
  <2>1. WorkerAt(t)
    BY DEF WorkerStands
  <2> QED BY <2>1, WorkerGrows
<1> QED BY <1>1, <1>2 DEF WorkerStands

-----------------------------------------------------------------------------
(* The steps, one lemma each.                                              *)

LEMMA FaultFacts ==
  ASSUME TypeOK, NEW kind, Fault(kind)
  PROVE  faults' \in 0 .. MaxFaults
  BY BoundAssumption DEF TypeOK, Fault

LEMMA StillCore ==
  ASSUME IInv, UNCHANGED coreVars
  PROVE  Core' /\ Grows /\ ResultsStand
<1>1. Core'
  BY CoreFrame DEF IInv
<1>2. Grows
  BY GrowsFrame DEF IInv, coreVars
<1> QED BY <1>1, <1>2 DEF IInv, Core

LEMMA CreateCodeStep ==
  ASSUME IInv, NEW c \in Codes, CreateCode(c)
  PROVE  IInv' /\ Grows
<1>1. UNCHANGED coreVars /\ UNCHANGED <<wire, worker>> /\ outbox \subseteq outbox'
  BY DEF CreateCode, coordinatorVars, sideVars, coreVars
<1>2. code' \in [Codes -> {"none", "live", "revoked"}]
  BY DEF CreateCode, IInv, TypeOK
<1>3. TypeOK'
  BY <1>2 DEF CreateCode, IInv, TypeOK, coordinatorVars, sideVars
<1> QED BY <1>1, <1>3, StillCore, WorkersStill DEF IInv

LEMMA RevokeCodeStep ==
  ASSUME IInv, NEW c \in Codes, RevokeCode(c)
  PROVE  IInv' /\ Grows
<1>1. UNCHANGED coreVars /\ UNCHANGED <<wire, worker>> /\ outbox \subseteq outbox'
  BY DEF RevokeCode, coordinatorVars, sideVars, coreVars
<1>2. code' \in [Codes -> {"none", "live", "revoked"}] /\ faults' \in 0 .. MaxFaults
  BY FaultFacts DEF RevokeCode, IInv, TypeOK
<1>3. TypeOK'
  BY <1>2 DEF RevokeCode, IInv, TypeOK, coordinatorVars, sideVars
<1> QED BY <1>1, <1>3, StillCore, WorkersStill DEF IInv

LEMMA LapseStep ==
  ASSUME IInv, NEW r \in Requests, Lapse(r)
  PROVE  IInv' /\ Grows
<1>1. UNCHANGED coreVars /\ UNCHANGED <<wire, worker>> /\ outbox \subseteq outbox'
  BY DEF Lapse, coordinatorVars, sideVars, coreVars, codeVars
<1>2. lapsed' \subseteq Requests /\ faults' \in 0 .. MaxFaults
  BY FaultFacts DEF Lapse, IInv, TypeOK
<1>3. TypeOK'
  BY <1>2 DEF Lapse, IInv, TypeOK, coordinatorVars, sideVars, codeVars
<1> QED BY <1>1, <1>3, StillCore, WorkersStill DEF IInv

LEMMA CellUpdate ==
  ASSUME TypeOK, NEW s \in Sides, NEW r \in Requests, NEW b \in Attempt, attempt' = [attempt EXCEPT ![s][r] = b]
  PROVE  /\ attempt' \in [Sides -> [Requests -> Attempt]]
         /\ attempt'[s][r] = b
         /\ \A t \in Sides, q \in Requests : t # s \/ q # r => attempt'[t][q] = attempt[t][q]
<1>1. attempt \in [Sides -> [Requests -> Attempt]]
  BY DEF TypeOK
<1> QED BY <1>1

(* A consent that is kept moves on.                                        *)
LEMMA CellStep ==
  ASSUME TypeOK, NEW s \in Sides, NEW r \in Requests, NEW b \in Attempt, attempt' = [attempt EXCEPT ![s][r] = b],
         attempt[s][r].at # "none" =>
            /\ b.at # "none" /\ b.snap = attempt[s][r].snap /\ b.code = attempt[s][r].code
            /\ attempt[s][r].at \in Retained => b.at \in Retained
            /\ attempt[s][r].admission => b.admission
  PROVE  \A t \in Sides, q \in Requests : CellGrows(t, q)
<1>1. attempt \in [Sides -> [Requests -> Attempt]]
  BY DEF TypeOK
<1> TAKE t \in Sides, q \in Requests
<1>2. /\ attempt'[s][r] = b
      /\ t # s \/ q # r => attempt'[t][q] = attempt[t][q]
  BY <1>1
<1>3. CASE t = s /\ q = r
  BY <1>2, <1>3 DEF CellGrows
<1>4. CASE ~(t = s /\ q = r)
  BY <1>2, <1>4 DEF CellGrows
<1> QED BY <1>3, <1>4

(* It stays in order if its new row is, and no step of this kind makes a   *)
(* consent out of nothing.                                                 *)
LEMMA CellStands ==
  ASSUME TypeOK, TypeOK', Core, Grows, NEW s \in Sides, NEW r \in Requests, NEW b \in Attempt,
         attempt' = [attempt EXCEPT ![s][r] = b], attempt[s][r].at # "none",
         inviter[b.code] = s => b.at \in Retained /\ b.at # "pending",
         b.admission => attempt[s][r].admission \/ attempt[Other(s)][r].at # "none",
         b.at = "active" => b.admission /\ b.cid = Target(b.snap)
  PROVE  /\ AttemptsStand'
         /\ \A t \in Sides, q \in Requests :
              attempt[t][q].at = "none" /\ attempt'[t][q].at # "none" => ~Outdated(t, q)'
<1>0. /\ attempt'[s][r] = b /\ Other(s) \in Sides /\ Other(s) # s
      /\ \A t \in Sides, q \in Requests : t # s \/ q # r => attempt'[t][q] = attempt[t][q]
  <2>1. attempt \in [Sides -> [Requests -> Attempt]]
    BY DEF TypeOK
  <2>2. /\ attempt'[s][r] = b
        /\ \A t \in Sides, q \in Requests : t # s \/ q # r => attempt'[t][q] = attempt[t][q]
    BY <2>1
  <2> QED BY <2>2, SideFacts
<1>1. AttemptStands(s, r) /\ b.snap = attempt[s][r].snap /\ b.code = attempt[s][r].code
  BY <1>0 DEF Core, AttemptsStand, Grows, CellGrows
<1>2. AttemptStands(s, r)'
  <2>1. b.snap \in Snapshot
    BY DEF Attempt
  <2>2. Genuine(b.snap)'
    BY <1>1, <2>1, GenuineGrows DEF AttemptStands
  <2>3. Target(b.snap) <= pair'[s].epoch + 1
    <3>1. pair[s].epoch \in Nat /\ pair'[s].epoch \in Nat /\ Target(b.snap) \in Nat
      BY <2>1, Shapes, NextShapes, SnapshotFacts
    <3>2. pair'[s].epoch >= pair[s].epoch
      BY DEF Grows
    <3> QED BY <1>1, <3>1, <3>2 DEF AttemptStands
  <2>4. attempt'[Other(s)][r] = attempt[Other(s)][r]
    BY <1>0
  <2>5. (inviter[b.code] = s \/ b.admission) => attempt[Other(s)][r].at # "none"
    BY <1>1 DEF AttemptStands
  <2>6. attempt[Other(s)][r].at # "none" => attempt[Other(s)][r].snap = b.snap /\ attempt[Other(s)][r].code = b.code
    BY <1>1 DEF AttemptStands
  <2>7. b.code \in Codes /\ (b.snap.state # "active" => b.snap.epoch + 2 <= MaxEpoch)
    BY <1>1 DEF AttemptStands
  <2>8. inviter' = inviter
    BY DEF Grows
  <2>9. Genuine(attempt[s][r].snap)'
    BY <1>0, <2>2
  <2> QED BY <1>0, <2>3, <2>4, <2>5, <2>6, <2>7, <2>8, <2>9 DEF AttemptStands
<1>3. ASSUME NEW t \in Sides, NEW q \in Requests, attempt'[t][q].at # "none"
      PROVE  AttemptStands(t, q)' /\ attempt[t][q].at # "none"
  <2>1. CASE t = s /\ q = r
    BY <1>2, <2>1
  <2>2. CASE ~(t = s /\ q = r)
    <3>1. attempt'[t][q] = attempt[t][q]
      BY <1>0, <2>2
    <3>2. attempt[Other(t)][q].at # "none" \/ attempt'[Other(t)][q].at = "none"
      BY <1>0, SideFacts
    <3>3. AttemptsStand
      BY DEF Core
    <3> QED BY <1>3, <3>1, <3>2, <3>3, AttemptKept
  <2> QED BY <2>1, <2>2
<1> QED BY <1>3 DEF AttemptsStand

(* Steps that move one consent and no row of the pair.                     *)
LEMMA ConsentStep ==
  ASSUME TypeOK, TypeOK', Core, NEW s \in Sides, NEW r \in Requests, NEW b \in Attempt,
         UNCHANGED <<history, result, outbox, pair, tomb, stale, leaving, inviter>>,
         attempt' = [attempt EXCEPT ![s][r] = b], attempt[s][r].at # "none",
         b.at # "none", b.snap = attempt[s][r].snap, b.code = attempt[s][r].code,
         attempt[s][r].at \in Retained => b.at \in Retained,
         attempt[s][r].admission => b.admission,
         inviter[b.code] = s => b.at \in Retained /\ b.at # "pending",
         b.admission => attempt[s][r].admission \/ attempt[Other(s)][r].at # "none",
         b.at = "active" => b.admission /\ b.cid = Target(b.snap)
  PROVE  Grows /\ Core'
<1>1. \A t \in Sides, q \in Requests : CellGrows(t, q)
  BY CellStep
<1>2. \A t \in Sides : SideStep(t)
  BY SideStill
<1>3. Grows
  BY <1>1, <1>2, SidesGrow
<1>4. /\ AttemptsStand'
      /\ \A t \in Sides, q \in Requests :
           attempt[t][q].at = "none" /\ attempt'[t][q].at # "none" => ~Outdated(t, q)'
  BY <1>3, CellStands
<1> QED BY <1>2, <1>3, <1>4, SidesCore

LEMMA CellAt ==
  ASSUME TypeOK, NEW s \in Sides, NEW r \in Requests,
         NEW v \in {"draft", "pending", "admitted", "active", "expired", "conflict"},
         attempt' = [attempt EXCEPT ![s][r].at = v]
  PROVE  \E b \in Attempt : /\ attempt' = [attempt EXCEPT ![s][r] = b]
                            /\ b = [at |-> v, snap |-> attempt[s][r].snap, code |-> attempt[s][r].code,
                                    admission |-> attempt[s][r].admission, cid |-> attempt[s][r].cid]
<1>1. PICK a, y, d, g, c : /\ attempt[s][r] = [at |-> a, snap |-> y, code |-> d, admission |-> g, cid |-> c]
                           /\ y \in Snapshot /\ d \in Codes \cup {None} /\ g \in BOOLEAN /\ c \in Epochs
  <2>1. PICK x : x = attempt[s][r]
    OBVIOUS
  <2>2. /\ x = [at |-> x.at, snap |-> x.snap, code |-> x.code, admission |-> x.admission, cid |-> x.cid]
        /\ x.snap \in Snapshot /\ x.code \in Codes \cup {None} /\ x.admission \in BOOLEAN /\ x.cid \in Epochs
    BY <2>1, AttemptFacts
  <2> QED BY <2>1, <2>2, Zenon
<1>2. PICK b : b = [attempt[s][r] EXCEPT !.at = v]
  OBVIOUS
<1>3. b = [at |-> v, snap |-> y, code |-> d, admission |-> g, cid |-> c]
  BY <1>1, <1>2
<1>4. b \in Attempt
  BY <1>1, <1>3 DEF Attempt
<1>5. attempt' = [attempt EXCEPT ![s][r] = b]
  BY <1>2
<1>6. attempt[s][r].snap = y /\ attempt[s][r].code = d /\ attempt[s][r].admission = g /\ attempt[s][r].cid = c
  BY <1>1
<1> QED BY <1>3, <1>4, <1>5, <1>6

LEMMA ConfirmStep ==
  ASSUME IInv, NEW s \in Sides, NEW r \in Requests, Confirm(s, r)
  PROVE  IInv' /\ Grows
<1>0. /\ UNCHANGED <<history, result, outbox, pair, tomb, stale, leaving, inviter>>
      /\ UNCHANGED <<wire, worker>> /\ outbox \subseteq outbox' /\ attempt[s][r].at = "draft"
      /\ attempt' = [attempt EXCEPT ![s][r].at = "pending"]
  BY DEF Confirm, Enqueued, coordinatorVars, sideVars, codeVars
<1>1. TypeOK /\ Core /\ ResultsStand
  BY DEF IInv, Core
<1>2. PICK b \in Attempt : /\ attempt' = [attempt EXCEPT ![s][r] = b]
                           /\ b = [at |-> "pending", snap |-> attempt[s][r].snap, code |-> attempt[s][r].code,
                                   admission |-> attempt[s][r].admission, cid |-> attempt[s][r].cid]
  BY <1>0, <1>1, CellAt
<1>3. attempt' \in [Sides -> [Requests -> Attempt]]
  BY <1>1, <1>2, CellUpdate
<1>4. TypeOK'
  BY <1>0, <1>1, <1>3 DEF Confirm, TypeOK, coordinatorVars, sideVars, codeVars
<1>5. /\ b.at = "pending" /\ b.snap = attempt[s][r].snap /\ b.code = attempt[s][r].code
      /\ b.admission = attempt[s][r].admission
  BY <1>2
<1>6. "pending" \in Retained /\ "draft" \notin Retained
  BY DEF Retained
<1>6a. inviter[b.code] # s
  BY <1>0, <1>1, <1>5, <1>6 DEF Core, AttemptsStand, AttemptStands
<1>7. Grows /\ Core'
  BY <1>0, <1>1, <1>2, <1>4, <1>5, <1>6, <1>6a, ConsentStep
<1> QED BY <1>0, <1>1, <1>4, <1>7, WorkersStill DEF IInv

LEMMA GiveUpStep ==
  ASSUME IInv, NEW s \in Sides, NEW r \in Requests, GiveUp(s, r)
  PROVE  IInv' /\ Grows
<1>0. /\ UNCHANGED <<history, result, outbox, pair, tomb, stale, leaving, inviter>>
      /\ UNCHANGED <<wire, worker>> /\ outbox \subseteq outbox' /\ attempt[s][r].at = "pending"
      /\ attempt' = [attempt EXCEPT ![s][r].at = "expired"]
  BY DEF GiveUp, coordinatorVars, sideVars, codeVars
<1>1. TypeOK /\ Core /\ ResultsStand
  BY DEF IInv, Core
<1>2. PICK b \in Attempt : /\ attempt' = [attempt EXCEPT ![s][r] = b]
                           /\ b = [at |-> "expired", snap |-> attempt[s][r].snap, code |-> attempt[s][r].code,
                                   admission |-> attempt[s][r].admission, cid |-> attempt[s][r].cid]
  BY <1>0, <1>1, CellAt
<1>3. attempt' \in [Sides -> [Requests -> Attempt]]
  BY <1>1, <1>2, CellUpdate
<1>4. TypeOK'
  BY <1>0, <1>1, <1>3 DEF GiveUp, TypeOK, coordinatorVars, sideVars, codeVars
<1>5. /\ b.at = "expired" /\ b.snap = attempt[s][r].snap /\ b.code = attempt[s][r].code
      /\ b.admission = attempt[s][r].admission
  BY <1>2
<1>6. "expired" \in Retained
  BY DEF Retained
<1>7. Grows /\ Core'
  BY <1>0, <1>1, <1>2, <1>4, <1>5, <1>6, ConsentStep
<1> QED BY <1>0, <1>1, <1>4, <1>7, WorkersStill DEF IInv

(* Failed: an attempt that is still pending ends.                          *)
LEMMA FailedRow ==
  ASSUME TypeOK, NEW s \in Sides, NEW r \in Requests, NEW v \in {"expired", "conflict"}, Failed(s, r, v)
  PROVE  \/ attempt' = attempt
         \/ /\ attempt[s][r].at = "pending"
            /\ \E b \in Attempt : /\ attempt' = [attempt EXCEPT ![s][r] = b]
                                  /\ b = [at |-> v, snap |-> attempt[s][r].snap, code |-> attempt[s][r].code,
                                          admission |-> attempt[s][r].admission, cid |-> attempt[s][r].cid]
<1>1. attempt \in [Sides -> [Requests -> Attempt]]
  BY DEF TypeOK
<1>2. attempt' = [attempt EXCEPT ![s][r].at = IF attempt[s][r].at = "pending" THEN v ELSE attempt[s][r].at]
  BY DEF Failed
<1>3. CASE attempt[s][r].at # "pending"
  <2>1. attempt' = [attempt EXCEPT ![s][r].at = attempt[s][r].at]
    BY <1>2, <1>3
  <2>2. [attempt[s][r] EXCEPT !.at = attempt[s][r].at] = attempt[s][r]
    BY <1>1 DEF Attempt
  <2> QED BY <1>1, <2>1, <2>2
<1>4. CASE attempt[s][r].at = "pending"
  <2>1. CASE v = "expired"
    <3>1. attempt' = [attempt EXCEPT ![s][r].at = "expired"]
      BY <1>2, <1>4, <2>1
    <3>2. \E b \in Attempt : /\ attempt' = [attempt EXCEPT ![s][r] = b]
                             /\ b = [at |-> "expired", snap |-> attempt[s][r].snap, code |-> attempt[s][r].code,
                                     admission |-> attempt[s][r].admission, cid |-> attempt[s][r].cid]
      BY <3>1, CellAt
    <3> QED BY <1>4, <2>1, <3>2
  <2>2. CASE v = "conflict"
    <3>1. attempt' = [attempt EXCEPT ![s][r].at = "conflict"]
      BY <1>2, <1>4, <2>2
    <3>2. \E b \in Attempt : /\ attempt' = [attempt EXCEPT ![s][r] = b]
                             /\ b = [at |-> "conflict", snap |-> attempt[s][r].snap, code |-> attempt[s][r].code,
                                     admission |-> attempt[s][r].admission, cid |-> attempt[s][r].cid]
      BY <3>1, CellAt
    <3> QED BY <1>4, <2>2, <3>2
  <2> QED BY <2>1, <2>2
<1> QED BY <1>3, <1>4

LEMMA FailedStep ==
  ASSUME TypeOK, TypeOK', Core, NEW s \in Sides, NEW r \in Requests, NEW v \in {"expired", "conflict"},
         UNCHANGED <<history, result, outbox, pair, tomb, stale, leaving, inviter>>, Failed(s, r, v)
  PROVE  Grows /\ Core'
<1>1. CASE attempt' # attempt
  <2>1. attempt[s][r].at = "pending"
    BY <1>1, FailedRow
  <2>2. PICK b \in Attempt : /\ attempt' = [attempt EXCEPT ![s][r] = b]
                             /\ b = [at |-> v, snap |-> attempt[s][r].snap, code |-> attempt[s][r].code,
                                     admission |-> attempt[s][r].admission, cid |-> attempt[s][r].cid]
    BY <1>1, FailedRow
  <2>3. /\ b.at = v /\ b.snap = attempt[s][r].snap /\ b.code = attempt[s][r].code
        /\ b.admission = attempt[s][r].admission
    BY <2>2
  <2>4. v \in Retained /\ v # "none" /\ v # "active"
    BY DEF Retained
  <2> QED BY <2>1, <2>2, <2>3, <2>4, ConsentStep
<1>2. CASE attempt' = attempt
  <2>1. UNCHANGED coreVars
    BY <1>2 DEF coreVars
  <2> QED BY <1>2, <2>1, CoreFrame, GrowsFrame
<1> QED BY <1>1, <1>2

LEMMA FailedTypes ==
  ASSUME TypeOK, NEW s \in Sides, NEW r \in Requests, NEW v \in {"expired", "conflict"}, Failed(s, r, v)
  PROVE  attempt' \in [Sides -> [Requests -> Attempt]]
<1>1. CASE attempt' = attempt
  BY <1>1 DEF TypeOK
<1>2. CASE attempt' # attempt
  <2>1. PICK b \in Attempt : attempt' = [attempt EXCEPT ![s][r] = b]
    BY <1>2, FailedRow
  <2> QED BY <2>1, CellUpdate
<1> QED BY <1>1, <1>2

LEMMA SendingStep ==
  ASSUME IInv, NEW s \in Sides, NEW m \in Message, Send(s, m), m.from = s, MessageStands(m),
         m.step \in {"admit", "commit", "disconnect"},
         UNCHANGED <<coordinatorVars, sideVars, attempt, leaving, codeVars, lapsed, faults>>
  PROVE  IInv' /\ Grows
<1>1. TypeOK /\ Core /\ ResultsStand /\ WireStands /\ WorkerStands
  BY DEF IInv, Core
<1>2. UNCHANGED coreVars /\ outbox' = outbox
  BY DEF coordinatorVars, sideVars, codeVars, coreVars
<1>3. Core' /\ Grows
  BY <1>2, StillCore
<1>4. wire' \subseteq Message /\ worker' \in [Sides -> Waits(outbox')]
  BY <1>1, <1>2, SendFacts
<1>5. TypeOK'
  BY <1>1, <1>4 DEF TypeOK, Waits, coordinatorVars, sideVars, codeVars
<1>6. MessageStands(m)'
  BY <1>1, <1>3, <1>5, MessageGrows
<1>7. WireStands' /\ WorkerStands'
  BY <1>1, <1>2, <1>3, <1>5, <1>6, SendStep
<1> QED BY <1>3, <1>5, <1>7 DEF IInv

(* Only the scanner has an attempt that waits, and what it reviewed is in  *)
(* order.                                                                  *)
LEMMA PendingMessage ==
  ASSUME IInv, NEW s \in Sides, NEW r \in Requests, NEW k \in {"admit", "commit"}, attempt[s][r].at = "pending",
         inviter[attempt[s][r].code] = Other(s), k = "commit" => attempt[s][r].admission,
         NEW m, m = [step |-> k, from |-> s, request |-> r, snap |-> attempt[s][r].snap, current |-> None]
  PROVE  m \in Message /\ MessageStands(m) /\ m.from = s /\ m.step = k
<1>1. AttemptStands(s, r) /\ attempt[s][r].snap \in Snapshot
  BY AttemptFacts DEF IInv, Core, AttemptsStand
<1>2. m \in Message
  BY <1>1 DEF Message
<1>3. /\ m.step = k /\ m.from = s /\ m.request = r /\ m.snap = attempt[s][r].snap /\ m.current = None
  OBVIOUS
<1>4. Genuine(m.snap)
  BY <1>1, <1>3 DEF AttemptStands
<1>5. AdmitStands(m)
  BY <1>3 DEF AdmitStands, Retained
<1>6. MessageStands(m)
  BY <1>3, <1>4, <1>5 DEF MessageStands
<1> QED BY <1>2, <1>3, <1>6

LEMMA PendingScans ==
  ASSUME IInv, NEW s \in Sides, NEW r \in Requests, attempt[s][r].at = "pending"
  PROVE  inviter[attempt[s][r].code] = Other(s)
<1>1. attempt[s][r].code \in Codes /\ inviter[attempt[s][r].code] # s
  BY DEF IInv, Core, AttemptsStand, AttemptStands
<1>2. inviter[attempt[s][r].code] \in Sides
  BY <1>1 DEF IInv, TypeOK
<1> QED BY <1>1, <1>2, SideFacts

LEMMA SendAdmitStep ==
  ASSUME IInv, NEW s \in Sides, NEW r \in Requests, SendAdmit(s, r)
  PROVE  IInv' /\ Grows
<1>1. PICK m : m = [step |-> "admit", from |-> s, request |-> r, snap |-> attempt[s][r].snap, current |-> None]
  OBVIOUS
<1>2. /\ Send(s, m) /\ attempt[s][r].at = "pending"
      /\ UNCHANGED <<coordinatorVars, sideVars, attempt, leaving, codeVars, lapsed, faults>>
  BY <1>1 DEF SendAdmit
<1>3. m \in Message /\ MessageStands(m) /\ m.from = s /\ m.step = "admit"
  BY <1>1, <1>2, PendingScans, PendingMessage
<1> QED BY <1>2, <1>3, SendingStep

LEMMA SendCommitStep ==
  ASSUME IInv, NEW s \in Sides, NEW r \in Requests, SendCommit(s, r)
  PROVE  IInv' /\ Grows
<1>1. PICK m : m = [step |-> "commit", from |-> s, request |-> r, snap |-> attempt[s][r].snap, current |-> None]
  OBVIOUS
<1>2. /\ Send(s, m) /\ attempt[s][r].at = "pending" /\ attempt[s][r].admission
      /\ UNCHANGED <<coordinatorVars, sideVars, attempt, leaving, codeVars, lapsed, faults>>
  BY <1>1 DEF SendCommit
<1>3. m \in Message /\ MessageStands(m) /\ m.from = s /\ m.step = "commit"
  BY <1>1, <1>2, PendingScans, PendingMessage
<1> QED BY <1>2, <1>3, SendingStep

LEMMA SendDisconnectStep ==
  ASSUME IInv, NEW s \in Sides, NEW cid \in leaving[s], SendDisconnect(s, cid)
  PROVE  IInv' /\ Grows
<1>1. PICK x : x = [epoch |-> cid, state |-> "active", cid |-> cid]
  OBVIOUS
<1>2. PICK m : m = [step |-> "disconnect", from |-> s, request |-> None, snap |-> x, current |-> None]
  OBVIOUS
<1>3. /\ Send(s, m)
      /\ UNCHANGED <<coordinatorVars, sideVars, attempt, leaving, codeVars, lapsed, faults>>
  BY <1>1, <1>2 DEF SendDisconnect
<1>4. cid \in 1 .. Len(history) /\ history[cid].state = "active"
  BY DEF IInv, Core, TombsStand, TombsAt
<1>5. history[cid].cid = cid
  BY <1>4 DEF IInv, Core, EventsStand, Begins, Ends
<1>6. cid \in Epochs
  BY DEF IInv, TypeOK
<1>7. x \in Snapshot /\ x.epoch = cid /\ x.state = "active"
  BY <1>1, <1>6 DEF Snapshot
<1>8. Genuine(x)
  BY <1>1, <1>4, <1>5, <1>7 DEF Genuine, EventSnapshot
<1>9. m \in Message
  BY <1>2, <1>7 DEF Message
<1>10. m.step = "disconnect" /\ m.from = s /\ m.snap = x
  BY <1>2
<1>11. MessageStands(m)
  BY <1>7, <1>8, <1>10 DEF MessageStands
<1> QED BY <1>3, <1>9, <1>10, <1>11, SendingStep

LEMMA DeferStep ==
  ASSUME IInv, NEW s \in Sides, Defer(s)
  PROVE  IInv' /\ Grows
<1>1. TypeOK /\ Core /\ ResultsStand /\ WireStands /\ WorkerStands
  BY DEF IInv, Core
<1>2. UNCHANGED coreVars /\ outbox' = outbox /\ wire' = wire /\ Done(s)
  BY DEF coordinatorVars, sideVars, codeVars, coreVars, Defer, Done
<1>3. Core' /\ Grows
  BY <1>2, StillCore
<1>4. \A t \in Sides : worker[t].job \in outbox' \cup {None}
  BY <1>1, <1>2, WorkerFacts
<1>5. worker' \in [Sides -> Waits(outbox')]
  BY <1>1, <1>2, <1>4, DoneFacts
<1>6. faults' \in 0 .. MaxFaults
  BY <1>1, FaultFacts DEF Defer
<1>7. TypeOK'
  BY <1>1, <1>5, <1>6 DEF Defer, TypeOK, Waits, coordinatorVars, sideVars, codeVars
<1>8. WireStands' /\ WorkerStands'
  BY <1>1, <1>2, <1>3, <1>7, DoneStep
<1> QED BY <1>3, <1>7, <1>8 DEF IInv

LEMMA TakeRefusalStep ==
  ASSUME IInv, NEW s \in Sides, TakeRefusal(s)
  PROVE  IInv' /\ Grows
<1>1. TypeOK /\ Core /\ ResultsStand /\ WireStands /\ WorkerStands
  BY DEF IInv, Core
<1>2. /\ UNCHANGED <<history, result, outbox, pair, tomb, stale, leaving, inviter>>
      /\ outbox' = outbox /\ wire' = wire /\ Done(s) /\ worker[s].answer \in {"refused", "expired"}
  BY DEF coordinatorVars, sideVars, codeVars, TakeRefusal
<1>3. \A t \in Sides : worker[t].job \in outbox' \cup {None}
  BY <1>1, <1>2, WorkerFacts
<1>4. worker' \in [Sides -> Waits(outbox')]
  BY <1>1, <1>2, <1>3, DoneFacts
<1>5. ASSUME attempt' \in [Sides -> [Requests -> Attempt]]
      PROVE  TypeOK'
  BY <1>1, <1>4, <1>5 DEF TakeRefusal, TypeOK, Waits, coordinatorVars, sideVars, codeVars
<1>6. CASE attempt' = attempt
  <2>1. UNCHANGED coreVars
    BY <1>2, <1>6 DEF coreVars
  <2>2. TypeOK'
    BY <1>1, <1>5, <1>6 DEF TypeOK
  <2>3. Core' /\ Grows
    BY <2>1, StillCore
  <2> QED BY <1>1, <1>2, <2>2, <2>3, DoneStep DEF IInv
<1>7. CASE attempt' # attempt
  <2>1. PICK v \in {"expired", "conflict"} : v = IF worker[s].answer = "expired" THEN "expired" ELSE "conflict"
    OBVIOUS
  <2>2. worker[s].msg.step \in {"admit", "commit"} /\ Failed(s, worker[s].msg.request, v)
    BY <1>7, <2>1 DEF TakeRefusal
  <2>3. worker[s] # Idle
    BY <1>2, IdleFacts
  <2>4. MessageStands(worker[s].msg)
    BY SMTT(30), <1>1, <2>3 DEF WorkerStands, WorkerAt
  <2>5. PICK r \in Requests : r = worker[s].msg.request
    BY <2>2, <2>4 DEF MessageStands, AdmitStands
  <2>6. Failed(s, r, v)
    BY <2>2, <2>5
  <2>7. TypeOK'
    BY <1>1, <1>5, <2>6, FailedTypes
  <2>8. Grows /\ Core'
    BY <1>1, <1>2, <2>6, <2>7, FailedStep
  <2> QED BY <1>1, <1>2, <2>7, <2>8, DoneStep DEF IInv
<1> QED BY <1>6, <1>7

(* Steps that move rows of the pair and perhaps one consent.               *)
LEMMA ApplyTypes ==
  ASSUME TypeOK, NEW s \in Sides, NEW x \in Snapshot, Apply(s, x)
  PROVE  /\ pair' \in [Sides -> Snapshot] /\ tomb' \in [Sides -> SUBSET Epochs]
         /\ stale' \in [Sides -> SUBSET (Codes \cup Requests)]
<1>1. pair \in [Sides -> Snapshot] /\ tomb \in [Sides -> SUBSET Epochs] /\ stale \in [Sides -> SUBSET (Codes \cup Requests)]
  BY DEF TypeOK
<1>2. Buried(s, x) \in SUBSET Epochs
  BY <1>1 DEF Buried, Snapshot
<1>3. Dated(s) \in SUBSET (Codes \cup Requests)
  BY DEF Dated
<1>4. tomb' = [tomb EXCEPT ![s] = Buried(s, x)]
  BY DEF Apply
<1>5. PICK y \in Snapshot : pair' = [pair EXCEPT ![s] = y]
  BY <1>1 DEF Apply
<1>6. PICK z \in SUBSET (Codes \cup Requests) : stale' = [stale EXCEPT ![s] = z]
  <2>1. stale' = [stale EXCEPT ![s] =
         IF Buried(s, x) # tomb[s] /\ x.epoch >= pair[s].epoch THEN stale[s] \cup Dated(s) ELSE stale[s]]
    BY DEF Apply
  <2>2. stale[s] \cup Dated(s) \in SUBSET (Codes \cup Requests) /\ stale[s] \in SUBSET (Codes \cup Requests)
    BY <1>1, <1>3
  <2> QED BY <2>1, <2>2
<1> QED BY <1>1, <1>2, <1>4, <1>5, <1>6

LEMMA AppliesSides ==
  ASSUME TypeOK, Core, NEW s \in Sides, NEW x \in Snapshot, Genuine(x), Apply(s, x), UNCHANGED <<history, leaving>>
  PROVE  \A t \in Sides : SideStep(t)
<1> TAKE t \in Sides
<1>1. CASE t = s
  BY <1>1, SideApplies
<1>2. CASE t # s
  <2>1. pair'[t] = pair[t] /\ tomb'[t] = tomb[t] /\ stale'[t] = stale[t]
    BY <1>2, ApplyFacts
  <2> QED BY <2>1, SideStill
<1> QED BY <1>1, <1>2

LEMMA RowsStep ==
  ASSUME TypeOK, TypeOK', Core, UNCHANGED <<history, result, outbox, attempt, inviter>>, \A t \in Sides : SideStep(t)
  PROVE  Grows /\ Core'
<1>1. \A t \in Sides, q \in Requests : CellGrows(t, q)
  BY DEF CellGrows
<1>2. Grows
  BY <1>1, SidesGrow
<1>3. AttemptsStand'
  BY <1>2, AttemptsKept DEF Core
<1> QED BY <1>2, <1>3, SidesCore

LEMMA RowsConsentStep ==
  ASSUME TypeOK, TypeOK', Core, NEW s \in Sides, NEW r \in Requests, NEW b \in Attempt,
         UNCHANGED <<history, result, outbox, inviter>>, \A t \in Sides : SideStep(t),
         attempt' = [attempt EXCEPT ![s][r] = b], attempt[s][r].at # "none",
         b.at # "none", b.snap = attempt[s][r].snap, b.code = attempt[s][r].code,
         attempt[s][r].at \in Retained => b.at \in Retained,
         attempt[s][r].admission => b.admission,
         inviter[b.code] = s => b.at \in Retained /\ b.at # "pending",
         b.admission => attempt[s][r].admission \/ attempt[Other(s)][r].at # "none",
         b.at = "active" => b.admission /\ b.cid = Target(b.snap)
  PROVE  Grows /\ Core'
<1>1. \A t \in Sides, q \in Requests : CellGrows(t, q)
  BY CellStep
<1>2. Grows
  BY <1>1, SidesGrow
<1>3. /\ AttemptsStand'
      /\ \A t \in Sides, q \in Requests :
           attempt[t][q].at = "none" /\ attempt'[t][q].at # "none" => ~Outdated(t, q)'
  BY <1>2, CellStands
<1> QED BY <1>2, <1>3, SidesCore

LEMMA ObserveStep ==
  ASSUME IInv, Observe
  PROVE  IInv' /\ Grows
<1>1. TypeOK /\ Core /\ ResultsStand /\ WireStands /\ WorkerStands
  BY DEF IInv, Core
<1>2. /\ Apply("large", pair["small"]) /\ UNCHANGED <<history, result, outbox, attempt, leaving, inviter>>
      /\ UNCHANGED <<wire, worker>>
  BY DEF Observe, coordinatorVars, codeVars
<1>3. PICK x \in Snapshot : x = pair["small"]
  BY <1>1, Shapes, SideFacts
<1>4. Genuine(x) /\ Apply("large", x)
  BY <1>1, <1>2, <1>3, SideFacts DEF Core, PairsStand
<1>5. TypeOK'
  <2>1. /\ pair' \in [Sides -> Snapshot] /\ tomb' \in [Sides -> SUBSET Epochs]
        /\ stale' \in [Sides -> SUBSET (Codes \cup Requests)]
    BY <1>1, <1>4, SideFacts, ApplyTypes
  <2> QED BY <1>1, <2>1 DEF Observe, TypeOK, coordinatorVars, codeVars
<1>6. \A t \in Sides : SideStep(t)
  BY <1>1, <1>2, <1>4, SideFacts, AppliesSides
<1>7. Grows /\ Core'
  BY <1>1, <1>2, <1>5, <1>6, RowsStep
<1> QED BY <1>1, <1>2, <1>5, <1>7, WorkersStill DEF IInv

(* No reviewed state leads to the epoch after a beginning.                 *)
LEMMA TargetSkips ==
  ASSUME TypeOK, EventsStand, NEW y \in Snapshot, Genuine(y), NEW e \in 1 .. Len(history), history[e].state = "active"
  PROVE  Target(y) # e + 1
<1>0. Len(history) \in Nat /\ e \in Nat /\ e >= 1 /\ y.epoch \in Nat
  BY Shapes, SnapshotFacts
<1> SUFFICES ASSUME Target(y) = e + 1
             PROVE  FALSE
  OBVIOUS
<1>1. CASE y = Empty
  <2>1. Target(y) = 1
    BY <1>1 DEF Target, Empty
  <2> QED BY <1>0, <2>1
<1>2. CASE y # Empty
  <2>1. y.epoch \in 1 .. Len(history) /\ y.state = history[y.epoch].state
    BY <1>2 DEF Genuine, EventSnapshot
  <2>2. CASE y.state = "active"
    <3>0. y.epoch = e + 1
      BY <2>2 DEF Target
    <3>1. y.epoch \in 1 .. Len(history) /\ y.epoch > 1 /\ y.epoch - 1 = e
      BY <1>0, <2>1, <3>0
    <3>2. Begins(y.epoch) /\ history[y.epoch - 1].state = "active"
      BY <2>1, <2>2, <3>1 DEF EventsStand, Ends
    <3> QED BY <3>1, <3>2 DEF Begins, Ends
  <2>3. CASE y.state # "active"
    <3>1. y.epoch = e
      BY <1>0, <2>3 DEF Target
    <3> QED BY <2>1, <2>3, <3>1
  <2> QED BY <2>2, <2>3
<1> QED BY <1>1, <1>2

LEMMA ActivePair ==
  ASSUME TypeOK, Core, NEW s \in Sides, pair[s].state = "active"
  PROVE  /\ pair[s].epoch \in 1 .. Len(history) /\ history[pair[s].epoch].state = "active"
         /\ pair[s].cid = pair[s].epoch
<1>1. Genuine(pair[s])
  BY DEF Core, PairsStand
<1>2. /\ pair[s].epoch \in 1 .. Len(history) /\ history[pair[s].epoch].state = "active"
      /\ history[pair[s].epoch].cid = pair[s].cid
  BY <1>1 DEF Genuine, Empty, EventSnapshot
<1> QED BY <1>2 DEF Core, EventsStand, Begins, Ends

LEMMA DisconnectStep ==
  ASSUME IInv, NEW s \in Sides, Disconnect(s)
  PROVE  IInv' /\ Grows
<1>1. TypeOK /\ Core /\ ResultsStand /\ WireStands /\ WorkerStands
  BY DEF IInv, Core
<1> DEFINE e == pair[s].epoch
<1>2. /\ e \in 1 .. Len(history) /\ history[e].state = "active" /\ pair[s].cid = e
  BY <1>1, ActivePair DEF Disconnect, Usable
<1>3. /\ tomb' = [tomb EXCEPT ![s] = tomb[s] \cup {e}]
      /\ stale' = [stale EXCEPT ![s] = stale[s] \cup Dated(s)]
      /\ leaving' = [leaving EXCEPT ![s] = leaving[s] \cup {e}]
      /\ UNCHANGED <<history, result, outbox, pair, attempt, inviter>> /\ UNCHANGED <<wire, worker>>
  BY <1>2 DEF Disconnect, coordinatorVars, codeVars
<1>4. e \in Epochs /\ e \in Nat /\ Len(history) \in Nat
  BY <1>1, Shapes, SnapshotFacts DEF Snapshot
<1>5. Dated(s) \in SUBSET (Codes \cup Requests)
  BY DEF Dated
<1>6. tomb \in [Sides -> SUBSET Epochs] /\ stale \in [Sides -> SUBSET (Codes \cup Requests)] /\ leaving \in [Sides -> SUBSET Epochs]
  BY <1>1 DEF TypeOK
<1> HIDE DEF e
<1>7. TypeOK'
  <2>1. tomb' \in [Sides -> SUBSET Epochs]
    BY <1>3, <1>4, <1>6
  <2>2. leaving' \in [Sides -> SUBSET Epochs]
    BY <1>3, <1>4, <1>6
  <2>3. stale' \in [Sides -> SUBSET (Codes \cup Requests)]
    BY <1>3, <1>5, <1>6
  <2> QED BY <1>1, <2>1, <2>2, <2>3 DEF Disconnect, TypeOK, coordinatorVars, codeVars
<1>8. ASSUME NEW t \in Sides, t # s
      PROVE  SideStep(t)
  <2>1. pair'[t] = pair[t] /\ tomb'[t] = tomb[t] /\ stale'[t] = stale[t] /\ leaving'[t] = leaving[t]
    BY <1>3, <1>6, <1>8
  <2> QED BY <1>1, <1>3, <2>1, SideStill
<1>9. SideStep(s)
  <2>1. /\ pair'[s] = pair[s] /\ tomb'[s] = tomb[s] \cup {e} /\ stale'[s] = stale[s] \cup Dated(s)
        /\ leaving'[s] = leaving[s] \cup {e}
    BY <1>3, <1>6
  <2>2. Genuine(pair[s]) /\ TombsAt(s)
    BY <1>1 DEF Core, PairsStand, TombsStand
  <2>3. e = pair[s].epoch
    BY DEF e
  <2>4. TombsAt(s)'
    <3>1. ASSUME NEW c \in tomb'[s]
          PROVE  c \in 1 .. pair'[s].epoch /\ (c \in leaving'[s] \/ Ended(c)' # {})
      <4>1. Ended(c)' = Ended(c)
        BY <1>3 DEF Ended
      <4>2. CASE c \in tomb[s]
        BY <2>1, <2>2, <4>1, <4>2 DEF TombsAt
      <4>3. CASE c = e
        BY <1>2, <1>4, <2>1, <2>3, <4>3
      <4> QED BY <2>1, <4>2, <4>3
    <3>2. \A c \in leaving'[s] : c \in 1 .. Len(history') /\ history'[c].state = "active"
      BY <1>2, <1>3, <2>1, <2>2 DEF TombsAt
    <3>3. \A f \in 1 .. pair'[s].epoch : history'[f].state = "disconnected" => history'[f].cid \in tomb'[s]
      BY <1>3, <2>1, <2>2 DEF TombsAt
    <3>4. pair'[s].cid \in leaving'[s]
      BY <1>2, <2>1
    <3> QED BY <3>1, <3>2, <3>3, <3>4 DEF TombsAt
  <2>5. ASSUME NEW r \in Requests, attempt[s][r].at # "none"
        PROVE  e >= Target(attempt[s][r].snap)
    <3>1. PICK y \in Snapshot : y = attempt[s][r].snap
      BY <1>1, AttemptFacts
    <3>2. Genuine(y) /\ Target(y) <= e + 1 /\ Target(y) \in Nat
      BY <1>1, <2>3, <2>5, <3>1, SnapshotFacts DEF Core, AttemptsStand, AttemptStands
    <3>3. Target(y) # e + 1
      BY <1>1, <1>2, <3>2, TargetSkips DEF Core
    <3> QED BY <1>4, <3>1, <3>2, <3>3
  <2>6. e \in tomb'[s] /\ tomb[s] \subseteq tomb'[s] /\ pair'[s].epoch >= pair[s].epoch
    BY <1>4, <2>1, <2>3
  <2> QED BY <2>1, <2>2, <2>4, <2>5, <2>6 DEF SideStep
<1>10. Grows /\ Core'
  BY <1>1, <1>3, <1>7, <1>8, <1>9, RowsStep
<1> QED BY <1>1, <1>3, <1>7, <1>10, WorkersStill DEF IInv

LEMMA CellActive ==
  ASSUME TypeOK, NEW s \in Sides, NEW r \in Requests, NEW x \in Snapshot,
         attempt' = [attempt EXCEPT ![s][r].at = "active", ![s][r].cid = x.cid]
  PROVE  \E b \in Attempt : /\ attempt' = [attempt EXCEPT ![s][r] = b]
                            /\ b = [at |-> "active", snap |-> attempt[s][r].snap, code |-> attempt[s][r].code,
                                    admission |-> attempt[s][r].admission, cid |-> x.cid]
<1>1. PICK a1 : a1 = [attempt EXCEPT ![s][r].at = "active"]
  OBVIOUS
<1>2. attempt' = [a1 EXCEPT ![s][r].cid = x.cid]
  BY <1>1
<1>3. attempt \in [Sides -> [Requests -> Attempt]]
  BY DEF TypeOK
<1>4. PICK a \in Attempt : a = attempt[s][r]
  BY <1>3
<1>5. PICK y, d, g, c : /\ a = [at |-> a.at, snap |-> y, code |-> d, admission |-> g, cid |-> c]
                        /\ y \in Snapshot /\ d \in Codes \cup {None} /\ g \in BOOLEAN
  BY DEF Attempt
<1>6. PICK b1 : b1 = [a EXCEPT !.at = "active"]
  OBVIOUS
<1>7. b1 = [at |-> "active", snap |-> y, code |-> d, admission |-> g, cid |-> c]
  BY <1>5, <1>6
<1>8. PICK b : b = [b1 EXCEPT !.cid = x.cid]
  OBVIOUS
<1>9. b = [at |-> "active", snap |-> y, code |-> d, admission |-> g, cid |-> x.cid]
  BY <1>7, <1>8
<1>10. b \in Attempt
  BY <1>5, <1>9 DEF Attempt, Snapshot
<1>11. a1 = [attempt EXCEPT ![s][r] = b1]
  BY <1>1, <1>4, <1>6
<1>12. a1[s][r] = b1
  BY <1>3, <1>11
<1>13. attempt' = [a1 EXCEPT ![s][r] = b]
  BY <1>2, <1>8, <1>12
<1>14. attempt' = [attempt EXCEPT ![s][r] = b]
  BY <1>3, <1>11, <1>13
<1>15. attempt[s][r].snap = y /\ attempt[s][r].code = d /\ attempt[s][r].admission = g
  BY <1>4, <1>5
<1> QED BY <1>9, <1>10, <1>14, <1>15

LEMMA WaitingFacts ==
  ASSUME IInv, NEW s \in Sides, worker[s].answer # "waiting"
  PROVE  /\ worker[s].msg \in Message /\ worker[s].msg.from = s
         /\ MessageStands(worker[s].msg) /\ AnswerStands(s) /\ JobStands(s)
         /\ worker[s].snap \in Snapshot /\ worker[s].current \in Snapshot
<1>1. worker[s] # Idle
  BY IdleFacts
<1>2. WorkerAt(s) /\ TypeOK
  BY DEF IInv, WorkerStands
<1> QED BY <1>1, <1>2, WorkerFacts DEF WorkerAt

LEMMA DoneTypes ==
  ASSUME TypeOK, NEW s \in Sides, Done(s), outbox' = outbox
  PROVE  worker' \in [Sides -> Waits(outbox')]
<1>1. \A t \in Sides : worker[t].job \in outbox' \cup {None}
  BY WorkerFacts
<1> QED BY <1>1, DoneFacts

LEMMA TakeDisconnectStep ==
  ASSUME IInv, NEW s \in Sides, TakeDisconnect(s)
  PROVE  IInv' /\ Grows
<1>1. TypeOK /\ Core /\ ResultsStand /\ WireStands /\ WorkerStands
  BY DEF IInv, Core
<1>2. PICK x \in Snapshot : x = worker[s].snap
  BY <1>1, WorkerFacts
<1>3. /\ worker[s].answer = "result" /\ worker[s].msg.step = "disconnect" /\ Apply(s, x) /\ Done(s)
      /\ leaving' = [leaving EXCEPT ![s] = leaving[s] \ {x.cid}]
      /\ UNCHANGED <<history, result, outbox, attempt, inviter>> /\ wire' = wire
  BY <1>2 DEF TakeDisconnect, coordinatorVars, codeVars
<1>4. Genuine(x) /\ x.state = "disconnected"
  BY <1>2, <1>3, WaitingFacts DEF AnswerStands
<1>5. leaving \in [Sides -> SUBSET Epochs] /\ leaving' \in [Sides -> SUBSET Epochs]
  BY <1>1, <1>3 DEF TypeOK
<1>6. TypeOK'
  <2>1. /\ pair' \in [Sides -> Snapshot] /\ tomb' \in [Sides -> SUBSET Epochs]
        /\ stale' \in [Sides -> SUBSET (Codes \cup Requests)]
    BY <1>1, <1>3, ApplyTypes
  <2>2. worker' \in [Sides -> Waits(outbox')]
    BY <1>1, <1>3, DoneTypes
  <2> QED BY <1>1, <1>5, <2>1, <2>2 DEF TakeDisconnect, TypeOK, Waits, coordinatorVars, codeVars
<1>7. ASSUME NEW t \in Sides, t # s
      PROVE  SideStep(t)
  <2>1. pair'[t] = pair[t] /\ tomb'[t] = tomb[t] /\ stale'[t] = stale[t] /\ leaving'[t] = leaving[t]
    BY <1>1, <1>3, <1>5, <1>7, ApplyFacts
  <2> QED BY <1>1, <1>3, <2>1, SideStill
<1>8. SideStep(s)
  <2>0. leaving'[s] = leaving[s] \ {x.cid}
    BY <1>3, <1>5
  <2>1. /\ pair'[s] \in Snapshot /\ Genuine(pair'[s])
        /\ pair'[s].epoch >= pair[s].epoch /\ tomb[s] \subseteq tomb'[s]
        /\ \A c \in tomb'[s] : c \in 1 .. pair'[s].epoch /\ (c \in leaving[s] \/ Ended(c) # {})
        /\ \A e \in 1 .. pair'[s].epoch : history[e].state = "disconnected" => history[e].cid \in tomb'[s]
        /\ pair'[s].state = "active" /\ pair'[s].cid \in tomb'[s] =>
             pair'[s].cid \in leaving[s] /\ pair'[s] = pair[s]
        /\ pair'[s].epoch >= x.epoch
    BY <1>1, <1>3, <1>4, ApplyStands
  <2>2. \/ stale'[s] = stale[s]
        \/ /\ stale'[s] = stale[s] \cup Dated(s)
           /\ \E c \in tomb'[s] : \A r \in Requests :
                attempt[s][r].at # "none" => c >= Target(attempt[s][r].snap)
    BY <1>1, <1>3, <1>4, ApplyStands
  <2>3. /\ x.epoch \in 1 .. Len(history) /\ history[x.epoch].state = "disconnected"
        /\ history[x.epoch].cid = x.cid /\ x.cid = x.epoch - 1
    <3>1. /\ x.epoch \in 1 .. Len(history) /\ history[x.epoch].state = "disconnected"
          /\ history[x.epoch].cid = x.cid
      BY <1>4 DEF Genuine, Empty, EventSnapshot
    <3> QED BY <1>1, <3>1 DEF Core, EventsStand, Begins, Ends
  <2>4. x.epoch \in Ended(x.cid)
    BY <2>3 DEF Ended
  <2>5. ASSUME NEW c \in tomb'[s]
        PROVE  c \in 1 .. pair'[s].epoch /\ (c \in leaving'[s] \/ Ended(c)' # {})
    <3>1. Ended(c)' = Ended(c)
      BY <1>3 DEF Ended
    <3> QED BY <2>0, <2>1, <2>4, <3>1
  <2>6. \A c \in leaving'[s] : c \in 1 .. Len(history') /\ history'[c].state = "active"
    BY <1>1, <1>3, <2>0 DEF Core, TombsStand, TombsAt
  <2>7. ASSUME pair'[s].state = "active", pair'[s].cid \in tomb'[s]
        PROVE  pair'[s].cid \in leaving'[s]
    <3>1. pair'[s].cid \in leaving[s] /\ pair'[s] = pair[s]
      BY <2>1, <2>7
    <3>2. pair[s].cid = pair[s].epoch
      BY <1>1, <2>7, <3>1, ActivePair
    <3>3. x.epoch \in Nat /\ pair[s].epoch \in Nat
      BY <1>1, Shapes, SnapshotFacts
    <3>4. pair[s].cid # x.cid
      BY <2>1, <2>3, <3>1, <3>2, <3>3
    <3> QED BY <2>0, <3>1, <3>4
  <2>8. TombsAt(s)'
    BY <1>3, <2>1, <2>5, <2>6, <2>7 DEF TombsAt
  <2> QED BY <2>1, <2>2, <2>8 DEF SideStep
<1>9. Grows /\ Core'
  BY <1>1, <1>3, <1>6, <1>7, <1>8, RowsStep
<1> QED BY <1>1, <1>3, <1>6, <1>9, DoneStep DEF IInv

LEMMA TakeConnectStep ==
  ASSUME IInv, NEW s \in Sides, TakeConnect(s)
  PROVE  IInv' /\ Grows
<1>1. TypeOK /\ Core /\ ResultsStand /\ WireStands /\ WorkerStands
  BY DEF IInv, Core
<1>2. /\ worker[s].answer = "result" /\ worker[s].msg.step = "commit" /\ Done(s)
      /\ UNCHANGED <<history, result, outbox, leaving, inviter>> /\ wire' = wire
  BY DEF TakeConnect, coordinatorVars, codeVars
<1>3. PICK r \in Requests : r = worker[s].msg.request
  BY <1>2, WaitingFacts DEF MessageStands, AdmitStands
<1>4. PICK x \in Snapshot : x = worker[s].snap
  BY <1>1, WorkerFacts
<1>5. PICK y \in Snapshot : y = worker[s].current
  BY <1>1, WorkerFacts
<1>6. /\ result[r] # 0 /\ x = EventSnapshot(result[r]) /\ Genuine(y)
      /\ attempt[s][r].at \in Retained /\ attempt[s][r].at # "none" /\ attempt[s][r].admission
      /\ inviter[attempt[s][r].code] = Other(s)
  BY <1>2, <1>3, <1>4, <1>5, WaitingFacts DEF AnswerStands, MessageStands, AdmitStands, Retained
<1>7. /\ result[r] \in 1 .. Len(history) /\ x.epoch = result[r] /\ x.state = "active"
      /\ Target(attempt[s][r].snap) = result[r] /\ x.cid = result[r]
  <2>1. /\ result[r] \in 1 .. Len(history) /\ history[result[r]].state = "active"
        /\ Target(attempt[s][r].snap) = result[r]
    BY <1>1, <1>6 DEF ResultsStand
  <2>2. history[result[r]].cid = result[r]
    BY <1>1, <2>1 DEF Core, EventsStand, Begins, Ends
  <2> QED BY <1>6, <2>1, <2>2 DEF EventSnapshot
<1>8. Genuine(x)
  BY <1>6, <1>7 DEF Genuine
<1>9. worker' \in [Sides -> Waits(outbox')]
  BY <1>1, <1>2, DoneTypes
<1>10. CASE Activates(x, attempt[s][r].snap)
  <2>1. PICK z \in Snapshot : z = Result(worker[s]) /\ Genuine(z)
    BY SMTT(30), <1>4, <1>5, <1>6, <1>8, EmptyFacts DEF Result
  <2>2. Apply(s, z)
    BY <1>3, <1>4, <1>10, <2>1 DEF TakeConnect
  <2>3. /\ pair' \in [Sides -> Snapshot] /\ tomb' \in [Sides -> SUBSET Epochs]
        /\ stale' \in [Sides -> SUBSET (Codes \cup Requests)]
    BY <1>1, <2>2, ApplyTypes
  <2>4. \A t \in Sides : SideStep(t)
    BY <1>1, <1>2, <2>1, <2>2, AppliesSides
  <2>5. CASE attempt[s][r].at # "pending"
    <3>1. attempt' = attempt
      BY <1>3, <1>4, <1>10, <2>5 DEF TakeConnect
    <3>2. TypeOK'
      BY <1>1, <1>9, <2>3, <3>1 DEF TakeConnect, TypeOK, Waits, coordinatorVars, codeVars
    <3>3. Grows /\ Core'
      BY <1>1, <1>2, <2>4, <3>1, <3>2, RowsStep
    <3> QED BY <1>1, <1>2, <3>2, <3>3, DoneStep DEF IInv
  <2>6. CASE attempt[s][r].at = "pending"
    <3>1. attempt' = [attempt EXCEPT ![s][r].at = "active", ![s][r].cid = x.cid]
      BY <1>3, <1>4, <1>10, <2>6 DEF TakeConnect
    <3>2. PICK b \in Attempt :
             /\ attempt' = [attempt EXCEPT ![s][r] = b]
             /\ b = [at |-> "active", snap |-> attempt[s][r].snap, code |-> attempt[s][r].code,
                     admission |-> attempt[s][r].admission, cid |-> x.cid]
      BY <1>1, <3>1, CellActive
    <3>3. attempt' \in [Sides -> [Requests -> Attempt]]
      BY <1>1, <3>2, CellUpdate
    <3>4. TypeOK'
      BY <1>1, <1>9, <2>3, <3>3 DEF TakeConnect, TypeOK, Waits, coordinatorVars, codeVars
    <3>5. /\ b.at = "active" /\ b.snap = attempt[s][r].snap /\ b.code = attempt[s][r].code
          /\ b.admission = attempt[s][r].admission /\ b.cid = x.cid
      BY <3>2
    <3>6. "active" \in Retained /\ b.cid = Target(b.snap)
      BY <1>7, <3>5 DEF Retained
    <3>7. Grows /\ Core'
      BY <1>1, <1>2, <1>6, <2>4, <3>2, <3>4, <3>5, <3>6, RowsConsentStep
    <3> QED BY SMTT(30), <1>1, <1>2, <3>4, <3>7, DoneStep DEF IInv
  <2> QED BY <2>5, <2>6
<1>11. CASE ~Activates(x, attempt[s][r].snap)
  <2>1. PICK v \in {"expired", "conflict"} : v = "conflict"
    OBVIOUS
  <2>2. Failed(s, r, v) /\ UNCHANGED <<pair, tomb, stale>>
    BY <1>3, <1>4, <1>11, <2>1 DEF TakeConnect, sideVars
  <2>3. attempt' \in [Sides -> [Requests -> Attempt]]
    BY <1>1, <2>2, FailedTypes
  <2>4. TypeOK'
    BY <1>1, <1>9, <2>2, <2>3 DEF TakeConnect, TypeOK, Waits, coordinatorVars, codeVars
  <2>5. Grows /\ Core'
    BY <1>1, <1>2, <2>2, <2>4, FailedStep
  <2> QED BY <1>1, <1>2, <2>4, <2>5, DoneStep DEF IInv
<1> QED BY SMTT(30), <1>10, <1>11

LEMMA CellAdmitted ==
  ASSUME TypeOK, NEW s \in Sides, NEW r \in Requests, attempt' = [attempt EXCEPT ![s][r].admission = TRUE]
  PROVE  \E b \in Attempt : /\ attempt' = [attempt EXCEPT ![s][r] = b]
                            /\ b = [at |-> attempt[s][r].at, snap |-> attempt[s][r].snap, code |-> attempt[s][r].code,
                                    admission |-> TRUE, cid |-> attempt[s][r].cid]
<1>1. PICK a, y, d, g, c : /\ attempt[s][r] = [at |-> a, snap |-> y, code |-> d, admission |-> g, cid |-> c]
                           /\ y \in Snapshot /\ d \in Codes \cup {None} /\ c \in Epochs
                           /\ a \in {"none", "draft", "pending", "admitted", "active", "expired", "conflict"}
  <2>1. PICK x : x = attempt[s][r]
    OBVIOUS
  <2>2. /\ x = [at |-> x.at, snap |-> x.snap, code |-> x.code, admission |-> x.admission, cid |-> x.cid]
        /\ x.snap \in Snapshot /\ x.code \in Codes \cup {None} /\ x.cid \in Epochs
        /\ x.at \in {"none", "draft", "pending", "admitted", "active", "expired", "conflict"}
    BY <2>1, AttemptFacts
  <2> QED BY <2>1, <2>2, Zenon
<1>2. PICK b : b = [attempt[s][r] EXCEPT !.admission = TRUE]
  OBVIOUS
<1>3. b = [at |-> a, snap |-> y, code |-> d, admission |-> TRUE, cid |-> c]
  <2>1. PICK u \in BOOLEAN : u = TRUE
    OBVIOUS
  <2>2. b = [attempt[s][r] EXCEPT !.admission = u]
    BY <1>2, <2>1, Zenon
  <2>3. b = [at |-> a, snap |-> y, code |-> d, admission |-> u, cid |-> c]
    BY <1>1, <2>2
  <2> QED BY <2>1, <2>3, Zenon
<1>4. b \in Attempt
  BY <1>1, <1>3 DEF Attempt
<1>5. attempt' = [attempt EXCEPT ![s][r] = b]
  BY <1>2
<1>6. attempt[s][r].at = a /\ attempt[s][r].snap = y /\ attempt[s][r].code = d /\ attempt[s][r].cid = c
  BY <1>1
<1> QED BY <1>3, <1>4, <1>5, <1>6

LEMMA TakeAdmissionStep ==
  ASSUME IInv, NEW s \in Sides, TakeAdmission(s)
  PROVE  IInv' /\ Grows
<1>1. TypeOK /\ Core /\ ResultsStand /\ WireStands /\ WorkerStands
  BY DEF IInv, Core
<1>2. PICK m \in Message : m = worker[s].msg
  BY WaitingFacts DEF TakeAdmission
<1>3. /\ worker[s].answer = "admission" /\ attempt' = [attempt EXCEPT ![s][m.request].admission = TRUE]
      /\ Send(s, [m EXCEPT !.step = "commit"])
      /\ UNCHANGED <<history, result, outbox, pair, tomb, stale, leaving, inviter>>
  BY <1>2 DEF TakeAdmission, coordinatorVars, sideVars, codeVars
<1>4. m.from = s /\ MessageStands(m) /\ m.step = "admit" /\ attempt[Other(s)][m.request].at # "none"
  BY <1>2, <1>3, WaitingFacts DEF AnswerStands
<1>5. PICK r \in Requests : r = m.request
  BY <1>4 DEF MessageStands, AdmitStands
<1>6. /\ attempt[s][r].at \in Retained /\ attempt[s][r].at # "none" /\ attempt[s][r].snap = m.snap
      /\ inviter[attempt[s][r].code] = Other(s) /\ Genuine(m.snap)
  BY <1>4, <1>5 DEF MessageStands, AdmitStands, Retained
<1>7. PICK b \in Attempt :
         /\ attempt' = [attempt EXCEPT ![s][r] = b]
         /\ b = [at |-> attempt[s][r].at, snap |-> attempt[s][r].snap, code |-> attempt[s][r].code,
                 admission |-> TRUE, cid |-> attempt[s][r].cid]
  BY <1>1, <1>3, <1>5, CellAdmitted
<1>8. attempt' \in [Sides -> [Requests -> Attempt]] /\ attempt'[s][r] = b
  BY <1>1, <1>7, CellUpdate
<1>9. PICK n : n = [m EXCEPT !.step = "commit"]
  OBVIOUS
<1>10. n = [step |-> "commit", from |-> s, request |-> r, snap |-> m.snap, current |-> m.current]
  <2>1. m = [step |-> m.step, from |-> s, request |-> r, snap |-> m.snap, current |-> m.current]
    BY <1>4, <1>5 DEF Message
  <2>2. PICK st, sn, cu : m = [step |-> st, from |-> s, request |-> r, snap |-> sn, current |-> cu]
    BY <2>1
  <2>3. m.snap = sn /\ m.current = cu
    BY <2>2
  <2>4. n = [step |-> "commit", from |-> s, request |-> r, snap |-> sn, current |-> cu]
    BY <1>9, <2>2
  <2> QED BY <2>3, <2>4
<1>11. n \in Message
  BY <1>10, MessageFacts DEF Message
<1>12. n.step = "commit" /\ n.from = s /\ n.request = r /\ n.snap = m.snap
  BY <1>10
<1>13. Send(s, n)
  BY <1>3, <1>9
<1>14. wire' \subseteq Message /\ worker' \in [Sides -> Waits(outbox')]
  BY <1>1, <1>3, <1>11, <1>13, SendFacts
<1>15. TypeOK'
  BY <1>1, <1>8, <1>14 DEF TakeAdmission, TypeOK, Waits, coordinatorVars, sideVars, codeVars
<1>16. /\ b.at = attempt[s][r].at /\ b.snap = attempt[s][r].snap /\ b.code = attempt[s][r].code
       /\ b.admission = TRUE /\ b.cid = attempt[s][r].cid
  BY <1>7
<1>17. b.at = "active" => b.cid = Target(b.snap)
  BY <1>1, <1>6, <1>16 DEF Core, AttemptsStand, AttemptStands
<1>18. attempt[Other(s)][r].at # "none" /\ inviter[b.code] # s
  BY <1>4, <1>5, <1>6, <1>16, SideFacts
<1>19. Grows /\ Core'
  BY ZenonT(60), <1>1, <1>3, <1>6, <1>7, <1>15, <1>16, <1>17, <1>18, ConsentStep
<1>20. MessageStands(n)'
  <2>1. Genuine(m.snap)'
    BY <1>1, <1>6, <1>15, <1>19, GenuineGrows, MessageFacts
  <2>2. Genuine(n.snap)'
    BY <1>12, <2>1
  <2>3. AdmitStands(n)'
    BY <1>3, <1>6, <1>8, <1>12, <1>16 DEF AdmitStands
  <2> QED BY <1>12, <2>2, <2>3 DEF MessageStands
<1> QED BY <1>1, <1>3, <1>11, <1>12, <1>13, <1>15, <1>19, <1>20, SendStep DEF IInv

LEMMA TakeAckStep ==
  ASSUME IInv, TakeAck
  PROVE  IInv' /\ Grows
<1>1. TypeOK /\ Core /\ ResultsStand /\ WireStands /\ WorkerStands /\ "small" \in Sides /\ "large" \in Sides
  BY SideFacts DEF IInv, Core
<1>2. /\ worker["small"].answer = "ack" /\ outbox' = outbox \ {worker["small"].job} /\ Done("small")
      /\ UNCHANGED <<history, result, pair, tomb, stale, attempt, leaving, inviter>> /\ wire' = wire
  BY DEF TakeAck, sideVars, codeVars
<1>3. worker["large"].job = None
  <2>1. CASE worker["large"] = Idle
    BY <2>1, IdleFacts
  <2>2. CASE worker["large"] # Idle
    BY <1>1, <2>2 DEF WorkerStands, WorkerAt, JobStands
  <2> QED BY <2>1, <2>2
<1>4. worker' \in [Sides -> Waits(outbox')]
  <2>1. \A t \in Sides : t # "small" => worker[t].job \in outbox' \cup {None}
    BY <1>3, SideFacts
  <2> QED BY <1>1, <1>2, <2>1, DoneFacts
<1>5. outbox' \subseteq [epoch: Epochs, request: Requests \cup {None}]
  BY <1>1, <1>2 DEF TypeOK
<1>6. TypeOK'
  BY <1>1, <1>4, <1>5 DEF TakeAck, TypeOK, Waits, sideVars, codeVars
<1>7. Grows
  BY <1>1, <1>2, GrowsFrame
<1>8. Core'
  <2>1. EventsStand' /\ PairsStand' /\ OutboxStands'
    BY <1>1, <1>2 DEF Core, EventsStand, Begins, Ends, PairsStand, Genuine, EventSnapshot, Empty, OutboxStands
  <2>2. ResultsStand'
    BY <1>1, <1>2 DEF ResultsStand, Target, Retained
  <2>3. AttemptsStand'
    BY <1>1, <1>2, <1>6, <1>7, AttemptsKept DEF Core
  <2>4. TombsStand'
    BY <1>1, <1>2 DEF Core, TombsStand, TombsAt, Ended
  <2>5. StaleStands'
    BY <1>1, <1>2 DEF Core, StaleStands, Outdated, Target
  <2>6. Replicates'
    <3>1. ASSUME NEW e \in 1 .. Len(history)
          PROVE  [epoch |-> e, request |-> history[e].request] \in outbox' \/ Acked(EventSnapshot(e))
      <4> DEFINE w == worker["small"]
      <4>0. /\ w.msg.step = "sync" /\ Acked(w.msg.snap) /\ w.msg \in Message
            /\ JobStands("small") /\ MessageStands(w.msg)
        BY <1>1, <1>2, WaitingFacts DEF AnswerStands
      <4>1. PICK x \in Snapshot : x = w.msg.snap
        BY <4>0, MessageFacts
      <4>2. /\ w.job.epoch <= x.epoch /\ (w.job.request # None => w.job.epoch = x.epoch)
            /\ (x.state = "active" /\ w.job.request = None => w.job.epoch < x.epoch)
            /\ Acked(x) /\ Genuine(x) /\ x # Empty
        BY <4>0, <4>1 DEF JobStands, MessageStands, SyncStands
      <4>3. x.epoch \in 1 .. Len(history) /\ x = EventSnapshot(x.epoch)
        BY <4>2 DEF Genuine
      <4>4. [epoch |-> e, request |-> history[e].request] \in outbox \/ Acked(EventSnapshot(e))
        BY <1>1 DEF Core, Replicates
      <4>5. CASE [epoch |-> e, request |-> history[e].request] # w.job
        BY <1>2, <4>4, <4>5
      <4>6. CASE [epoch |-> e, request |-> history[e].request] = w.job
        <5>1. w.job.epoch = e
          BY <4>6
        <5>2. /\ pair["large"].epoch \in Nat /\ e \in Nat /\ x.epoch \in Nat /\ Len(history) \in Nat
          BY <1>1, Shapes, SnapshotFacts
        <5>3. CASE e = x.epoch
          BY <4>2, <4>3, <5>3
        <5>4. CASE e # x.epoch
          <6>1. e < x.epoch
            BY <4>2, <5>1, <5>2, <5>4
          <6>2. pair["large"].epoch >= e
            <7>1. CASE pair["large"].epoch >= x.epoch
              BY <5>2, <6>1, <7>1
            <7>2. CASE ~(pair["large"].epoch >= x.epoch)
              <8>1. x.state = "active"
                BY <4>2, <7>2 DEF Acked
              <8>2. history[x.epoch].state = "active"
                BY <4>3, <8>1 DEF EventSnapshot
              <8>3. x.epoch <= pair["large"].epoch + 1
                BY <1>1, <4>3, <8>2, Behind
              <8> QED BY <5>2, <6>1, <8>3
            <7> QED BY <7>1, <7>2
          <6> QED BY <6>2 DEF Acked, EventSnapshot
        <5> QED BY <5>3, <5>4
      <4> QED BY <4>5, <4>6
    <3> QED BY <1>2, <3>1 DEF Replicates, Acked, EventSnapshot
  <2> QED BY <2>1, <2>2, <2>3, <2>4, <2>5, <2>6 DEF Core
<1> QED BY <1>1, <1>2, <1>6, <1>7, <1>8, DoneStep DEF IInv

LEMMA EventFacts ==
  ASSUME TypeOK, EventsStand, NEW e \in 1 .. Len(history)
  PROVE  /\ EventSnapshot(e) \in Snapshot /\ Genuine(EventSnapshot(e)) /\ EventSnapshot(e) # Empty
         /\ EventSnapshot(e).epoch = e /\ EventSnapshot(e).state = history[e].state
         /\ EventSnapshot(e).cid = history[e].cid
<1> DEFINE Event == [state: {"active", "disconnected"}, cid: Epochs, request: Requests \cup {None}]
<1>1. history \in Seq(Event)
  BY DEF TypeOK
<1> HIDE DEF Event
<1>2. history[e] \in Event
  BY <1>1
<1>3. history[e].state \in {"empty", "active", "disconnected"} /\ history[e].cid \in Epochs
  BY <1>2 DEF Event
<1>4. e \in Epochs /\ e >= 1
  BY Shapes, BoundAssumption DEF EventsStand, Epochs
<1>5. EventSnapshot(e) \in Snapshot
  BY <1>3, <1>4 DEF EventSnapshot, Snapshot
<1>6. /\ EventSnapshot(e).epoch = e /\ EventSnapshot(e).state = history[e].state
      /\ EventSnapshot(e).cid = history[e].cid
  BY DEF EventSnapshot
<1>7. EventSnapshot(e) # Empty
  BY <1>4, <1>6 DEF Empty
<1> QED BY <1>5, <1>6, <1>7 DEF Genuine

(* What a replication carries, and what its job has to do with it.         *)
LEMMA SyncFacts ==
  ASSUME IInv, NEW job \in outbox, NEW m, m = SyncMessage(job)
  PROVE  /\ m \in Message /\ MessageStands(m) /\ m.step = "sync" /\ m.from = "small"
         /\ job.epoch <= m.snap.epoch
         /\ job.request # None => job.epoch = m.snap.epoch
         /\ m.snap.state = "active" /\ job.request = None => job.epoch < m.snap.epoch
<1>1. TypeOK /\ Core /\ EventsStand /\ OutboxStands
  BY DEF IInv, Core
<1>2. /\ job.epoch \in 1 .. Len(history) /\ job.request \in Requests \cup {None}
      /\ job.request # None => result[job.request] = job.epoch
      /\ job.request = None => history[job.epoch].state = "disconnected"
  BY <1>1 DEF TypeOK, OutboxStands
<1>3. PICK e : e = Carried(job)
  OBVIOUS
<1>4. Len(history) \in Nat /\ pair["small"].epoch = Len(history)
  BY <1>1, Shapes DEF Core, PairsStand
<1>5. /\ e \in 1 .. Len(history) /\ job.epoch <= e /\ (job.request # None => e = job.epoch)
  BY <1>2, <1>3, <1>4 DEF Carried
<1>6. PICK x \in Snapshot : x = EventSnapshot(e)
  BY <1>1, <1>5, EventFacts
<1>7. Genuine(x) /\ x # Empty /\ x.epoch = e /\ x.state = history[e].state
  BY <1>1, <1>5, <1>6, EventFacts
<1>8. PICK q : q = IF job.request # None THEN job.request ELSE history[e].request
  OBVIOUS
<1>9. q \in Requests \cup {None}
  BY <1>1, <1>2, <1>5, <1>8, Shapes
<1>10. m = [step |-> "sync", from |-> "small", request |-> q, snap |-> x, current |-> None]
  BY <1>3, <1>6, <1>8 DEF SyncMessage
<1>11. m \in Message
  BY <1>9, <1>10, SideFacts DEF Message
<1>12. m.step = "sync" /\ m.from = "small" /\ m.request = q /\ m.snap = x
  BY <1>10
<1>13. ASSUME x.state = "active"
       PROVE  q \in Requests /\ result[q] = e /\ (job.request = None => job.epoch < e)
  <2>1. CASE job.request # None
    BY <1>2, <1>5, <1>8, <2>1
  <2>2. CASE job.request = None
    <3>1. Begins(e)
      BY <1>1, <1>5, <1>7, <1>13 DEF EventsStand, Ends
    <3>2. e # job.epoch
      BY <1>2, <1>7, <1>13, <2>2
    <3> QED BY <1>4, <1>2, <1>5, <1>8, <2>2, <3>1, <3>2 DEF Begins
  <2> QED BY <2>1, <2>2
<1>14. SyncStands(m)
  BY <1>7, <1>12, <1>13 DEF SyncStands
<1>15. MessageStands(m)
  BY <1>7, <1>12, <1>14 DEF MessageStands
<1> QED BY <1>5, <1>7, <1>11, <1>12, <1>13, <1>15

LEMMA SendSyncStep ==
  ASSUME IInv, NEW job \in outbox, SendSync(job)
  PROVE  IInv' /\ Grows
<1>1. TypeOK /\ Core /\ ResultsStand /\ WireStands /\ WorkerStands /\ "small" \in Sides
  BY SideFacts DEF IInv, Core
<1>2. PICK m : m = SyncMessage(job)
  OBVIOUS
<1>3. /\ m \in Message /\ MessageStands(m) /\ m.step = "sync" /\ m.from = "small"
      /\ job.epoch <= m.snap.epoch
      /\ job.request # None => job.epoch = m.snap.epoch
      /\ m.snap.state = "active" /\ job.request = None => job.epoch < m.snap.epoch
  BY <1>2, SyncFacts
<1>4. PICK w : w = [msg |-> m, job |-> job, answer |-> "waiting", snap |-> Empty, current |-> Empty]
  OBVIOUS
<1>5. [Idle EXCEPT !.msg = m, !.job = job] = w
  <2>1. PICK i : i = Idle
    OBVIOUS
  <2>2. PICK a, b, c, d : /\ i = [msg |-> a, job |-> b, answer |-> c, snap |-> d, current |-> d]
                          /\ c = "waiting" /\ d = Empty
    BY <2>1 DEF Idle
  <2>3. PICK v : v = [i EXCEPT !.msg = m, !.job = job]
    OBVIOUS
  <2>4. v = [msg |-> m, job |-> job, answer |-> c, snap |-> d, current |-> d]
    BY <2>2, <2>3
  <2> QED BY <1>4, <2>1, <2>2, <2>3, <2>4
<1>6. wire' = wire \cup {m} /\ worker' = [worker EXCEPT !["small"] = w] /\ UNCHANGED coreVars /\ outbox' = outbox
  BY <1>2, <1>5 DEF SendSync, coordinatorVars, sideVars, codeVars, coreVars
<1>7. w \in Waits(outbox)
  BY <1>3, <1>4, EmptyFacts DEF Waits, Answers
<1>8. worker \in [Sides -> Waits(outbox)]
  BY <1>1 DEF TypeOK, Waits
<1>9. /\ worker' \in [Sides -> Waits(outbox')] /\ worker'["small"] = w
      /\ \A t \in Sides : t # "small" => worker'[t] = worker[t]
  BY <1>1, <1>6, <1>7, <1>8
<1>10. wire' \subseteq Message
  BY <1>1, <1>3, <1>6 DEF TypeOK
<1>11. TypeOK'
  BY <1>1, <1>9, <1>10 DEF SendSync, TypeOK, Waits, coordinatorVars, sideVars, codeVars
<1>12. Core' /\ Grows
  BY <1>6, StillCore
<1>13. MessageStands(m)'
  BY <1>1, <1>3, <1>11, <1>12, MessageGrows
<1>14. WireStands'
  BY <1>1, <1>3, <1>6, <1>11, <1>12, <1>13, WireGrows
<1>15. ASSUME NEW t \in Sides
       PROVE  WorkerAt(t)'
  <2>1. CASE t # "small"
    <3>1. WorkerAt(t)
      BY <1>1 DEF WorkerStands
    <3>2. worker'[t] = worker[t] /\ outbox \subseteq outbox'
      BY <1>6, <1>9, <2>1
    <3> QED BY <1>1, <1>11, <1>12, <3>1, <3>2, WorkerGrows
  <2>2. CASE t = "small"
    <3>1. worker'[t].msg = m /\ worker'[t].job = job /\ worker'[t].answer = "waiting"
      BY <1>4, <1>9, <2>2
    <3>2. MessageStands(worker[t].msg)'
      BY <1>13, <3>1
    <3>3. AnswerStands(t)'
      BY <3>1 DEF AnswerStands
    <3>4. JobStands(t)'
      BY <1>3, <1>6, <2>2, <3>1 DEF JobStands
    <3> QED BY <1>3, <2>2, <3>1, <3>2, <3>3, <3>4, MessageFacts DEF WorkerAt
  <2> QED BY <2>1, <2>2
<1>16. WorkerStands'
  BY <1>15 DEF WorkerStands
<1> QED BY <1>11, <1>12, <1>14, <1>16 DEF IInv

LEMMA WorkersKept ==
  ASSUME TypeOK, TypeOK', ResultsStand, WorkerStands, Grows, worker' = worker, outbox \subseteq outbox'
  PROVE  WorkerStands'
<1>1. ASSUME NEW t \in Sides
      PROVE  WorkerAt(t)'
  <2>1. WorkerAt(t)
    BY DEF WorkerStands
  <2> QED BY <2>1, WorkerGrows
<1> QED BY <1>1 DEF WorkerStands

(* Every state but an end can be followed by no more than this side knows. *)
LEMMA LearnedTarget ==
  ASSUME TypeOK, Core, NEW s \in Sides, NEW x \in Snapshot, Genuine(x), x.state # "disconnected"
  PROVE  Target(x) <= pair[s].epoch + 1
<1>0. pair[s].epoch \in Nat /\ Len(history) \in Nat
  BY Shapes, SnapshotFacts
<1>1. CASE x = Empty
  <2>1. Target(x) = 1
    BY <1>1 DEF Target, Empty
  <2> QED BY <1>0, <2>1
<1>2. CASE x # Empty
  <2>1. x.epoch \in 1 .. Len(history) /\ x.state = history[x.epoch].state
    BY <1>2 DEF Genuine, EventSnapshot
  <2>2. x.state = "active"
    BY <2>1, Shapes
  <2>3. Target(x) = x.epoch
    BY <2>2 DEF Target
  <2> QED BY <2>1, <2>2, <2>3, Behind
<1> QED BY <1>1, <1>2

(* A handled request: its sender, its record, and its place in the order.  *)
LEMMA HandledFacts ==
  ASSUME IInv, NEW m \in wire
  PROVE  /\ m \in Message /\ MessageStands(m) /\ m.from \in Sides /\ m.snap \in Snapshot /\ Genuine(m.snap)
         /\ Other(m.from) \in Sides /\ Other(m.from) # m.from /\ Other(Other(m.from)) = m.from
         /\ m.step \in {"admit", "learned", "commit"} => AdmitStands(m) /\ m.request \in Requests
<1>1. m \in Message /\ MessageStands(m)
  BY DEF IInv, TypeOK, WireStands
<1> QED BY <1>1, MessageFacts, SideFacts DEF MessageStands, AdmitStands

LEMMA NextMessage ==
  ASSUME NEW m \in Message, NEW k \in {"learned", "commit"}, NEW n, n = [m EXCEPT !.step = k]
  PROVE  /\ n \in Message /\ n.step = k /\ n.from = m.from /\ n.request = m.request /\ n.snap = m.snap
<1>1. m = [step |-> m.step, from |-> m.from, request |-> m.request, snap |-> m.snap, current |-> m.current]
  BY DEF Message
<1>2. PICK st, fr, rq, sn, cu : m = [step |-> st, from |-> fr, request |-> rq, snap |-> sn, current |-> cu]
  BY <1>1
<1>3. m.from = fr /\ m.request = rq /\ m.snap = sn /\ m.current = cu
  BY <1>2
<1>4. n = [step |-> k, from |-> fr, request |-> rq, snap |-> sn, current |-> cu]
  BY <1>2
<1>5. n.step = k /\ n.from = m.from /\ n.request = m.request /\ n.snap = m.snap
  BY <1>3, <1>4
<1>6. n \in Message
  BY <1>3, <1>4, MessageFacts DEF Message
<1> QED BY <1>5, <1>6

(* An answer that changes no row.                                          *)
LEMMA AnsweringStep ==
  ASSUME IInv, NEW m \in wire, NEW a \in Answers, NEW x \in Snapshot, NEW y \in Snapshot, Answer(m, a, x, y),
         UNCHANGED <<coordinatorVars, sideVars, attempt, leaving, codeVars, lapsed, faults>>,
         a = "admission" => m.step \in {"admit", "learned"} /\ attempt[Other(m.from)][m.request].at # "none",
         a = "result" => m.step \in {"commit", "disconnect"},
         a = "result" /\ m.step = "commit" =>
            result[m.request] # 0 /\ x = EventSnapshot(result[m.request]) /\ Genuine(y),
         a = "result" /\ m.step = "disconnect" => Genuine(x) /\ x.state = "disconnected",
         a # "ack"
  PROVE  IInv' /\ Grows
<1>1. TypeOK /\ Core /\ ResultsStand /\ WireStands /\ WorkerStands
  BY DEF IInv, Core
<1>2. UNCHANGED coreVars /\ outbox \subseteq outbox' /\ UNCHANGED <<history, result, attempt>>
  BY DEF coordinatorVars, sideVars, codeVars, coreVars
<1>3. Core' /\ Grows
  BY <1>2, StillCore
<1>4. wire' \subseteq Message /\ worker' \in [Sides -> Waits(outbox')]
  BY <1>1, <1>2, AnswerFacts
<1>5. TypeOK'
  BY <1>1, <1>4 DEF TypeOK, Waits, coordinatorVars, sideVars, codeVars
<1>6. a = "admission" => attempt'[Other(m.from)][m.request].at # "none"
  BY <1>2
<1>7. a = "result" /\ m.step = "commit" =>
        result'[m.request] # 0 /\ x = EventSnapshot(result[m.request])' /\ Genuine(y)'
  <2>1. Genuine(y) => Genuine(y)'
    BY <1>1, <1>3, <1>5, GenuineGrows
  <2>2. EventSnapshot(result[m.request])' = EventSnapshot(result[m.request])
    BY <1>2 DEF EventSnapshot
  <2> QED BY <1>2, <2>1, <2>2
<1>8. Genuine(x) => Genuine(x)'
  BY <1>1, <1>3, <1>5, GenuineGrows
<1>9. WireStands' /\ WorkerStands'
  BY <1>1, <1>2, <1>3, <1>5, <1>6, <1>7, <1>8, AnswerStep
<1> QED BY <1>3, <1>5, <1>9 DEF IInv

LEMMA RefusingStep ==
  ASSUME IInv, NEW m \in wire, NEW a \in {"refused", "expired"}, Refuse(m, a),
         UNCHANGED <<coordinatorVars, sideVars, attempt, leaving, codeVars, lapsed, faults>>
  PROVE  IInv' /\ Grows
<1>1. /\ Answer(m, a, Empty, Empty) /\ Empty \in Snapshot /\ a \in Answers
      /\ a # "admission" /\ a # "result" /\ a # "ack"
  BY EmptyFacts DEF Refuse, Answers
<1> QED BY <1>1, AnsweringStep

LEMMA HandleAdmitStep ==
  ASSUME IInv, NEW m \in wire, HandleAdmit(m)
  PROVE  IInv' /\ Grows
<1> DEFINE s == Other(m.from)
           r == m.request
<1>1. TypeOK /\ Core /\ ResultsStand /\ WireStands /\ WorkerStands
  BY DEF IInv, Core
<1>2. /\ m \in Message /\ m.from \in Sides /\ s \in Sides /\ m.snap \in Snapshot /\ Genuine(m.snap) /\ m.step = "admit"
      /\ AdmitStands(m) /\ r \in Requests /\ Other(s) = m.from
  BY HandledFacts DEF HandleAdmit
<1>3. UNCHANGED <<history, result, outbox, attempt, leaving, inviter>> /\ outbox \subseteq outbox'
  BY DEF HandleAdmit, coordinatorVars, codeVars
<1>4. ASSUME Answer(m, "admission", Empty, Empty), attempt[s][r].at # "none", UNCHANGED sideVars
      PROVE  IInv' /\ Grows
  <2>1. "admission" \in Answers /\ Empty \in Snapshot
    BY EmptyFacts DEF Answers
  <2>2. UNCHANGED <<coordinatorVars, sideVars, attempt, leaving, codeVars, lapsed, faults>>
    BY <1>4 DEF HandleAdmit
  <2> QED BY <1>2, <1>4, <2>1, <2>2, AnsweringStep
<1>5. ASSUME Refuse(m, "expired"), UNCHANGED sideVars
      PROVE  IInv' /\ Grows
  <2>1. UNCHANGED <<coordinatorVars, sideVars, attempt, leaving, codeVars, lapsed, faults>>
    BY <1>5 DEF HandleAdmit
  <2> QED BY <1>5, <2>1, RefusingStep
<1>6. ASSUME wire' = (wire \ {m}) \cup {[m EXCEPT !.step = "learned"]},
             IF m.snap.state = "disconnected" THEN Apply(s, m.snap) ELSE UNCHANGED sideVars, UNCHANGED worker
      PROVE  IInv' /\ Grows
  <2>1. PICK n : n = [m EXCEPT !.step = "learned"]
    OBVIOUS
  <2>2. n \in Message /\ n.step = "learned" /\ n.from = m.from /\ n.request = m.request /\ n.snap = m.snap
    BY <1>2, <2>1, NextMessage
  <2>3. wire' \subseteq wire \cup {n} /\ wire' \subseteq Message
    BY <1>1, <1>6, <2>1, <2>2 DEF TypeOK
  <2>4. /\ pair' \in [Sides -> Snapshot] /\ tomb' \in [Sides -> SUBSET Epochs]
        /\ stale' \in [Sides -> SUBSET (Codes \cup Requests)]
    <3>1. CASE m.snap.state = "disconnected"
      BY <1>1, <1>2, <1>6, <3>1, ApplyTypes
    <3>2. CASE m.snap.state # "disconnected"
      BY <1>1, <1>6, <3>2 DEF TypeOK, sideVars
    <3> QED BY <3>1, <3>2
  <2>5. TypeOK'
    BY <1>1, <1>6, <2>3, <2>4 DEF HandleAdmit, TypeOK, coordinatorVars, codeVars
  <2>6. \A t \in Sides : SideStep(t)
    <3>1. CASE m.snap.state = "disconnected"
      BY <1>1, <1>2, <1>3, <1>6, <3>1, AppliesSides
    <3>2. CASE m.snap.state # "disconnected"
      BY <1>1, <1>3, <1>6, <3>2, SideStill DEF sideVars
    <3> QED BY <3>1, <3>2
  <2>7. Grows /\ Core'
    BY <1>1, <1>3, <2>5, <2>6, RowsStep
  <2>8. Target(m.snap) <= pair'[s].epoch + 1
    <3>0. pair'[s].epoch \in Nat /\ m.snap.epoch \in Nat
      BY <1>2, <2>4, SnapshotFacts
    <3>1. CASE m.snap.state = "disconnected"
      <4>1. pair'[s].epoch >= m.snap.epoch
        BY <1>1, <1>2, <1>6, <3>1, ApplyStands
      <4>2. Target(m.snap) = m.snap.epoch + 1
        BY <3>1 DEF Target
      <4> QED BY <3>0, <4>1, <4>2
    <3>2. CASE m.snap.state # "disconnected"
      <4>1. pair'[s] = pair[s]
        BY <1>6, <3>2 DEF sideVars
      <4> QED BY <1>1, <1>2, <3>2, <4>1, LearnedTarget
    <3> QED BY <3>1, <3>2
  <2>9. MessageStands(n)'
    <3>1. Genuine(m.snap)'
      BY <1>1, <1>2, <2>5, <2>7, GenuineGrows
    <3>2. Genuine(n.snap)'
      BY <2>2, <3>1
    <3>3. AdmitStands(n)'
      BY <1>2, <1>3, <2>2, <2>8 DEF AdmitStands, Target, Retained
    <3> QED BY <2>2, <3>2, <3>3 DEF MessageStands
  <2>10. WireStands'
    BY <1>1, <2>2, <2>3, <2>5, <2>7, <2>9, WireGrows
  <2>11. WorkerStands'
    BY <1>1, <1>3, <1>6, <2>5, <2>7, WorkersKept
  <2> QED BY <2>5, <2>7, <2>10, <2>11 DEF IInv
<1> QED BY <1>4, <1>5, <1>6 DEF HandleAdmit

(* A new consent: the rest stays, and its other copy is the same review.   *)
LEMMA NewConsent ==
  ASSUME TypeOK, TypeOK', Core, Grows, NEW s \in Sides, NEW r \in Requests, NEW b \in Attempt,
         attempt' = [attempt EXCEPT ![s][r] = b], attempt[s][r].at = "none", AttemptStands(s, r)',
         attempt[Other(s)][r].at # "none" => attempt[Other(s)][r].snap = b.snap /\ attempt[Other(s)][r].code = b.code
  PROVE  AttemptsStand'
<1>0. /\ attempt'[s][r] = b /\ Other(s) \in Sides /\ Other(s) # s /\ Other(Other(s)) = s
      /\ \A t \in Sides, q \in Requests : t # s \/ q # r => attempt'[t][q] = attempt[t][q]
  <2>1. /\ attempt'[s][r] = b
        /\ \A t \in Sides, q \in Requests : t # s \/ q # r => attempt'[t][q] = attempt[t][q]
    BY ZenonT(60), CellUpdate
  <2> QED BY <2>1, SideFacts
<1>1. AttemptsStand
  BY DEF Core
<1>2. ASSUME NEW t \in Sides, NEW q \in Requests, attempt'[t][q].at # "none"
      PROVE  AttemptStands(t, q)'
  <2>1. CASE t = s /\ q = r
    BY <2>1
  <2>2. CASE q # r
    <3>1. Other(t) \in Sides
      BY SideFacts
    <3>2. attempt'[t][q] = attempt[t][q] /\ attempt'[Other(t)][q] = attempt[Other(t)][q]
      BY <1>0, <2>2, <3>1
    <3> QED BY <1>1, <1>2, <3>2, AttemptKept
  <2>3. CASE t # s /\ q = r
    <3>1. t = Other(s) /\ Other(t) = s
      BY <2>3, SideFacts
    <3>2. attempt'[t][r] = attempt[t][r] /\ attempt[t][r].at # "none"
      BY <1>0, <1>2, <2>3
    <3>3. AttemptStands(t, r)
      BY <1>1, <3>2 DEF AttemptsStand
    <3>4. PICK y \in Snapshot : y = attempt[t][r].snap
      BY AttemptFacts
    <3>5. Genuine(attempt[t][r].snap)'
      <4>1. Genuine(y)'
        BY <3>3, <3>4, GenuineGrows DEF AttemptStands
      <4> QED BY <3>2, <3>4, <4>1
    <3>6. Target(attempt[t][r].snap) <= pair'[t].epoch + 1
      <4>1. pair[t].epoch \in Nat /\ pair'[t].epoch \in Nat /\ Target(y) \in Nat
        BY Shapes, NextShapes, SnapshotFacts
      <4>2. pair'[t].epoch >= pair[t].epoch
        BY DEF Grows
      <4> QED BY <3>3, <3>4, <4>1, <4>2 DEF AttemptStands
    <3>7. b.snap = attempt[t][r].snap /\ b.code = attempt[t][r].code
      BY <3>1, <3>2
    <3>8. b.at # "none" \/ ~(inviter[attempt[t][r].code] = t \/ attempt[t][r].admission)
      BY <3>1, <3>3 DEF AttemptStands
    <3>9. inviter' = inviter
      BY DEF Grows
    <3>10. AttemptStands(t, r)'
      BY <1>0, <3>1, <3>2, <3>3, <3>5, <3>6, <3>7, <3>8, <3>9 DEF AttemptStands
    <3> QED BY <2>3, <3>10
  <2> QED BY <2>1, <2>2, <2>3
<1> QED BY <1>2 DEF AttemptsStand

NewRow(v, x, c, g) == [NoAttempt EXCEPT !.at = v, !.snap = x, !.code = c, !.admission = g]

LEMMA NewRowFacts ==
  ASSUME NEW v \in {"draft", "admitted"}, NEW x \in Snapshot, NEW c \in Codes, NEW g \in BOOLEAN,
         NEW b, b = NewRow(v, x, c, g)
  PROVE  b \in Attempt /\ b.at = v /\ b.snap = x /\ b.code = c /\ b.admission = g
<1>1. PICK z : z = NoAttempt
  OBVIOUS
<1>2. PICK a1, a2, a3, a4, a5 : z = [at |-> a1, snap |-> a2, code |-> a3, admission |-> a4, cid |-> a5] /\ a5 = 0
  BY <1>1 DEF NoAttempt
<1>3. b = [z EXCEPT !.at = v, !.snap = x, !.code = c, !.admission = g]
  BY <1>1 DEF NewRow
<1>4. b = [at |-> v, snap |-> x, code |-> c, admission |-> g, cid |-> a5]
  BY <1>2, <1>3
<1>5. a5 \in Epochs
  BY <1>2, BoundAssumption DEF Epochs
<1>6. b \in Attempt
  BY <1>4, <1>5 DEF Attempt
<1> QED BY <1>4, <1>6

LEMMA AdmitStep ==
  ASSUME IInv, NEW m \in wire, Admit(m)
  PROVE  IInv' /\ Grows
<1>1. TypeOK /\ Core /\ ResultsStand /\ WireStands /\ WorkerStands
  BY DEF IInv, Core
<1>0. PICK s \in Sides, r \in Requests : s = Other(m.from) /\ r = m.request
  BY HandledFacts DEF Admit
<1> DEFINE c == attempt[m.from][r].code
<1>2. /\ m \in Message /\ m.from \in Sides /\ s # m.from /\ m.snap \in Snapshot /\ Genuine(m.snap)
      /\ m.step = "learned" /\ AdmitStands(m) /\ Other(s) = m.from
  BY <1>0, HandledFacts DEF Admit
<1>3. UNCHANGED <<coordinatorVars, sideVars, leaving, codeVars, lapsed, faults>>
  BY DEF Admit
<1>4. ASSUME NEW a \in {"refused", "expired"}, Refuse(m, a), UNCHANGED attempt
      PROVE  IInv' /\ Grows
  BY <1>3, <1>4, RefusingStep
<1>5. "admission" \in Answers /\ Empty \in Snapshot
  BY EmptyFacts DEF Answers
<1>6. ASSUME Answer(m, "admission", Empty, Empty), attempt[s][r].at # "none", UNCHANGED attempt
      PROVE  IInv' /\ Grows
  BY <1>0, <1>2, <1>3, <1>5, <1>6, AnsweringStep
<1>7. ASSUME Answer(m, "admission", Empty, Empty), attempt[s][r].at = "none", Admissible(s, m),
             attempt' = [attempt EXCEPT ![s][r] = [NoAttempt EXCEPT
                           !.at = "admitted", !.snap = m.snap, !.code = c, !.admission = TRUE]]
      PROVE  IInv' /\ Grows
  <2>0. UNCHANGED <<history, result, outbox, pair, tomb, stale, leaving, inviter>> /\ outbox \subseteq outbox'
    BY <1>3 DEF coordinatorVars, sideVars, codeVars
  <2>1. /\ attempt[m.from][r].at \in Retained /\ attempt[m.from][r].at # "none"
        /\ attempt[m.from][r].snap = m.snap /\ inviter[c] = s /\ Target(m.snap) <= pair[s].epoch + 1
    BY <1>0, <1>2 DEF AdmitStands, Retained
  <2>2. c \in Codes /\ (m.snap.state # "active" => m.snap.epoch + 2 <= MaxEpoch)
    BY <1>1, <1>2, <2>1 DEF Core, AttemptsStand, AttemptStands
  <2>3. PICK b \in Attempt :
           /\ b = NewRow("admitted", m.snap, c, TRUE)
           /\ b.at = "admitted" /\ b.snap = m.snap /\ b.code = c /\ b.admission = TRUE
    <3>1. PICK v \in {"draft", "admitted"}, x \in Snapshot, d \in Codes, g \in BOOLEAN :
             v = "admitted" /\ x = m.snap /\ d = c /\ g = TRUE
      BY <1>2, <2>2
    <3>2. PICK b : b = NewRow(v, x, d, g)
      OBVIOUS
    <3>3. b \in Attempt /\ b.at = v /\ b.snap = x /\ b.code = d /\ b.admission = g
      BY <3>2, NewRowFacts
    <3> QED BY <3>1, <3>2, <3>3, Zenon
  <2>4. b.at = "admitted" /\ b.snap = m.snap /\ b.code = c /\ b.admission
    BY <2>3, Zenon
  <2>5. attempt' = [attempt EXCEPT ![s][r] = b]
    BY <1>7, <2>3 DEF NewRow
  <2>5a. attempt[s][r].at = "none"
    BY <1>7
  <2>6. /\ attempt' \in [Sides -> [Requests -> Attempt]] /\ attempt'[s][r] = b
        /\ \A t \in Sides, q \in Requests : t # s \/ q # r => attempt'[t][q] = attempt[t][q]
    BY ZenonT(60), <1>1, <2>5, CellUpdate
  <2>7. wire' \subseteq Message /\ worker' \in [Sides -> Waits(outbox')]
    BY <1>1, <1>5, <1>7, <2>0, AnswerFacts
  <2>8. TypeOK'
    BY <1>1, <1>3, <2>6, <2>7 DEF TypeOK, Waits, coordinatorVars, sideVars, codeVars
  <2>9. \A t \in Sides, q \in Requests : CellGrows(t, q)
    BY <1>1, <2>5, <2>5a, CellStep
  <2>10. \A t \in Sides : SideStep(t)
    BY <1>1, <2>0, SideStill
  <2>11. Grows
    BY <1>1, <2>0, <2>9, <2>10, SidesGrow
  <2>12. attempt'[Other(s)][r] = attempt[m.from][r]
    BY <1>2, <2>6
  <2>13. AttemptStands(s, r)'
    <3>1. Genuine(m.snap)'
      BY <1>1, <1>2, <2>8, <2>11, GenuineGrows
    <3>2. Genuine(attempt[s][r].snap)'
      BY <2>4, <2>6, <3>1
    <3>3. "admitted" \in Retained
      BY DEF Retained
    <3> QED BY <2>0, <2>1, <2>2, <2>4, <2>6, <2>12, <3>2, <3>3 DEF AttemptStands
  <2>14. AttemptsStand'
    <3>1. attempt[Other(s)][r].snap = b.snap /\ attempt[Other(s)][r].code = b.code
      BY <1>2, <2>1, <2>4
    <3> QED BY <1>1, <2>5, <2>5a, <2>8, <2>11, <2>13, <3>1, NewConsent
  <2>15. ~Outdated(s, r)'
    <3>1. c \notin stale[s]
      BY <1>0, <1>7 DEF Admissible
    <3> QED BY <2>0, <2>1, <2>4, <2>6, <3>1 DEF Outdated
  <2>16. \A t \in Sides, q \in Requests :
            attempt[t][q].at = "none" /\ attempt'[t][q].at # "none" => ~Outdated(t, q)'
    BY <2>6, <2>15
  <2>17. Core'
    BY <1>1, <2>0, <2>8, <2>10, <2>11, <2>14, <2>16, SidesCore
  <2>18. attempt'[Other(m.from)][m.request].at # "none"
    BY <1>0, <2>4, <2>6
  <2>19. WireStands' /\ WorkerStands'
    BY <1>1, <1>2, <1>5, <1>7, <2>0, <2>8, <2>11, <2>18, AnswerStep
  <2> QED BY <2>8, <2>11, <2>17, <2>19 DEF IInv
<1> QED BY <1>0, <1>4, <1>6, <1>7 DEF Admit

Checked(m, z) == [m EXCEPT !.step = "checked", !.current = z]

LEMMA CheckedMessage ==
  ASSUME NEW m \in Message, NEW z \in Snapshot \cup {None}, NEW n, n = Checked(m, z)
  PROVE  /\ n \in Message /\ n.step = "checked" /\ n.from = m.from /\ n.request = m.request /\ n.snap = m.snap
         /\ n.current = z
<1>1. m = [step |-> m.step, from |-> m.from, request |-> m.request, snap |-> m.snap, current |-> m.current]
  BY DEF Message
<1>2. PICK st, fr, rq, sn, cu : m = [step |-> st, from |-> fr, request |-> rq, snap |-> sn, current |-> cu]
  BY <1>1
<1>3. m.from = fr /\ m.request = rq /\ m.snap = sn
  BY <1>2
<1>4. n = [step |-> "checked", from |-> fr, request |-> rq, snap |-> sn, current |-> z]
  BY <1>2 DEF Checked
<1>5. n.step = "checked" /\ n.from = m.from /\ n.request = m.request /\ n.snap = m.snap /\ n.current = z
  BY <1>3, <1>4
<1>6. n \in Message
  BY <1>3, <1>4, MessageFacts DEF Message
<1> QED BY <1>5, <1>6

LEMMA HandleSyncStep ==
  ASSUME IInv, NEW m \in wire, HandleSync(m)
  PROVE  IInv' /\ Grows
<1>1. TypeOK /\ Core /\ ResultsStand /\ WireStands /\ WorkerStands /\ "small" \in Sides /\ "large" \in Sides
  BY SideFacts DEF IInv, Core
<1>2. /\ m \in Message /\ m.snap \in Snapshot /\ MessageStands(m) /\ m.step = "sync" /\ SyncStands(m) /\ Genuine(m.snap)
  BY HandledFacts DEF HandleSync, MessageStands
<1>3. UNCHANGED <<coordinatorVars, sideVars, attempt, leaving, codeVars, lapsed, faults>>
  BY DEF HandleSync
<1>4. CASE Refuse(m, "refused")
  BY <1>3, <1>4, RefusingStep
<1>5. CASE ~Refuse(m, "refused")
  <2> DEFINE p == pair["large"]
             known == p.state = "active" /\ p.cid = m.snap.cid /\ p.epoch >= m.snap.epoch
             probed == m.snap.state = "active" /\ m.snap.cid \notin tomb["large"] /\ ~known
  <2>1. PICK z : z = IF probed THEN pair["small"] ELSE None
    OBVIOUS
  <2>2. pair["small"] \in Snapshot /\ pair["small"] # None /\ Genuine(pair["small"]) /\ pair["small"].epoch = Len(history)
    BY <1>1, Shapes, NoneAssumption DEF Core, PairsStand
  <2>3. z \in Snapshot \cup {None} /\ (z # None => z = pair["small"] /\ m.snap.state = "active")
        /\ (z = None /\ m.snap.state = "active" => m.snap.cid \in tomb["large"] \/ p.epoch >= m.snap.epoch)
    BY <2>1, <2>2
  <2>4. PICK n : n = Checked(m, z)
    OBVIOUS
  <2>5. /\ n \in Message /\ n.step = "checked" /\ n.from = m.from /\ n.request = m.request /\ n.snap = m.snap
        /\ n.current = z
    BY <1>2, <2>3, <2>4, CheckedMessage
  <2>6. wire' = (wire \ {m}) \cup {n} /\ worker' = worker
    BY <1>5, <2>1, <2>4 DEF HandleSync, Checked
  <2>7. wire' \subseteq wire \cup {n} /\ wire' \subseteq Message
    BY <1>1, <2>5, <2>6 DEF TypeOK
  <2>8. UNCHANGED coreVars /\ outbox \subseteq outbox' /\ outbox' = outbox
    BY <1>3 DEF coordinatorVars, sideVars, codeVars, coreVars
  <2>9. Core' /\ Grows
    BY <2>8, StillCore
  <2>10. TypeOK'
    BY <1>1, <1>3, <2>6, <2>7 DEF TypeOK, coordinatorVars, sideVars, codeVars
  <2>11. MessageStands(n)
    <3>1. SyncStands(n)
      BY <1>2, <2>5 DEF SyncStands
    <3>2. z # None => Genuine(z) /\ z.epoch >= m.snap.epoch
      <4>1. m.snap.epoch \in 1 .. Len(history)
        BY <1>2 DEF Genuine, SyncStands
      <4>2. Len(history) \in Nat
        BY <1>1, Shapes
      <4> QED BY <2>2, <2>3, <4>1, <4>2
    <3>3. CheckedStands(n)
      BY <2>3, <2>5, <3>2 DEF CheckedStands
    <3>4. Genuine(n.snap)
      BY <1>2, <2>5
    <3> QED BY <2>5, <3>1, <3>3, <3>4 DEF MessageStands
  <2>12. MessageStands(n)'
    BY <1>1, <2>5, <2>9, <2>10, <2>11, MessageGrows
  <2>13. WireStands'
    BY <1>1, <2>5, <2>7, <2>9, <2>10, <2>12, WireGrows
  <2>14. WorkerStands'
    BY <1>1, <2>6, <2>8, <2>9, <2>10, WorkersKept
  <2> QED BY <2>9, <2>10, <2>13, <2>14 DEF IInv
<1> QED BY <1>4, <1>5

(* What an acknowledgement says: the other side has the event, has left    *)
(* the connection, or there is a later event.                              *)
LEMMA SyncAcks ==
  ASSUME TypeOK, TypeOK', Core, Grows, NEW m \in Message, MessageStands(m), m.step = "checked",
         Apply("large", Adopted(m)), Adopted(m) \in Snapshot, Genuine(Adopted(m)), history' = history
  PROVE  Acked(m.snap)'
<1>0. /\ "large" \in Sides /\ m.snap \in Snapshot /\ m.current \in Snapshot \cup {None} /\ Genuine(m.snap) /\ m.snap # Empty
      /\ SyncStands(m) /\ CheckedStands(m)
  BY SideFacts, MessageFacts DEF MessageStands, SyncStands
<1>1. PICK x \in Snapshot : x = m.snap
  BY <1>0
<1>2. PICK z \in Snapshot : z = Adopted(m)
  OBVIOUS
<1>3. /\ pair["large"].epoch \in Nat /\ pair'["large"].epoch \in Nat /\ x.epoch \in Nat /\ z.epoch \in Nat
      /\ Len(history) \in Nat /\ x.epoch \in 1 .. Len(history) /\ x = EventSnapshot(x.epoch)
  BY <1>0, <1>1, Shapes, NextShapes, SnapshotFacts DEF Genuine
<1>4. pair'["large"].epoch >= x.epoch => Acked(x)'
  BY DEF Acked
<1>5. z.state = "disconnected" => pair'["large"].epoch >= z.epoch
  BY <1>0, <1>2, ApplyStands
<1>6. Acked(x) => Acked(x)'
  BY AckedGrows
<1>7. CASE m.current = None
  <2>1. z = x
    BY <1>1, <1>2, <1>7 DEF Adopted, Confirmed
  <2>2. CASE x.state = "active"
    <3>1. x.cid \in tomb["large"] \/ pair["large"].epoch >= x.epoch
      BY <1>0, <1>1, <1>7, <2>2 DEF CheckedStands
    <3> QED BY <1>1, <1>6, <2>2, <3>1 DEF Acked
  <2>3. CASE x.state # "active"
    <3>1. x.state = "disconnected"
      BY <1>3, <2>3, Shapes DEF EventSnapshot
    <3> QED BY <1>1, <1>4, <1>5, <2>1, <3>1
  <2> QED BY <2>2, <2>3
<1>8. CASE m.current # None
  <2>1. PICK y \in Snapshot : y = m.current
    BY <1>0, <1>8
  <2>2. Genuine(y) /\ y.epoch >= x.epoch /\ x.state = "active" /\ y.epoch \in Nat
    BY <1>0, <1>1, <1>8, <2>1, SnapshotFacts DEF CheckedStands
  <2>3. CASE y.state = "disconnected"
    <3>1. z = y
      BY <1>2, <1>8, <2>1, <2>3 DEF Adopted
    <3> QED BY <1>1, <1>3, <1>4, <1>5, <2>2, <2>3, <3>1
  <2>4. CASE y = x
    <3>1. z = x
      BY <1>1, <1>2, <2>1, <2>2, <2>4 DEF Adopted, Confirmed
    <3>2. Adopts("large", x) => pair'["large"] = x
      BY <1>0, <1>2, <3>1, ApplyFacts
    <3>3. ~Adopts("large", x) => ~(x.epoch >= pair["large"].epoch) \/ x.cid \in tomb["large"]
      BY <2>2 DEF Adopts, Buried
    <3>4. Adopts("large", x) => Acked(x)'
      BY <1>3, <1>4, <3>2
    <3>5. ~Adopts("large", x) => Acked(x)
      BY <1>3, <2>2, <3>3 DEF Acked
    <3> QED BY <1>1, <1>6, <3>4, <3>5
  <2>5. CASE y.state # "disconnected" /\ y # x
    <3>1. y # Empty
      BY <1>3, <2>2 DEF Empty
    <3>2. y.epoch \in 1 .. Len(history) /\ y = EventSnapshot(y.epoch)
      BY <2>2, <3>1 DEF Genuine
    <3>3. y.epoch # x.epoch
      BY <1>3, <2>5, <3>2
    <3>4. x.epoch < Len(history)
      BY <1>3, <2>2, <3>2, <3>3
    <3> QED BY <1>1, <1>6, <2>2, <3>4 DEF Acked
  <2> QED BY <2>3, <2>4, <2>5
<1> QED BY <1>7, <1>8

(* A consent that a replication or an answer marks as used.                *)
LEMMA CellUsed ==
  ASSUME TypeOK, NEW s \in Sides, NEW r \in Requests, NEW x \in Snapshot,
         attempt' = [attempt EXCEPT ![s][r].at = "active", ![s][r].admission = TRUE, ![s][r].cid = x.cid]
  PROVE  \E b \in Attempt : /\ attempt' = [attempt EXCEPT ![s][r] = b]
                            /\ b = [at |-> "active", snap |-> attempt[s][r].snap, code |-> attempt[s][r].code,
                                    admission |-> TRUE, cid |-> x.cid]
<1>0. PICK u \in BOOLEAN : u = TRUE
  OBVIOUS
<1>1. PICK a1 : a1 = [attempt EXCEPT ![s][r].at = "active"]
  OBVIOUS
<1>1a. PICK a2 : a2 = [a1 EXCEPT ![s][r].admission = u]
  OBVIOUS
<1>2. attempt' = [a2 EXCEPT ![s][r].cid = x.cid]
  BY <1>0, <1>1, <1>1a
<1>3. attempt \in [Sides -> [Requests -> Attempt]]
  BY DEF TypeOK
<1>4. PICK a \in Attempt : a = attempt[s][r]
  BY <1>3
<1>5. PICK y, d, g, c : /\ a = [at |-> a.at, snap |-> y, code |-> d, admission |-> g, cid |-> c]
                        /\ y \in Snapshot /\ d \in Codes \cup {None}
  BY DEF Attempt
<1>6. PICK b1 : b1 = [a EXCEPT !.at = "active"]
  OBVIOUS
<1>7. b1 = [at |-> "active", snap |-> y, code |-> d, admission |-> g, cid |-> c]
  BY <1>5, <1>6
<1>8. PICK b2 : b2 = [b1 EXCEPT !.admission = u]
  OBVIOUS
<1>9. b2 = [at |-> "active", snap |-> y, code |-> d, admission |-> u, cid |-> c]
  BY <1>7, <1>8
<1>10. PICK b : b = [b2 EXCEPT !.cid = x.cid]
  OBVIOUS
<1>11. b = [at |-> "active", snap |-> y, code |-> d, admission |-> u, cid |-> x.cid]
  BY <1>9, <1>10
<1>12. b \in Attempt
  BY <1>5, <1>11 DEF Attempt, Snapshot
<1>13. a1 = [attempt EXCEPT ![s][r] = b1] /\ a1[s][r] = b1
  BY <1>1, <1>3, <1>4, <1>6
<1>14. a2 = [a1 EXCEPT ![s][r] = b2]
  BY <1>1a, <1>8, <1>13
<1>15. a2 = [attempt EXCEPT ![s][r] = b2] /\ a2[s][r] = b2
  BY <1>3, <1>13, <1>14
<1>16. attempt' = [a2 EXCEPT ![s][r] = b]
  BY <1>2, <1>10, <1>15
<1>17. attempt' = [attempt EXCEPT ![s][r] = b]
  BY <1>3, <1>15, <1>16
<1>18. attempt[s][r].snap = y /\ attempt[s][r].code = d
  BY <1>4, <1>5
<1>19. b = [at |-> "active", snap |-> y, code |-> d, admission |-> TRUE, cid |-> x.cid]
  BY <1>0, <1>11, Zenon
<1> QED BY <1>12, <1>17, <1>18, <1>19

(* What a replication or its probe makes the other side adopt.             *)
LEMMA AdoptedFacts ==
  ASSUME NEW m \in Message, m.step = "checked", MessageStands(m)
  PROVE  Adopted(m) \in Snapshot /\ Genuine(Adopted(m))
<1>1. CheckedStands(m) /\ Genuine(m.snap) /\ m.snap \in Snapshot /\ m.current \in Snapshot \cup {None}
  BY MessageFacts DEF MessageStands
<1>2. CASE m.current # None /\ m.current.state = "disconnected"
  <2>1. Adopted(m) = m.current
    BY <1>2 DEF Adopted
  <2> QED BY <1>1, <1>2, <2>1 DEF CheckedStands
<1>3. CASE ~(m.current # None /\ m.current.state = "disconnected")
  <2>1. Adopted(m) = m.snap \/ Adopted(m) = Empty
    BY <1>3 DEF Adopted
  <2> QED BY <1>1, <2>1, EmptyFacts
<1> QED BY <1>2, <1>3

LEMMA SyncStep ==
  ASSUME IInv, NEW m \in wire, Sync(m)
  PROVE  IInv' /\ Grows
<1>1. TypeOK /\ Core /\ ResultsStand /\ WireStands /\ WorkerStands /\ "small" \in Sides /\ "large" \in Sides
  BY SideFacts DEF IInv, Core
<1>2. /\ m \in Message /\ m.snap \in Snapshot /\ MessageStands(m) /\ m.step = "checked" /\ SyncStands(m)
      /\ CheckedStands(m) /\ Genuine(m.snap) /\ m.current \in Snapshot \cup {None}
  BY HandledFacts, MessageFacts DEF Sync, MessageStands
<1>3. /\ UNCHANGED <<history, result, outbox, leaving, inviter>> /\ outbox \subseteq outbox'
      /\ Apply("large", Adopted(m)) /\ Answer(m, "ack", m.snap, Empty)
  BY DEF Sync, coordinatorVars, codeVars
<1>4. Adopted(m) \in Snapshot /\ Genuine(Adopted(m))
  BY <1>2, AdoptedFacts
<1>5. PICK z \in Snapshot : z = Adopted(m)
  BY <1>4
<1>6. Apply("large", z) /\ Genuine(z)
  BY <1>3, <1>4, <1>5
<1>7. /\ pair' \in [Sides -> Snapshot] /\ tomb' \in [Sides -> SUBSET Epochs]
      /\ stale' \in [Sides -> SUBSET (Codes \cup Requests)]
  BY <1>1, <1>6, ApplyTypes
<1>8. \A t \in Sides : SideStep(t)
  BY <1>1, <1>3, <1>6, AppliesSides
<1>9. "ack" \in Answers /\ Empty \in Snapshot
  BY EmptyFacts DEF Answers
<1>10. wire' \subseteq Message /\ worker' \in [Sides -> Waits(outbox')]
  BY <1>1, <1>2, <1>3, <1>9, AnswerFacts
<1>11. ASSUME TypeOK', Grows, Core'
       PROVE  IInv' /\ Grows
  <2>1. Acked(m.snap)'
    BY <1>1, <1>2, <1>3, <1>4, <1>11, SyncAcks
  <2>2. WireStands' /\ WorkerStands'
    BY <1>1, <1>2, <1>3, <1>9, <1>11, <2>1, AnswerStep
  <2> QED BY <1>11, <2>2 DEF IInv
<1>12. CASE attempt' = attempt
  <2>1. TypeOK'
    BY <1>1, <1>7, <1>10, <1>12 DEF Sync, TypeOK, Waits, coordinatorVars, codeVars
  <2>2. Grows /\ Core'
    BY <1>1, <1>3, <1>8, <1>12, <2>1, RowsStep
  <2> QED BY <1>11, <2>1, <2>2
<1>13. CASE attempt' # attempt
  <2>1. m.snap.state = "active" /\ attempt["large"][m.request].at \in {"pending", "admitted"}
    BY <1>13 DEF Sync
  <2>2. PICK r \in Requests : r = m.request /\ result[r] = m.snap.epoch
    BY <1>2, <2>1 DEF SyncStands
  <2>3. PICK x \in Snapshot : x = m.snap
    BY <1>2
  <2>4. attempt' = [attempt EXCEPT !["large"][r].at = "active", !["large"][r].admission = TRUE,
                                   !["large"][r].cid = x.cid]
    BY <2>1, <2>2, <2>3 DEF Sync
  <2>5. PICK b \in Attempt : /\ attempt' = [attempt EXCEPT !["large"][r] = b]
                             /\ b = [at |-> "active", snap |-> attempt["large"][r].snap,
                                     code |-> attempt["large"][r].code, admission |-> TRUE, cid |-> x.cid]
    BY <1>1, <2>4, CellUsed
  <2>6. attempt' \in [Sides -> [Requests -> Attempt]]
    BY <1>1, <2>5, CellUpdate
  <2>7. TypeOK'
    BY <1>1, <1>7, <1>10, <2>6 DEF Sync, TypeOK, Waits, coordinatorVars, codeVars
  <2>8. /\ b.at = "active" /\ b.snap = attempt["large"][r].snap /\ b.code = attempt["large"][r].code
        /\ b.admission = TRUE /\ b.cid = x.cid
    BY <2>5
  <2>9. x.epoch \in 1 .. Len(history) /\ history[x.epoch].state = "active" /\ history[x.epoch].cid = x.cid
    BY <1>2, <2>1, <2>3 DEF Genuine, Empty, EventSnapshot
  <2>10. x.cid = x.epoch /\ x.epoch # 0
    BY <1>1, <2>9, Shapes DEF Core, EventsStand, Begins, Ends
  <2>11. Target(attempt["large"][r].snap) = x.epoch /\ attempt["small"][r].at # "none"
    BY <1>1, <2>2, <2>3, <2>10 DEF ResultsStand, Retained
  <2>12. /\ "active" \in Retained /\ attempt["large"][r].at # "none" /\ Other("large") = "small"
         /\ b.cid = Target(b.snap)
    BY <2>1, <2>2, <2>8, <2>10, <2>11, SideFacts DEF Retained
  <2>13. Grows /\ Core'
    BY ZenonT(60), <1>1, <1>3, <1>8, <2>5, <2>7, <2>8, <2>11, <2>12, RowsConsentStep
  <2> QED BY <1>11, <2>7, <2>13
<1> QED BY <1>12, <1>13

LEMMA ReviewStep ==
  ASSUME IInv, NEW s \in Sides, NEW c \in Codes, NEW r \in Requests, Review(s, c, r)
  PROVE  IInv' /\ Grows
<1>1. TypeOK /\ Core /\ ResultsStand /\ WireStands /\ WorkerStands /\ "small" \in Sides
  BY SideFacts DEF IInv, Core
<1>2. PICK x \in Snapshot : x = pair["small"] /\ Genuine(x)
  BY <1>1, Shapes DEF Core, PairsStand
<1>3. /\ inviter[c] = Other(s) /\ \A t \in Sides : attempt[t][r].at = "none"
      /\ x.state = "active" \/ x.epoch + 2 <= MaxEpoch
      /\ IF x.state = "disconnected" THEN Apply(s, x) ELSE UNCHANGED sideVars
      /\ UNCHANGED <<history, result, outbox, leaving, inviter>> /\ UNCHANGED <<wire, worker>>
      /\ outbox \subseteq outbox'
  BY <1>2 DEF Review, coordinatorVars, codeVars
<1>4. PICK b \in Attempt :
         /\ b = NewRow("draft", x, c, FALSE)
         /\ b.at = "draft" /\ b.snap = x /\ b.code = c /\ b.admission = FALSE
  <2>1. PICK v \in {"draft", "admitted"}, g \in BOOLEAN : v = "draft" /\ g = FALSE
    OBVIOUS
  <2>2. PICK b : b = NewRow(v, x, c, g)
    OBVIOUS
  <2>3. b \in Attempt /\ b.at = v /\ b.snap = x /\ b.code = c /\ b.admission = g
    BY <2>2, NewRowFacts
  <2> QED BY <2>1, <2>2, <2>3, Zenon
<1>5. attempt' = [attempt EXCEPT ![s][r] = b]
  <2>1. attempt' = [attempt EXCEPT ![s][r] = [NoAttempt EXCEPT !.at = "draft", !.snap = x, !.code = c]]
    BY <1>2 DEF Review
  <2>2. [NoAttempt EXCEPT !.at = "draft", !.snap = x, !.code = c] = b
    <3>1. PICK z : z = NoAttempt
      OBVIOUS
    <3>2. PICK a1, a2, a3, a4, a5 : /\ z = [at |-> a1, snap |-> a2, code |-> a3, admission |-> a4, cid |-> a5]
                                    /\ a4 = FALSE
      BY <3>1, Zenon DEF NoAttempt
    <3>3. PICK y : y = [z EXCEPT !.at = "draft", !.snap = x, !.code = c]
      OBVIOUS
    <3>4. y = [at |-> "draft", snap |-> x, code |-> c, admission |-> a4, cid |-> a5]
      BY <3>2, <3>3
    <3>5. b = [z EXCEPT !.at = "draft", !.snap = x, !.code = c, !.admission = a4]
      BY <1>4, <3>1, <3>2, Zenon DEF NewRow
    <3>6. b = [at |-> "draft", snap |-> x, code |-> c, admission |-> a4, cid |-> a5]
      BY <3>2, <3>5
    <3> QED BY <3>1, <3>3, <3>4, <3>6
  <2> QED BY <2>1, <2>2
<1>6. /\ attempt' \in [Sides -> [Requests -> Attempt]] /\ attempt'[s][r] = b
      /\ \A t \in Sides, q \in Requests : t # s \/ q # r => attempt'[t][q] = attempt[t][q]
  BY ZenonT(60), <1>1, <1>5, CellUpdate
<1>7. /\ pair' \in [Sides -> Snapshot] /\ tomb' \in [Sides -> SUBSET Epochs]
      /\ stale' \in [Sides -> SUBSET (Codes \cup Requests)]
  <2>1. CASE x.state = "disconnected"
    BY <1>1, <1>3, <2>1, ApplyTypes
  <2>2. CASE x.state # "disconnected"
    BY <1>1, <1>3, <2>2 DEF TypeOK, sideVars
  <2> QED BY <2>1, <2>2
<1>8. TypeOK'
  BY <1>1, <1>6, <1>7 DEF Review, TypeOK, coordinatorVars, codeVars
<1>9. \A t \in Sides : SideStep(t)
  <2>1. CASE x.state = "disconnected"
    BY <1>1, <1>2, <1>3, <2>1, AppliesSides
  <2>2. CASE x.state # "disconnected"
    BY <1>1, <1>3, <2>2, SideStill DEF sideVars
  <2> QED BY <2>1, <2>2
<1>10. \A t \in Sides, q \in Requests : CellGrows(t, q)
  <2>1. attempt[s][r].at = "none"
    BY <1>3
  <2> QED BY <1>1, <1>5, <2>1, CellStep
<1>11. Grows
  BY <1>1, <1>3, <1>9, <1>10, SidesGrow
<1>12. Target(x) <= pair'[s].epoch + 1
  <2>0. pair'[s].epoch \in Nat /\ x.epoch \in Nat
    BY <1>7, SnapshotFacts
  <2>1. CASE x.state = "disconnected"
    <3>1. pair'[s].epoch >= x.epoch
      BY <1>1, <1>2, <1>3, <2>1, ApplyStands
    <3>2. Target(x) = x.epoch + 1
      BY <2>1 DEF Target
    <3> QED BY <2>0, <3>1, <3>2
  <2>2. CASE x.state # "disconnected"
    <3>1. pair'[s] = pair[s]
      BY <1>3, <2>2 DEF sideVars
    <3> QED BY <1>1, <1>2, <2>2, <3>1, LearnedTarget
  <2> QED BY <2>1, <2>2
<1>13. Other(s) \in Sides /\ Other(s) # s /\ attempt'[Other(s)][r].at = "none" /\ attempt[Other(s)][r].at = "none"
  <2>1. Other(s) \in Sides /\ Other(s) # s
    BY SideFacts
  <2> QED BY <1>3, <1>6, <2>1
<1>14. AttemptStands(s, r)'
  <2>1. Genuine(x)'
    BY <1>1, <1>2, <1>8, <1>11, GenuineGrows
  <2>2. Genuine(attempt[s][r].snap)'
    BY <1>4, <1>6, <2>1
  <2>3. /\ attempt'[s][r].at = "draft" /\ attempt'[s][r].snap = x /\ attempt'[s][r].code = c
        /\ ~attempt'[s][r].admission
    BY <1>4, <1>6, Zenon
  <2> QED BY <1>3, <1>12, <1>13, <2>2, <2>3 DEF AttemptStands
<1>15. AttemptsStand'
  <2>1. attempt[s][r].at = "none"
    BY <1>3
  <2> QED BY <1>1, <1>5, <1>8, <1>11, <1>13, <1>14, <2>1, NewConsent
<1>16. ~Outdated(s, r)'
  <2>1. r \notin stale[s] /\ r \notin Dated(s)
    BY <1>1, <1>3, RequestAssumption DEF Core, StaleStands, Dated
  <2>2. r \notin stale'[s]
    BY <1>9, <2>1 DEF SideStep
  <2>3. attempt'[s][r].code = c
    BY <1>4, <1>6
  <2> QED BY <1>3, <1>13, <2>2, <2>3 DEF Outdated
<1>17. \A t \in Sides, q \in Requests :
          attempt[t][q].at = "none" /\ attempt'[t][q].at # "none" => ~Outdated(t, q)'
  BY <1>6, <1>16
<1>18. Core'
  BY <1>1, <1>3, <1>8, <1>9, <1>11, <1>15, <1>17, SidesCore
<1> QED BY <1>1, <1>3, <1>8, <1>11, <1>18, WorkersStill DEF IInv

(* A side that uses a connection has learned all that its consents lead to.*)
LEMMA ActiveTargets ==
  ASSUME TypeOK, Core, NEW s \in Sides, pair[s].state = "active", NEW r \in Requests, attempt[s][r].at # "none"
  PROVE  pair[s].epoch >= Target(attempt[s][r].snap)
<1>1. PICK y \in Snapshot : y = attempt[s][r].snap
  BY AttemptFacts
<1>2. Genuine(y) /\ Target(y) <= pair[s].epoch + 1 /\ Target(y) \in Nat
  BY <1>1, SnapshotFacts DEF Core, AttemptsStand, AttemptStands
<1>3. pair[s].epoch \in 1 .. Len(history) /\ history[pair[s].epoch].state = "active" /\ pair[s].epoch \in Nat
  BY ActivePair, Shapes, SnapshotFacts
<1>4. Target(y) # pair[s].epoch + 1
  BY <1>2, <1>3, TargetSkips DEF Core
<1> QED BY <1>1, <1>2, <1>3, <1>4

(* The coordinator appends an event.                                       *)
LEMMA AppendCore ==
  ASSUME TypeOK, TypeOK', Core, NEW e, e = Len(history) + 1, Len(history') = e, history' # <<>>,
         \A f \in 1 .. Len(history) : history'[f] = history[f], e <= MaxEpoch,
         Begins(e)' \/ Ends(e)',
         pair'["small"] = EventSnapshot(e)',
         pair'["large"] = pair["large"], tomb'["large"] = tomb["large"], stale'["large"] = stale["large"],
         tomb["small"] \subseteq tomb'["small"], TombsAt("small")',
         \/ stale'["small"] = stale["small"]
         \/ /\ stale'["small"] = stale["small"] \cup Dated("small")
            /\ \E c \in tomb'["small"] : \A r \in Requests :
                 attempt["small"][r].at # "none" => c >= Target(attempt["small"][r].snap),
         outbox' = outbox \cup {[epoch |-> e, request |-> history'[e].request]},
         history'[e].request # None => result'[history'[e].request] = e,
         history'[e].request = None => history'[e].state = "disconnected",
         \A r \in Requests : result[r] # 0 => result'[r] = result[r],
         \A r \in Requests : result[r] = 0 /\ result'[r] # 0 =>
            /\ result'[r] = e /\ history'[e].state = "active"
            /\ \A s \in Sides : attempt[s][r].at \in Retained /\ Target(attempt[s][r].snap) = e,
         UNCHANGED <<attempt, leaving, inviter>>
  PROVE  Grows /\ Core'
<1>0. Len(history) \in Nat /\ e \in Nat /\ e \in 1 .. Len(history') /\ "small" \in Sides /\ "large" \in Sides
  BY Shapes, SideFacts
<1>1. Grows
  <2>1. pair["small"].epoch = Len(history) /\ pair'["small"].epoch = e /\ pair["large"].epoch \in Nat
    BY <1>0, Shapes, SnapshotFacts DEF Core, PairsStand, EventSnapshot
  <2>2. \A s \in Sides : pair'[s].epoch >= pair[s].epoch /\ tomb[s] \subseteq tomb'[s]
    BY <1>0, <2>1, SideFacts
  <2>3. Len(history') >= Len(history)
    BY <1>0
  <2> QED BY <2>2, <2>3 DEF Grows, CellGrows
<1>2. EventsStand'
  <2>1. ASSUME NEW f \in 1 .. Len(history')
        PROVE  Begins(f)' \/ Ends(f)'
    <3>1. CASE f = e
      BY <3>1
    <3>2. CASE f # e
      <4>1. f \in 1 .. Len(history) /\ f \in Nat /\ f # 0
        BY <1>0, <3>2
      <4>2. history'[f] = history[f] /\ (f > 1 => history'[f - 1] = history[f - 1])
        BY <1>0, <4>1
      <4>3. Begins(f) \/ Ends(f)
        BY <4>1 DEF Core, EventsStand
      <4>4. CASE Begins(f)
        BY <4>1, <4>2, <4>4 DEF Begins
      <4>5. CASE Ends(f)
        BY <4>1, <4>2, <4>5 DEF Ends
      <4> QED BY <4>3, <4>4, <4>5
    <3> QED BY <3>1, <3>2
  <2> QED BY <2>1 DEF EventsStand
<1>3. PairsStand'
  <2>1. Genuine(pair["small"])'
    BY <1>0 DEF Genuine, EventSnapshot
  <2>2. Genuine(pair["large"])'
    <3>1. PICK x \in Snapshot : x = pair["large"] /\ Genuine(x)
      BY <1>0, Shapes DEF Core, PairsStand
    <3>2. Genuine(x)'
      BY <1>1, <3>1, GenuineGrows
    <3> QED BY <3>1, <3>2
  <2>3. pair'["small"].epoch = Len(history')
    BY DEF EventSnapshot
  <2> QED BY <2>1, <2>2, <2>3, SideFacts DEF PairsStand
<1>4. ResultsStand'
  <2>1. ASSUME NEW r \in Requests, result'[r] # 0
        PROVE  /\ result'[r] \in 1 .. Len(history') /\ history'[result'[r]].state = "active"
               /\ \A s \in Sides : attempt'[s][r].at \in Retained /\ Target(attempt'[s][r].snap) = result'[r]
    <3>1. CASE result[r] # 0
      BY <1>1, <3>1, ResultsKept DEF Core
    <3>2. CASE result[r] = 0
      BY <1>0, <2>1, <3>2
    <3> QED BY <3>1, <3>2
  <2> QED BY <2>1 DEF ResultsStand, Target, Retained
<1>5. OutboxStands'
  <2>1. ASSUME NEW job \in outbox'
        PROVE  /\ job.epoch \in 1 .. Len(history')
               /\ job.request # None => result'[job.request] = job.epoch
               /\ job.request = None => history'[job.epoch].state = "disconnected"
    <3>1. CASE job \in outbox
      BY <1>1, <3>1, OutboxKept DEF Core
    <3>2. CASE job = [epoch |-> e, request |-> history'[e].request]
      <4>1. job.epoch = e /\ job.request = history'[e].request
        BY <3>2
      <4> QED BY <1>0, <4>1
    <3> QED BY <3>1, <3>2
  <2> QED BY <2>1 DEF OutboxStands
<1>6. AttemptsStand'
  BY <1>1, AttemptsKept DEF Core
<1>7. TombsStand'
  <2>1. TombsAt("large")'
    <3>0. TombsAt("large") /\ pair["large"].epoch \in Nat /\ pair["large"].epoch <= Len(history)
      <4>1. Genuine(pair["large"]) /\ pair["large"].epoch \in Nat /\ TombsAt("large")
        BY <1>0, Shapes, SnapshotFacts DEF Core, PairsStand, TombsStand
      <4> QED BY <1>0, <4>1 DEF Genuine, Empty
    <3>1. ASSUME NEW c \in tomb'["large"]
          PROVE  c \in 1 .. pair'["large"].epoch /\ (c \in leaving'["large"] \/ Ended(c)' # {})
      <4>1. Ended(c) \subseteq Ended(c)'
        BY <1>0 DEF Ended
      <4> QED BY <3>0, <4>1 DEF TombsAt
    <3>2. ASSUME NEW c \in leaving'["large"]
          PROVE  c \in 1 .. Len(history') /\ history'[c].state = "active"
      <4>1. c \in 1 .. Len(history) /\ history[c].state = "active"
        BY <3>0 DEF TombsAt
      <4> QED BY <1>0, <4>1
    <3>3. ASSUME NEW f \in 1 .. pair'["large"].epoch, history'[f].state = "disconnected"
          PROVE  history'[f].cid \in tomb'["large"]
      <4>1. f \in 1 .. pair["large"].epoch /\ f \in 1 .. Len(history)
        BY <1>0, <3>0
      <4> QED BY <3>0, <3>3, <4>1 DEF TombsAt
    <3> QED BY <3>0, <3>1, <3>2, <3>3 DEF TombsAt
  <2> QED BY <2>1, SideFacts DEF TombsStand
<1>8. StaleStands'
  <2>1. ASSUME NEW s \in Sides, NEW r \in Requests, r \in stale'[s]
        PROVE  attempt'[s][r].at # "none"
    <3>1. r \in stale[s] \/ (s = "small" /\ r \in Dated("small"))
      BY <2>1, SideFacts
    <3>2. r \in stale[s] => attempt[s][r].at # "none"
      BY DEF Core, StaleStands
    <3>3. r \in Dated("small") => attempt["small"][r].at # "none"
      BY RequestAssumption DEF Dated
    <3> QED BY <3>1, <3>2, <3>3
  <2>2. ASSUME NEW s \in Sides, NEW r \in Requests, attempt'[s][r].at # "none", Outdated(s, r)'
        PROVE  \E c \in tomb'[s] : c >= Target(attempt'[s][r].snap)
    <3>1. CASE stale'[s] = stale[s]
      <4>1. Outdated(s, r) /\ attempt[s][r].at # "none"
        BY <2>2, <3>1 DEF Outdated
      <4>2. PICK c \in tomb[s] : c >= Target(attempt[s][r].snap)
        BY <4>1 DEF Core, StaleStands
      <4>3. c \in tomb'[s]
        BY <1>1, <4>2 DEF Grows
      <4> QED BY <4>2, <4>3
    <3>2. CASE stale'[s] # stale[s]
      <4>1. s = "small"
        BY <3>2, SideFacts
      <4> QED BY <2>2, <3>2, <4>1
    <3> QED BY <3>1, <3>2
  <2> QED BY <2>1, <2>2 DEF StaleStands, Target
<1>9. Replicates'
  <2>1. ASSUME NEW f \in 1 .. Len(history')
        PROVE  [epoch |-> f, request |-> history'[f].request] \in outbox' \/ Acked(EventSnapshot(f))'
    <3>1. CASE f = e
      BY <3>1
    <3>2. CASE f # e
      <4>1. f \in 1 .. Len(history)
        BY <1>0, <3>2
      <4>2. outbox \subseteq outbox' /\ Replicates
        BY DEF Core
      <4> QED BY <1>1, <4>1, <4>2, ReplicatesKept
    <3> QED BY <3>1, <3>2
  <2> QED BY <2>1 DEF Replicates
<1> QED BY <1>1, <1>2, <1>3, <1>4, <1>5, <1>6, <1>7, <1>8, <1>9 DEF Core

LEMMA AppendFacts ==
  ASSUME TypeOK, NEW st \in {"active", "disconnected"}, NEW c \in Epochs, NEW q \in Requests \cup {None},
         history' = Append(history, [state |-> st, cid |-> c, request |-> q]),
         NEW e, e = Len(history) + 1
  PROVE  /\ history' \in Seq([state: {"active", "disconnected"}, cid: Epochs, request: Requests \cup {None}])
         /\ Len(history') = e /\ history' # <<>>
         /\ \A f \in 1 .. Len(history) : history'[f] = history[f]
         /\ history'[e].state = st /\ history'[e].cid = c /\ history'[e].request = q
<1> DEFINE Event == [state: {"active", "disconnected"}, cid: Epochs, request: Requests \cup {None}]
<1>1. history \in Seq(Event)
  BY DEF TypeOK
<1>2. PICK v \in Event : v = [state |-> st, cid |-> c, request |-> q]
  OBVIOUS
<1>3. v.state = st /\ v.cid = c /\ v.request = q
  BY <1>2
<1>4. history' = Append(history, v)
  BY <1>2
<1> HIDE DEF Event
<1>5. history' \in Seq(Event) /\ Len(history') = e /\ history' # <<>>
  BY <1>1, <1>2, <1>4
<1>6. \A f \in 1 .. Len(history) : history'[f] = history[f]
  BY <1>1, <1>2, <1>4
<1>7. history'[e] = v
  BY <1>1, <1>2, <1>4
<1> QED BY <1>3, <1>5, <1>6, <1>7 DEF Event

(* coordinatorDisconnect appends the end of the connection in force.       *)
LEMMA EndsCore ==
  ASSUME TypeOK, TypeOK', Core, NEW e \in Nat, e = Len(history) + 1, e <= MaxEpoch,
         pair["small"].state = "active",
         history' = Append(history, [state |-> "disconnected", cid |-> pair["small"].cid, request |-> None]),
         NEW n \in Snapshot, n = [epoch |-> e, state |-> "disconnected", cid |-> pair["small"].cid],
         Apply("small", n), outbox' = outbox \cup {[epoch |-> e, request |-> None]},
         UNCHANGED <<result, attempt, leaving, inviter>>
  PROVE  Grows /\ Core' /\ Genuine(n)'
<1>1. /\ "small" \in Sides /\ "large" \in Sides /\ "large" # "small" /\ Len(history) \in Nat
      /\ pair["small"].epoch = Len(history)
  BY SideFacts, Shapes DEF Core, PairsStand
<1>2. PICK l \in Nat : l = Len(history) /\ l = pair["small"].epoch /\ l = pair["small"].cid /\ l \in 1 .. Len(history)
                       /\ history[l].state = "active"
  BY <1>1, ActivePair
<1>3. n.epoch = e /\ n.state = "disconnected" /\ n.cid = l
  BY <1>2
<1>4. l \in Epochs
  BY <1>1, <1>2, Shapes, SnapshotFacts, BoundAssumption DEF Epochs
<1>5. /\ Len(history') = e /\ history' # <<>> /\ \A f \in 1 .. Len(history) : history'[f] = history[f]
      /\ history'[e].state = "disconnected" /\ history'[e].cid = l /\ history'[e].request = None
  <2>1. history' = Append(history, [state |-> "disconnected", cid |-> l, request |-> None])
    BY <1>2
  <2> QED BY <1>4, <2>1, AppendFacts
<1>6. /\ pair'["large"] = pair["large"] /\ tomb'["large"] = tomb["large"] /\ stale'["large"] = stale["large"]
      /\ tomb'["small"] = Buried("small", n)
      /\ Adopts("small", n) => pair'["small"] = n
      /\ stale'["small"] = stale["small"] \/ stale'["small"] = stale["small"] \cup Dated("small")
  BY <1>1, ApplyFacts
<1>7. tomb'["small"] = tomb["small"] \cup {l}
  BY <1>3, <1>6 DEF Buried
<1>8. pair'["small"] = n
  BY <1>1, <1>2, <1>3, <1>6 DEF Adopts
<1>9. n = EventSnapshot(e)'
  <2>1. n = [epoch |-> e, state |-> "disconnected", cid |-> l]
    BY <1>2
  <2> QED BY <1>5, <2>1 DEF EventSnapshot
<1>10. Ends(e)'
  <2>1. e > 1 /\ e - 1 = l /\ history'[l] = history[l]
    BY <1>2, <1>5
  <2> QED BY <1>2, <1>5, <2>1 DEF Ends
<1>11. TombsAt("small")'
  <2>0. TombsAt("small") /\ e \in 1 .. Len(history')
    BY <1>1, <1>5 DEF Core, TombsStand
  <2>1. ASSUME NEW c \in tomb'["small"]
        PROVE  c \in 1 .. pair'["small"].epoch /\ (c \in leaving'["small"] \/ Ended(c)' # {})
    <3>1. CASE c = l
      <4>1. e \in Ended(l)'
        BY <1>5, <2>0 DEF Ended
      <4>2. Ended(c)' # {}
        BY <3>1, <4>1
      <4>3. pair'["small"].epoch = l + 1 /\ c \in 1 .. l
        BY <1>2, <1>3, <1>8, <3>1
      <4>4. c \in 1 .. pair'["small"].epoch
        BY <4>3
      <4> QED BY <4>2, <4>4
    <3>2. CASE c \in tomb["small"]
      <4>1. c \in 1 .. l /\ (c \in leaving["small"] \/ Ended(c) # {})
        BY <1>2, <2>0, <3>2 DEF TombsAt
      <4>2. Ended(c) \subseteq Ended(c)'
        BY <1>1, <1>5 DEF Ended
      <4>3. pair'["small"].epoch = l + 1
        BY <1>2, <1>3, <1>8
      <4>4. c \in 1 .. pair'["small"].epoch
        BY <4>1, <4>3
      <4> QED BY <4>1, <4>2, <4>4
    <3> QED BY <1>7, <3>1, <3>2
  <2>2. ASSUME NEW c \in leaving'["small"]
        PROVE  c \in 1 .. Len(history') /\ history'[c].state = "active"
    <3>1. c \in 1 .. Len(history) /\ history[c].state = "active"
      BY <2>0 DEF TombsAt
    <3> QED BY <1>1, <1>5, <3>1
  <2>3. ASSUME NEW f \in 1 .. pair'["small"].epoch, history'[f].state = "disconnected"
        PROVE  history'[f].cid \in tomb'["small"]
    <3>1. CASE f = e
      BY <1>5, <1>7, <3>1
    <3>2. CASE f # e
      <4>1. f \in 1 .. pair["small"].epoch /\ f \in 1 .. Len(history)
        BY <1>1, <1>3, <1>8, <3>2
      <4> QED BY <1>5, <1>7, <2>0, <2>3, <4>1 DEF TombsAt
    <3> QED BY <3>1, <3>2
  <2>4. pair'["small"].state # "active"
    BY <1>3, <1>8
  <2> QED BY <2>1, <2>2, <2>3, <2>4 DEF TombsAt
<1>12. \E c \in tomb'["small"] : \A r \in Requests :
          attempt["small"][r].at # "none" => c >= Target(attempt["small"][r].snap)
  <2>1. \A r \in Requests : attempt["small"][r].at # "none" => l >= Target(attempt["small"][r].snap)
    BY <1>1, <1>2, ActiveTargets
  <2> QED BY <1>7, <2>1
<1>13. outbox' = outbox \cup {[epoch |-> e, request |-> history'[e].request]}
  BY <1>5
<1>14. pair'["small"] = EventSnapshot(e)' /\ tomb["small"] \subseteq tomb'["small"]
  BY <1>7, <1>8, <1>9
<1>15. /\ history'[e].request = None /\ history'[e].state = "disconnected"
       /\ \A r \in Requests : result'[r] = result[r]
  BY <1>5
<1>16. Grows /\ Core'
  BY <1>5, <1>6, <1>10, <1>11, <1>12, <1>13, <1>14, <1>15, AppendCore
<1>17. Genuine(n)'
  <2>1. n.epoch \in 1 .. Len(history')
    BY <1>3, <1>5
  <2> QED BY <1>3, <1>9, <2>1 DEF Genuine
<1> QED BY <1>16, <1>17

LEMMA HandleDisconnectStep ==
  ASSUME IInv, NEW m \in wire, HandleDisconnect(m)
  PROVE  IInv' /\ Grows
<1>1. TypeOK /\ Core /\ EventsStand /\ ResultsStand /\ WireStands /\ WorkerStands /\ "small" \in Sides
  BY SideFacts DEF IInv, Core
<1>2. m.step = "disconnect" /\ m.snap \in Snapshot /\ Genuine(m.snap) /\ m.snap.state = "active"
  BY HandledFacts DEF HandleDisconnect, MessageStands
<1>3. UNCHANGED <<attempt, leaving, codeVars, lapsed, faults>> /\ "result" \in Answers /\ Empty \in Snapshot
  BY EmptyFacts DEF HandleDisconnect, Answers
<1>4. ASSUME NEW f \in Ended(m.snap.cid), Answer(m, "result", EventSnapshot(f), Empty), UNCHANGED <<coordinatorVars, sideVars>>
      PROVE  IInv' /\ Grows
  <2>1. f \in 1 .. Len(history) /\ history[f].state = "disconnected"
    BY <1>4 DEF Ended
  <2>2. PICK x \in Snapshot : x = EventSnapshot(f) /\ Genuine(x) /\ x.state = "disconnected"
    BY <1>1, <2>1, EventFacts
  <2>3. Answer(m, "result", x, Empty)
    BY <1>4, <2>2
  <2> QED BY <1>2, <1>3, <1>4, <2>2, <2>3, AnsweringStep
<1>5. ASSUME NEW n, n = [epoch |-> pair["small"].epoch + 1, state |-> "disconnected", cid |-> m.snap.cid],
             Ended(m.snap.cid) = {}, pair["small"].cid = m.snap.cid,
             history' = Append(history, [state |-> "disconnected", cid |-> m.snap.cid, request |-> None]),
             outbox' = Queued(n.epoch, None), Apply("small", n), Answer(m, "result", n, Empty), result' = result
      PROVE  IInv' /\ Grows
  <2>1. /\ pair["small"] \in Snapshot /\ Genuine(pair["small"]) /\ pair["small"].epoch = Len(history)
        /\ Len(history) \in Nat
    BY <1>1, Shapes DEF Core, PairsStand
  <2>2. m.snap.epoch \in 1 .. Len(history) /\ m.snap.cid = history[m.snap.epoch].cid
        /\ history[m.snap.epoch].state = "active"
    BY <1>2 DEF Genuine, Empty, EventSnapshot
  <2>3. m.snap.cid = m.snap.epoch /\ m.snap.cid # 0
    BY <1>1, <2>1, <2>2 DEF EventsStand, Begins, Ends
  <2>4. pair["small"].epoch \in 1 .. Len(history) /\ pair["small"] = EventSnapshot(pair["small"].epoch)
    BY <1>5, <2>1, <2>3 DEF Genuine, Empty
  <2>5. pair["small"].state = "active"
    <3>1. pair["small"].state = history[pair["small"].epoch].state /\ pair["small"].cid = history[pair["small"].epoch].cid
      BY <2>4 DEF EventSnapshot
    <3>2. pair["small"].state # "disconnected"
      BY <1>5, <2>4, <3>1 DEF Ended
    <3> QED BY <1>1, <2>4, <3>1, <3>2, Shapes
  <2>6. pair["small"].epoch < MaxEpoch
    <3>1. history[pair["small"].epoch].state = "active"
      BY <1>1, <2>5, ActivePair
    <3> QED BY <1>1, <2>4, <3>1 DEF EventsStand, Begins, Ends
  <2>7. PICK e \in Nat : e = Len(history) + 1 /\ e <= MaxEpoch
    BY <2>1, <2>6, BoundAssumption
  <2>8. n = [epoch |-> e, state |-> "disconnected", cid |-> pair["small"].cid]
    BY <1>5, <2>1, <2>7
  <2>9. n \in Snapshot
    BY <2>1, <2>7, <2>8, BoundAssumption DEF Snapshot, Epochs
  <2>10. /\ history' = Append(history, [state |-> "disconnected", cid |-> pair["small"].cid, request |-> None])
         /\ outbox' = outbox \cup {[epoch |-> e, request |-> None]}
         /\ outbox \subseteq outbox'
    <3>1. n.epoch = e
      BY <2>8
    <3> QED BY <1>5, <3>1 DEF Queued
  <2>11. TypeOK'
    <3>1. pair["small"].cid \in Epochs /\ e \in Epochs
      BY <2>1, <2>7, BoundAssumption DEF Snapshot, Epochs
    <3>2. history' \in Seq([state: {"active", "disconnected"}, cid: Epochs, request: Requests \cup {None}])
      BY <1>1, <2>7, <2>10, <3>1, AppendFacts
    <3>3. /\ pair' \in [Sides -> Snapshot] /\ tomb' \in [Sides -> SUBSET Epochs]
          /\ stale' \in [Sides -> SUBSET (Codes \cup Requests)]
      BY <1>1, <1>5, <2>9, ApplyTypes
    <3>4. wire' \subseteq Message /\ worker' \in [Sides -> Waits(outbox')]
      BY <1>1, <1>3, <1>5, <2>9, <2>10, AnswerFacts
    <3>5. outbox' \subseteq [epoch: Epochs, request: Requests \cup {None}]
      BY <1>1, <2>10, <3>1 DEF TypeOK
    <3> QED BY <1>1, <1>3, <1>5, <3>2, <3>3, <3>4, <3>5 DEF TypeOK, Waits, codeVars
  <2>12. Grows /\ Core' /\ Genuine(n)'
    BY <1>1, <1>3, <1>5, <2>5, <2>7, <2>8, <2>9, <2>10, <2>11, EndsCore DEF codeVars
  <2>13. n.state = "disconnected"
    BY <2>8
  <2>14. WireStands' /\ WorkerStands'
    BY <1>1, <1>2, <1>3, <1>5, <2>9, <2>10, <2>11, <2>12, <2>13, AnswerStep
  <2> QED BY <2>11, <2>12, <2>14 DEF IInv
<1> QED BY <1>4, <1>5 DEF HandleDisconnect

(* A request to activate comes with the consent of both sides.             *)
LEMMA CommitConsents ==
  ASSUME IInv, NEW m \in wire, m.step = "commit", NEW r \in Requests, r = m.request
  PROVE  /\ \A s \in Sides : attempt[s][r].at \in Retained /\ attempt[s][r].snap = m.snap
         /\ m.snap.state # "active" => m.snap.epoch + 2 <= MaxEpoch
<1>1. PICK s \in Sides : s = m.from /\ Other(s) \in Sides
  BY HandledFacts
<1>2. /\ attempt[s][r].at \in Retained /\ attempt[s][r].snap = m.snap /\ attempt[s][r].admission
      /\ inviter[attempt[s][r].code] = Other(s)
  BY <1>1, HandledFacts DEF AdmitStands
<1>3. AttemptStands(s, r) /\ attempt[s][r].at # "none"
  BY <1>1, <1>2 DEF IInv, Core, AttemptsStand, Retained
<1>4. attempt[Other(s)][r].at # "none" /\ attempt[Other(s)][r].snap = m.snap
      /\ attempt[Other(s)][r].code = attempt[s][r].code
  BY <1>2, <1>3 DEF AttemptStands
<1>5. AttemptStands(Other(s), r)
  BY <1>1, <1>4 DEF IInv, Core, AttemptsStand
<1>6. attempt[Other(s)][r].at \in Retained
  BY <1>2, <1>4, <1>5 DEF AttemptStands
<1>7. \A t \in Sides : t = s \/ t = Other(s)
  BY <1>1, SideFacts
<1>8. m.snap.state # "active" => m.snap.epoch + 2 <= MaxEpoch
  BY <1>2, <1>3 DEF AttemptStands
<1> QED BY <1>2, <1>4, <1>6, <1>7, <1>8

(* The reviewed state that converges leads to the connection in force.     *)
LEMMA ConvergesTarget ==
  ASSUME TypeOK, Core, NEW x \in Snapshot, Genuine(x), pair["small"].state = "active",
         x.epoch \in {pair["small"].epoch, pair["small"].epoch - 1}
  PROVE  Target(x) = pair["small"].epoch
<1>1. "small" \in Sides /\ x.epoch \in Nat /\ Len(history) \in Nat
  BY SideFacts, SnapshotFacts, Shapes
<1>2. PICK l \in 1 .. Len(history) : l = pair["small"].epoch /\ history[l].state = "active" /\ l \in Nat
  BY <1>1, ActivePair
<1>3. CASE x.epoch = l
  <2>1. x = EventSnapshot(l)
    BY <1>1, <1>2, <1>3 DEF Genuine, Empty
  <2>2. x.state = "active"
    BY <1>2, <2>1 DEF EventSnapshot
  <2> QED BY <1>2, <1>3, <2>2 DEF Target
<1>4. CASE x.epoch = l - 1
  <2>1. x.state # "active"
    <3>1. CASE x = Empty
      BY <3>1 DEF Empty
    <3>2. CASE x # Empty
      <4>1. x.epoch \in 1 .. Len(history) /\ x.state = history[x.epoch].state
        BY <3>2 DEF Genuine, EventSnapshot
      <4>2. Begins(l) \/ Ends(l)
        BY DEF Core, EventsStand
      <4>3. history[l - 1].state = "disconnected"
        BY <1>1, <1>2, <1>4, <4>1, <4>2 DEF Begins, Ends
      <4> QED BY <1>4, <4>1, <4>3
    <3> QED BY <3>1, <3>2
  <2> QED BY <1>1, <1>2, <1>4, <2>1 DEF Target
<1> QED BY <1>2, <1>3, <1>4

(* coordinatorConnect answers with the connection in force.                *)
LEMMA ConvergesCore ==
  ASSUME TypeOK, TypeOK', Core, NEW r \in Requests, result[r] = 0, pair["small"].state = "active",
         NEW e, e = pair["small"].epoch, result' = [result EXCEPT ![r] = e],
         outbox' = outbox \cup {[epoch |-> e, request |-> r]},
         \A s \in Sides : attempt[s][r].at \in Retained /\ Target(attempt[s][r].snap) = e,
         UNCHANGED <<history, pair, tomb, stale, attempt, leaving, inviter>>
  PROVE  Grows /\ Core'
<1>1. /\ e \in 1 .. Len(history) /\ history[e].state = "active" /\ r # None
      /\ outbox \subseteq outbox'
  BY SideFacts, ActivePair, RequestAssumption
<1>2. result'[r] = e /\ \A q \in Requests : q # r => result'[q] = result[q]
  BY DEF TypeOK
<1>3. Grows
  <2>1. \A s \in Sides : pair[s].epoch \in Nat
    BY Shapes, SnapshotFacts
  <2>2. \A s \in Sides : pair'[s].epoch >= pair[s].epoch
    BY <2>1
  <2>3. Len(history') >= Len(history)
    BY Shapes
  <2>4. \A q \in Requests : result[q] # 0 => result'[q] = result[q]
    BY <1>2
  <2> QED BY <2>2, <2>3, <2>4 DEF Grows, CellGrows
<1>4. EventsStand'
  BY <1>3, EventsKept DEF Core
<1>5. PairsStand'
  BY DEF Core, PairsStand, Genuine, EventSnapshot
<1>6. ResultsStand'
  <2>1. ASSUME NEW q \in Requests, result'[q] # 0
        PROVE  /\ result'[q] \in 1 .. Len(history') /\ history'[result'[q]].state = "active"
               /\ \A s \in Sides : attempt'[s][q].at \in Retained /\ Target(attempt'[s][q].snap) = result'[q]
    <3>1. CASE result[q] # 0
      BY <1>3, <3>1, ResultsKept DEF Core
    <3>2. CASE result[q] = 0
      <4>1. q = r
        BY <1>2, <2>1, <3>2
      <4> QED BY <1>1, <1>2, <4>1
    <3> QED BY <3>1, <3>2
  <2> QED BY <2>1 DEF ResultsStand, Target, Retained
<1>7. OutboxStands'
  <2>1. ASSUME NEW job \in outbox'
        PROVE  /\ job.epoch \in 1 .. Len(history')
               /\ job.request # None => result'[job.request] = job.epoch
               /\ job.request = None => history'[job.epoch].state = "disconnected"
    <3>1. CASE job \in outbox
      BY <1>3, <3>1, OutboxKept DEF Core
    <3>2. CASE job = [epoch |-> e, request |-> r]
      <4>1. job.epoch = e /\ job.request = r
        BY <3>2
      <4> QED BY <1>1, <1>2, <4>1
    <3> QED BY <3>1, <3>2
  <2> QED BY <2>1 DEF OutboxStands
<1>8. AttemptsStand'
  BY <1>3, AttemptsKept DEF Core
<1>9. TombsStand'
  BY DEF Core, TombsStand, TombsAt, Ended
<1>10. StaleStands'
  BY DEF Core, StaleStands, Outdated, Target
<1>11. Replicates'
  <2>1. ASSUME NEW f \in 1 .. Len(history')
        PROVE  [epoch |-> f, request |-> history'[f].request] \in outbox' \/ Acked(EventSnapshot(f))'
    BY <1>1, <1>3, ReplicatesKept DEF Core
  <2> QED BY <2>1 DEF Replicates
<1> QED BY <1>3, <1>4, <1>5, <1>6, <1>7, <1>8, <1>9, <1>10, <1>11 DEF Core

(* coordinatorConnect appends the beginning of a connection.               *)
LEMMA BeginsCore ==
  ASSUME TypeOK, TypeOK', Core, NEW r \in Requests, result[r] = 0, pair["small"].state # "active",
         NEW e \in Nat, e = Len(history) + 1, e < MaxEpoch,
         history' = Append(history, [state |-> "active", cid |-> e, request |-> r]),
         NEW n \in Snapshot, n = [epoch |-> e, state |-> "active", cid |-> e],
         Apply("small", n), result' = [result EXCEPT ![r] = e],
         outbox' = outbox \cup {[epoch |-> e, request |-> r]},
         \A s \in Sides : attempt[s][r].at \in Retained /\ Target(attempt[s][r].snap) = e,
         UNCHANGED <<attempt, leaving, inviter>>
  PROVE  Grows /\ Core' /\ Genuine(n)' /\ n = EventSnapshot(e)'
<1>1. /\ "small" \in Sides /\ "large" \in Sides /\ "large" # "small" /\ Len(history) \in Nat
      /\ pair["small"].epoch = Len(history) /\ r # None /\ Genuine(pair["small"]) /\ MaxEpoch \in Nat
  BY SideFacts, Shapes, RequestAssumption DEF Core, PairsStand
<1>2. n.epoch = e /\ n.state = "active" /\ n.cid = e
  OBVIOUS
<1>3. e \in Epochs
  BY <1>1 DEF Epochs
<1>4. /\ Len(history') = e /\ history' # <<>> /\ \A f \in 1 .. Len(history) : history'[f] = history[f]
      /\ history'[e].state = "active" /\ history'[e].cid = e /\ history'[e].request = r
  BY <1>3, AppendFacts
<1>5. result'[r] = e /\ \A q \in Requests : q # r => result'[q] = result[q]
  BY DEF TypeOK
<1>6. Buried("small", n) = tomb["small"]
  BY <1>2 DEF Buried
<1>7. TombsAt("small") /\ e \notin tomb["small"]
  <2>1. TombsAt("small")
    BY <1>1 DEF Core, TombsStand
  <2>2. \A c \in tomb["small"] : c \in 1 .. Len(history)
    BY <1>1, <2>1 DEF TombsAt
  <2> QED BY <1>1, <2>1, <2>2
<1>8. Adopts("small", n)
  <2>1. n.state # "empty" /\ n.epoch >= pair["small"].epoch /\ n.cid \notin Buried("small", n)
    BY <1>1, <1>2, <1>6, <1>7
  <2> QED BY <2>1 DEF Adopts
<1>9. /\ pair'["large"] = pair["large"] /\ tomb'["large"] = tomb["large"] /\ stale'["large"] = stale["large"]
      /\ tomb'["small"] = tomb["small"] /\ pair'["small"] = n /\ stale'["small"] = stale["small"]
  BY <1>1, <1>6, <1>8, ApplyFacts
<1>10. n = EventSnapshot(e)'
  BY <1>4 DEF EventSnapshot
<1>11. Begins(e)'
  <2>1. ASSUME e > 1
        PROVE  history'[e - 1].state = "disconnected"
    <3>1. e - 1 = Len(history) /\ Len(history) \in 1 .. Len(history)
      BY <1>1, <2>1
    <3>2. pair["small"].state = history[Len(history)].state
      BY <1>1, <3>1 DEF Genuine, Empty, EventSnapshot
    <3>3. history[Len(history)].state = "disconnected"
      BY <3>1, <3>2, Shapes
    <3>4. history'[Len(history)] = history[Len(history)]
      BY <1>4, <3>1
    <3> QED BY <3>1, <3>3, <3>4
  <2> QED BY <1>4, <1>5, <2>1 DEF Begins
<1>12. TombsAt("small")'
  <2>1. ASSUME NEW c \in tomb'["small"]
        PROVE  c \in 1 .. pair'["small"].epoch /\ (c \in leaving'["small"] \/ Ended(c)' # {})
    <3>1. c \in 1 .. Len(history) /\ (c \in leaving["small"] \/ Ended(c) # {})
      BY <1>1, <1>7, <1>9 DEF TombsAt
    <3>2. Ended(c) \subseteq Ended(c)'
      BY <1>1, <1>4 DEF Ended
    <3>3. pair'["small"].epoch = e
      BY <1>2, <1>9
    <3>4. c \in 1 .. e
      BY <1>1, <3>1
    <3> QED BY <3>1, <3>2, <3>3, <3>4
  <2>2. ASSUME NEW c \in leaving'["small"]
        PROVE  c \in 1 .. Len(history') /\ history'[c].state = "active"
    <3>1. c \in 1 .. Len(history) /\ history[c].state = "active"
      BY <1>7 DEF TombsAt
    <3> QED BY <1>1, <1>4, <3>1
  <2>3. ASSUME NEW f \in 1 .. pair'["small"].epoch, history'[f].state = "disconnected"
        PROVE  history'[f].cid \in tomb'["small"]
    <3>1. f # e
      BY <1>4, <2>3
    <3>2. f \in 1 .. pair["small"].epoch /\ f \in 1 .. Len(history)
      BY <1>1, <1>2, <1>9, <3>1
    <3> QED BY <1>4, <1>7, <1>9, <2>3, <3>2 DEF TombsAt
  <2>4. pair'["small"].cid \notin tomb'["small"]
    BY <1>2, <1>7, <1>9
  <2> QED BY <2>1, <2>2, <2>3, <2>4 DEF TombsAt
<1>13. outbox' = outbox \cup {[epoch |-> e, request |-> history'[e].request]}
  BY <1>4
<1>14. pair'["small"] = EventSnapshot(e)' /\ tomb["small"] \subseteq tomb'["small"] /\ e <= MaxEpoch
  BY <1>1, <1>9, <1>10
<1>15. /\ history'[e].request # None /\ result'[history'[e].request] = e
       /\ \A q \in Requests : result[q] # 0 => result'[q] = result[q]
       /\ \A q \in Requests : result[q] = 0 /\ result'[q] # 0 =>
            /\ result'[q] = e /\ history'[e].state = "active"
            /\ \A s \in Sides : attempt[s][q].at \in Retained /\ Target(attempt[s][q].snap) = e
  BY <1>1, <1>4, <1>5
<1>16. Grows /\ Core'
  BY <1>4, <1>9, <1>11, <1>12, <1>13, <1>14, <1>15, AppendCore
<1>17. Genuine(n)'
  <2>1. n.epoch \in 1 .. Len(history')
    BY <1>2, <1>4
  <2> QED BY <1>2, <1>10, <2>1 DEF Genuine
<1> QED BY <1>10, <1>16, <1>17

LEMMA HandleCommitStep ==
  ASSUME IInv, NEW m \in wire, HandleCommit(m)
  PROVE  IInv' /\ Grows
<1>1. TypeOK /\ Core /\ EventsStand /\ ResultsStand /\ WireStands /\ WorkerStands /\ "small" \in Sides
  BY SideFacts DEF IInv, Core
<1>2. m.step = "commit" /\ m.snap \in Snapshot /\ Genuine(m.snap) /\ m.request \in Requests
  BY HandledFacts DEF HandleCommit
<1>3. PICK r \in Requests : r = m.request
  BY <1>2
<1>4. /\ UNCHANGED <<attempt, leaving, codeVars, lapsed, faults>>
      /\ "result" \in Answers /\ "refused" \in Answers /\ "expired" \in Answers
  BY DEF HandleCommit, Answers
<1>5. PICK p \in Snapshot : p = pair["small"] /\ Genuine(p) /\ p.epoch = Len(history) /\ p.epoch \in Nat
  BY <1>1, Shapes DEF Core, PairsStand
<1>6. /\ \A s \in Sides : attempt[s][r].at \in Retained /\ attempt[s][r].snap = m.snap
      /\ m.snap.state # "active" => m.snap.epoch + 2 <= MaxEpoch
  BY <1>2, <1>3, CommitConsents
<1>7. ASSUME result[r] # 0, Answer(m, "result", EventSnapshot(result[r]), p), UNCHANGED <<coordinatorVars, sideVars>>
      PROVE  IInv' /\ Grows
  <2>1. result[r] \in 1 .. Len(history)
    BY <1>1, <1>7 DEF ResultsStand
  <2>2. PICK x \in Snapshot : x = EventSnapshot(result[r])
    BY <1>1, <2>1, EventFacts
  <2>3. Answer(m, "result", x, p) /\ x = EventSnapshot(result[m.request]) /\ result[m.request] # 0
    BY <1>3, <1>7, <2>2
  <2> QED BY <1>2, <1>4, <1>5, <1>7, <2>3, AnsweringStep
<1>8. ASSUME NEW a \in {"refused", "expired"}, Refuse(m, a), UNCHANGED <<coordinatorVars, sideVars>>
      PROVE  IInv' /\ Grows
  BY <1>4, <1>8, RefusingStep
<1>9. ASSUME result[r] = 0, Converges(m), result' = [result EXCEPT ![r] = p.epoch], outbox' = Queued(p.epoch, r),
             Answer(m, "result", EventSnapshot(p.epoch), p), UNCHANGED <<history, sideVars>>
      PROVE  IInv' /\ Grows
  <2>1. /\ pair["small"].state = "active" /\ Target(m.snap) = p.epoch
        /\ \A s \in Sides : attempt[s][r].at \in Retained /\ Target(attempt[s][r].snap) = p.epoch
    BY <1>1, <1>2, <1>5, <1>6, <1>9, ConvergesTarget DEF Converges
  <2>2. p.epoch \in 1 .. Len(history) /\ p.epoch \in Epochs
    BY <1>1, <1>5, <2>1, ActivePair DEF Snapshot
  <2>3. PICK x \in Snapshot : x = EventSnapshot(p.epoch)
    BY <1>1, <2>2, EventFacts
  <2>4. Answer(m, "result", x, p)
    BY <1>9, <2>3
  <2>5. outbox' = outbox \cup {[epoch |-> p.epoch, request |-> r]} /\ outbox \subseteq outbox'
    BY <1>9 DEF Queued
  <2>6. TypeOK'
    <3>1. wire' \subseteq Message /\ worker' \in [Sides -> Waits(outbox')]
      BY <1>1, <1>4, <1>5, <2>4, <2>5, AnswerFacts
    <3>2. outbox' \subseteq [epoch: Epochs, request: Requests \cup {None}]
      BY <1>1, <2>2, <2>5 DEF TypeOK
    <3>3. result' \in [Requests -> Epochs]
      BY <1>1, <1>9, <2>2 DEF TypeOK
    <3> QED BY <1>1, <1>4, <1>9, <3>1, <3>2, <3>3 DEF TypeOK, Waits, codeVars, sideVars
  <2>7. Grows /\ Core'
    BY <1>1, <1>4, <1>5, <1>9, <2>1, <2>5, <2>6, ConvergesCore DEF codeVars, sideVars
  <2>8. Genuine(p)'
    BY <1>1, <1>5, <2>6, <2>7, GenuineGrows
  <2>9. result'[m.request] # 0 /\ x = EventSnapshot(result[m.request])'
    <3>1. result'[r] = p.epoch /\ p.epoch # 0
      BY <1>1, <1>9, <2>2 DEF TypeOK
    <3>2. EventSnapshot(p.epoch)' = EventSnapshot(p.epoch)
      BY <1>9 DEF EventSnapshot
    <3>3. EventSnapshot(result[r])' = EventSnapshot(p.epoch)
      BY <1>9, <3>1 DEF EventSnapshot
    <3> QED BY <1>3, <2>3, <3>1, <3>3
  <2>10. WireStands' /\ WorkerStands'
    BY <1>1, <1>2, <1>4, <1>5, <2>4, <2>5, <2>6, <2>7, <2>8, <2>9, AnswerStep
  <2> QED BY <2>6, <2>7, <2>10 DEF IInv
<1>10. ASSUME NEW n, n = [epoch |-> p.epoch + 1, state |-> "active", cid |-> p.epoch + 1],
              result[r] = 0, ~Converges(m), Current(m),
              history' = Append(history, [state |-> "active", cid |-> n.cid, request |-> r]),
              Apply("small", n), result' = [result EXCEPT ![r] = n.epoch], outbox' = Queued(n.epoch, r),
              Answer(m, "result", n, n)
       PROVE  IInv' /\ Grows
  <2>1. m.snap = p /\ pair["small"].state # "active"
    BY <1>5, <1>10 DEF Current, Converges
  <2>2. p.state # "active" /\ p.epoch + 2 <= MaxEpoch
    BY <1>5, <1>6, <2>1
  <2>3. PICK e \in Nat : e = Len(history) + 1 /\ e = p.epoch + 1 /\ e < MaxEpoch /\ e # 0
    BY <1>5, <2>2, BoundAssumption
  <2>4. n = [epoch |-> e, state |-> "active", cid |-> e] /\ n.epoch = e /\ n.cid = e
    BY <1>10, <2>3
  <2>5. e \in Epochs /\ n \in Snapshot
    BY <2>3, <2>4, BoundAssumption DEF Snapshot, Epochs
  <2>6. /\ history' = Append(history, [state |-> "active", cid |-> e, request |-> r])
        /\ outbox' = outbox \cup {[epoch |-> e, request |-> r]} /\ outbox \subseteq outbox'
        /\ result' = [result EXCEPT ![r] = e]
    BY <1>10, <2>4 DEF Queued
  <2>7. TypeOK'
    <3>1. history' \in Seq([state: {"active", "disconnected"}, cid: Epochs, request: Requests \cup {None}])
      BY <1>1, <2>3, <2>5, <2>6, AppendFacts
    <3>2. /\ pair' \in [Sides -> Snapshot] /\ tomb' \in [Sides -> SUBSET Epochs]
          /\ stale' \in [Sides -> SUBSET (Codes \cup Requests)]
      BY <1>1, <1>10, <2>5, ApplyTypes
    <3>3. wire' \subseteq Message /\ worker' \in [Sides -> Waits(outbox')]
      BY <1>1, <1>4, <1>10, <2>5, <2>6, AnswerFacts
    <3>4. outbox' \subseteq [epoch: Epochs, request: Requests \cup {None}]
      BY <1>1, <2>5, <2>6 DEF TypeOK
    <3>5. result' \in [Requests -> Epochs]
      BY <1>1, <2>5, <2>6 DEF TypeOK
    <3> QED BY <1>1, <1>4, <3>1, <3>2, <3>3, <3>4, <3>5 DEF TypeOK, Waits, codeVars
  <2>8. \A s \in Sides : attempt[s][r].at \in Retained /\ Target(attempt[s][r].snap) = e
    BY <1>6, <2>1, <2>2, <2>3 DEF Target
  <2>9. Grows /\ Core' /\ Genuine(n)' /\ n = EventSnapshot(e)'
    BY <1>1, <1>4, <1>10, <2>1, <2>3, <2>4, <2>5, <2>6, <2>7, <2>8, BeginsCore DEF codeVars
  <2>10. result'[m.request] # 0 /\ n = EventSnapshot(result[m.request])'
    <3>1. result'[r] = e
      BY <1>1, <2>6 DEF TypeOK
    <3>2. EventSnapshot(result[r])' = EventSnapshot(e)'
      BY <3>1 DEF EventSnapshot
    <3> QED BY <1>3, <2>3, <2>9, <3>1, <3>2
  <2>11. WireStands' /\ WorkerStands'
    BY <1>1, <1>2, <1>4, <1>10, <2>5, <2>6, <2>7, <2>9, <2>10, AnswerStep
  <2> QED BY <2>7, <2>9, <2>11 DEF IInv
<1> QED BY <1>3, <1>5, <1>7, <1>8, <1>9, <1>10 DEF HandleCommit

LEMMA InitStands ==
  ASSUME Init
  PROVE  IInv
<1>0. Empty \in Snapshot /\ Empty.epoch = 0 /\ Empty.state = "empty"
  BY EmptyFacts
<1>1. TypeOK
  <2>1. history \in Seq([state: {"active", "disconnected"}, cid: Epochs, request: Requests \cup {None}])
    BY DEF Init
  <2>2. NoAttempt \in Attempt
    BY <1>0, BoundAssumption DEF NoAttempt, Attempt, Epochs
  <2>3. attempt \in [Sides -> [Requests -> Attempt]]
    BY <2>2 DEF Init
  <2>4. pair \in [Sides -> Snapshot]
    BY <1>0 DEF Init
  <2>5. worker \in [Sides -> Waits(outbox)]
    BY IdleFacts DEF Init
  <2>6. inviter \in [Codes -> Sides]
    BY InviterAssumption DEF Init
  <2>7. result \in [Requests -> Epochs]
    BY BoundAssumption DEF Init, Epochs
  <2>8. faults \in 0 .. MaxFaults
    BY BoundAssumption DEF Init
  <2> QED BY <2>1, <2>3, <2>4, <2>5, <2>6, <2>7, <2>8 DEF Init, TypeOK, Waits
<1>2. Len(history) = 0 /\ 1 .. Len(history) = {}
  BY DEF Init
<1>3. /\ \A s \in Sides : pair[s] = Empty /\ pair[s].epoch = 0 /\ tomb[s] = {} /\ stale[s] = {} /\ leaving[s] = {}
      /\ \A s \in Sides, r \in Requests : attempt[s][r].at = "none"
      /\ \A r \in Requests : result[r] = 0
      /\ \A s \in Sides : worker[s] = Idle
  BY <1>0 DEF Init, NoAttempt
<1>4. EventsStand
  BY <1>2, BoundAssumption DEF EventsStand
<1>5. PairsStand
  BY <1>2, <1>3, SideFacts DEF PairsStand, Genuine
<1>6. ResultsStand /\ OutboxStands /\ AttemptsStand
  BY <1>3 DEF ResultsStand, OutboxStands, AttemptsStand, Init
<1>7. TombsStand
  <2>1. ASSUME NEW s \in Sides
        PROVE  TombsAt(s)
    <3>1. 1 .. pair[s].epoch = {}
      BY <1>3
    <3> QED BY <1>3, <3>1 DEF TombsAt
  <2> QED BY <2>1 DEF TombsStand
<1>8. StaleStands
  BY <1>3 DEF StaleStands
<1>9. Replicates
  BY <1>2 DEF Replicates
<1>10. WireStands /\ WorkerStands
  BY <1>3 DEF WireStands, WorkerStands, WorkerAt, Init
<1> QED BY <1>1, <1>4, <1>5, <1>6, <1>7, <1>8, <1>9, <1>10 DEF IInv, Core

LEMMA OwnerStands ==
  ASSUME IInv, OwnerStep
  PROVE  IInv' /\ Grows
<1>1. ASSUME NEW c \in Codes, CreateCode(c) \/ RevokeCode(c)
      PROVE  IInv' /\ Grows
  BY <1>1, CreateCodeStep, RevokeCodeStep
<1>2. ASSUME NEW s \in Sides, Disconnect(s)
      PROVE  IInv' /\ Grows
  BY <1>2, DisconnectStep
<1>3. CASE Observe
  BY <1>3, ObserveStep
<1>4. ASSUME NEW s \in Sides, NEW c \in Codes, NEW r \in Requests, Review(s, c, r)
      PROVE  IInv' /\ Grows
  BY <1>4, ReviewStep
<1>5. ASSUME NEW s \in Sides, NEW r \in Requests, Confirm(s, r)
      PROVE  IInv' /\ Grows
  BY <1>5, ConfirmStep
<1>6. ASSUME NEW r \in Requests, Lapse(r)
      PROVE  IInv' /\ Grows
  BY <1>6, LapseStep
<1> QED BY <1>1, <1>2, <1>3, <1>4, <1>5, <1>6 DEF OwnerStep

LEMMA WorkerStepStands ==
  ASSUME IInv, NEW s \in Sides, WorkerStep(s)
  PROVE  IInv' /\ Grows
<1>1. ASSUME NEW r \in Requests, SendAdmit(s, r) \/ GiveUp(s, r) \/ SendCommit(s, r)
      PROVE  IInv' /\ Grows
  BY <1>1, SendAdmitStep, GiveUpStep, SendCommitStep
<1>2. ASSUME NEW cid \in leaving[s], SendDisconnect(s, cid)
      PROVE  IInv' /\ Grows
  BY <1>2, SendDisconnectStep
<1>3. ASSUME NEW job \in outbox, SendSync(job)
      PROVE  IInv' /\ Grows
  BY <1>3, SendSyncStep
<1>4. CASE TakeAdmission(s)
  BY <1>4, TakeAdmissionStep
<1>5. CASE TakeRefusal(s)
  BY <1>5, TakeRefusalStep
<1>6. CASE TakeConnect(s)
  BY <1>6, TakeConnectStep
<1>7. CASE TakeDisconnect(s)
  BY <1>7, TakeDisconnectStep
<1>8. CASE TakeAck
  BY <1>8, TakeAckStep
<1> QED BY <1>1, <1>2, <1>3, <1>4, <1>5, <1>6, <1>7, <1>8 DEF WorkerStep

LEMMA HandlerStands ==
  ASSUME IInv, NEW m \in wire, HandlerStep(m)
  PROVE  IInv' /\ Grows
<1>1. CASE HandleAdmit(m)
  BY <1>1, HandleAdmitStep
<1>2. CASE Admit(m)
  BY <1>2, AdmitStep
<1>3. CASE HandleCommit(m)
  BY <1>3, HandleCommitStep
<1>4. CASE HandleDisconnect(m)
  BY <1>4, HandleDisconnectStep
<1>5. CASE HandleSync(m)
  BY <1>5, HandleSyncStep
<1>6. CASE Sync(m)
  BY <1>6, SyncStep
<1> QED BY <1>1, <1>2, <1>3, <1>4, <1>5, <1>6 DEF HandlerStep

LEMMA StutterStands ==
  ASSUME IInv, UNCHANGED vars
  PROVE  IInv' /\ Grows
<1>1. UNCHANGED coreVars /\ outbox \subseteq outbox' /\ UNCHANGED <<wire, worker>>
  BY DEF vars, coordinatorVars, sideVars, codeVars, coreVars
<1>2. TypeOK'
  BY DEF IInv, TypeOK, vars, coordinatorVars, sideVars, codeVars
<1>3. Core' /\ Grows /\ ResultsStand
  BY <1>1, StillCore
<1>4. WireStands' /\ WorkerStands'
  BY <1>1, <1>2, <1>3, WorkersStill DEF IInv
<1> QED BY <1>2, <1>3, <1>4 DEF IInv

LEMMA NextStands ==
  ASSUME IInv, [Next]_vars
  PROVE  IInv' /\ Grows
<1>1. CASE OwnerStep
  BY <1>1, OwnerStands
<1>2. ASSUME NEW s \in Sides, WorkerStep(s) \/ Defer(s)
      PROVE  IInv' /\ Grows
  BY <1>2, WorkerStepStands, DeferStep
<1>3. ASSUME NEW m \in wire, HandlerStep(m)
      PROVE  IInv' /\ Grows
  BY <1>3, HandlerStands
<1>4. CASE UNCHANGED vars
  BY <1>4, StutterStands
<1> QED BY <1>1, <1>2, <1>3, <1>4 DEF Next

(* The inductive invariant: whatever owners, workers and handlers of the   *)
(* two providers do, in whatever order their exchanges are handled, lost   *)
(* and deferred (connection-federation.ts), events alternate, rows and     *)
(* requests under way stand for events, consents agree, and every event    *)
(* the other side lacks is still queued for it.                            *)
THEOREM ConnectionInvariant == Spec => []IInv
<1>1. Init => IInv
  BY InitStands
<1>2. IInv /\ [Next]_vars => IInv'
  BY NextStands
<1> QED BY <1>1, <1>2, PTL DEF Spec

(* No step undoes another: the coordinator's events and results stay as    *)
(* they were signed, no side's pair goes back to an earlier epoch, no      *)
(* tombstone is lifted and no consent withdrawn or exchanged, however late *)
(* an answer, probe or replication arrives (connection-federation.ts       *)
(* apply, coordinatorConnect, sync, admit).                                *)
THEOREM NothingUndone == Spec => [][Grows]_vars
<1>1. IInv /\ [Next]_vars => [Grows]_vars
  BY NextStands
<1> QED BY <1>1, ConnectionInvariant, PTL DEF Spec

(* Each row, queue, worker and request of the two providers keeps its      *)
(* shape (connection-federation.ts, the tables of its migrations).         *)
THEOREM ConnectionTypes == Spec => []TypeOK
BY ConnectionInvariant, PTL DEF IInv

(* The two providers never hold different connections for one epoch: each  *)
(* side's pair is the coordinator's event of its epoch                     *)
(* (connection-federation.ts apply, coordinatorConnect, workOutbox).       *)
THEOREM EpochsNeverDiffer == Spec => []EpochsAgree
<1>1. IInv => EpochsAgree
  <2> SUFFICES ASSUME IInv
               PROVE  EpochsAgree
    OBVIOUS
  <2>1. pair["small"].epoch = Len(history) /\ Len(history) \in Nat
    BY Shapes DEF IInv, Core, PairsStand
  <2>2. ASSUME NEW s \in Sides, pair[s] # Empty
        PROVE  pair[s].epoch <= Len(history) /\ pair[s] = EventSnapshot(pair[s].epoch)
    <3>1. Genuine(pair[s])
      BY DEF IInv, Core, PairsStand
    <3> QED BY <2>1, <2>2, <3>1 DEF Genuine
  <2> QED BY <2>1, <2>2 DEF EpochsAgree
<1> QED BY <1>1, ConnectionInvariant, PTL

LEMMA ConsentIsFresh ==
  ASSUME IInv, NEW s \in Sides, Usable(s, pair[s].cid)
  PROVE  \E r \in Requests : /\ result[r] # 0 /\ history[result[r]].cid = pair[s].cid
                             /\ Fresh(s, r) /\ attempt[Other(s)][r].at \in Retained
<1>1. TypeOK /\ Core /\ EventsStand /\ Other(s) \in Sides
  BY SideFacts DEF IInv, Core
<1>2. pair[s].state = "active" /\ pair[s].cid \notin tomb[s]
  BY DEF Usable
<1>3. PICK e \in 1 .. Len(history) : e = pair[s].epoch /\ e = pair[s].cid /\ history[e].state = "active" /\ e \in Nat
  BY <1>1, <1>2, Shapes, ActivePair
<1>4. Begins(e)
  BY <1>1, <1>3 DEF EventsStand, Ends
<1>5. PICK r \in Requests : r = history[e].request /\ result[r] = e /\ e # 0
  BY <1>3, <1>4 DEF Begins
<1>6. \A t \in Sides : attempt[t][r].at \in Retained /\ Target(attempt[t][r].snap) = e
  BY <1>1, <1>5 DEF Core, ResultsStand
<1>7. ~Outdated(s, r)
  <2> SUFFICES ASSUME Outdated(s, r)
               PROVE  FALSE
    OBVIOUS
  <2>1. attempt[s][r].at # "none"
    BY <1>6 DEF Retained
  <2>2. PICK c \in tomb[s] : c >= Target(attempt[s][r].snap)
    BY <1>1, <2>1 DEF Core, StaleStands
  <2>3. c \in 1 .. e
    BY <1>1, <1>3 DEF Core, TombsStand, TombsAt
  <2>4. c = e
    BY <1>3, <1>6, <2>2, <2>3
  <2> QED BY <1>2, <1>3, <2>4
<1>8. Fresh(s, r)
  BY <1>6, <1>7 DEF Fresh, Outdated
<1>9. history[result[r]].cid = pair[s].cid
  BY <1>3, <1>4, <1>5 DEF Begins
<1> QED BY <1>1, <1>5, <1>6, <1>8, <1>9

(* A connection a side can use rests on a consent of both sides, and on    *)
(* one this side gave since it last disconnected: no old code, late        *)
(* request or replayed event brings a connection back                      *)
(* (connection-federation.ts coordinatorConnect, workAttempt).             *)
THEOREM ConsentStaysFresh == Spec => []FreshConsent
<1>1. IInv => FreshConsent
  BY ConsentIsFresh DEF FreshConsent
<1> QED BY <1>1, ConnectionInvariant, PTL

LEMMA DrainedFits ==
  ASSUME IInv, NEW s \in Sides, Drained(s)
  PROVE  ValidHistory(s) /\ ResultsAnswer(s)
<1>1. TypeOK /\ Core /\ EventsStand /\ TombsAt(s) /\ Genuine(pair[s]) /\ leaving[s] = {} /\ Len(history) \in Nat
  BY Shapes DEF IInv, Core, TombsStand, PairsStand, Drained, QueuesEmpty
<1>2. PICK p \in Snapshot : p = pair[s] /\ Genuine(p)
  BY <1>1, Shapes
<1>3. ASSUME p # Empty
      PROVE  /\ p.epoch \in 1 .. Len(history) /\ p = EventSnapshot(p.epoch) /\ p.state \in {"active", "disconnected"}
             /\ p.cid # 0 /\ p.state = history[p.epoch].state /\ p.cid = history[p.epoch].cid
  <2>1. p.epoch \in 1 .. Len(history) /\ p = EventSnapshot(p.epoch)
    BY <1>2, <1>3 DEF Genuine
  <2>2. p.state = history[p.epoch].state /\ p.cid = history[p.epoch].cid
    BY <2>1 DEF EventSnapshot
  <2>3. Begins(p.epoch) \/ Ends(p.epoch)
    BY <1>1, <2>1 DEF EventsStand
  <2>4. p.cid # 0 /\ p.state \in {"active", "disconnected"}
    BY <1>1, <2>1, <2>2, <2>3 DEF Begins, Ends
  <2> QED BY <2>1, <2>2, <2>4
<1>4. PairFits(s)
  <2>1. p # Empty => p.epoch > 0
    BY <1>1, <1>3
  <2> QED BY <1>2, <1>3, <2>1 DEF PairFits
<1>5. EventsFit(s)
  <2>1. s = "small" => Len(history) <= pair[s].epoch
    BY <1>1 DEF Core, PairsStand
  <2>2. DOMAIN history = 1 .. Len(history)
    BY <1>1, Shapes
  <2> QED BY <1>2, <1>3, <2>1, <2>2 DEF EventsFit
<1>6. ResultsFit(s)
  BY <1>1, Shapes DEF Core, ResultsStand, ResultsFit
<1>7. TombstonesFit(s)
  <2>1. p.epoch \in Nat
    BY SnapshotFacts
  <2>2. \A cid \in tomb[s] : cid <= pair[s].epoch /\ ~(pair[s].state = "active" /\ pair[s].cid = cid)
    BY <1>1, <1>2, <2>1 DEF TombsAt
  <2>3. ASSUME p.state = "disconnected"
        PROVE  p.cid \in tomb[s]
    <3>1. p # Empty
      BY <2>3, EmptyFacts
    <3>2. p.epoch \in 1 .. pair[s].epoch
      BY <1>1, <1>2, <1>3, <2>1, <3>1
    <3> QED BY <1>1, <1>3, <2>3, <3>1, <3>2 DEF TombsAt
  <2> QED BY <1>2, <2>2, <2>3 DEF TombstonesFit
<1>8. \A r \in Requests : ~Undecided(s, r)
  BY DEF Drained, Undecided
<1>9. ResultsAnswer(s)
  <2>1. ASSUME NEW r \in Requests, attempt[s][r].at = "active", NEW x, x = attempt[s][r].snap
        PROVE  /\ attempt[s][r].admission
               /\ IF x.state = "active" THEN attempt[s][r].cid = x.cid ELSE attempt[s][r].cid = x.epoch + 1
    <3>1. AttemptStands(s, r)
      BY <1>1, <2>1 DEF Core, AttemptsStand
    <3>2. attempt[s][r].admission /\ attempt[s][r].cid = Target(x) /\ Genuine(x)
      BY <2>1, <3>1 DEF AttemptStands
    <3>3. ASSUME x.state = "active"
          PROVE  x.cid = x.epoch
      <4>1. x # Empty
        BY <3>3, EmptyFacts
      <4>2. x.epoch \in 1 .. Len(history) /\ x.state = history[x.epoch].state /\ x.cid = history[x.epoch].cid
        BY <3>2, <4>1 DEF Genuine, EventSnapshot
      <4> QED BY <1>1, <3>3, <4>2 DEF EventsStand, Begins, Ends
    <3> QED BY <3>2, <3>3 DEF Target
  <2> QED BY <2>1 DEF ResultsAnswer
<1> QED BY <1>4, <1>5, <1>6, <1>7, <1>8, <1>9 DEF ValidHistory, Drained

LEMMA FrontierFacts ==
  ASSUME TypeOK, NEW s \in Sides, pair[s] # Empty
  PROVE  /\ Frontier(s) = [cid |-> pair[s].cid, epoch |-> pair[s].epoch, state |-> pair[s].state, tombstones |-> tomb[s]]
         /\ Frontier(s) # None
<1>1. pair[s] \in Snapshot /\ tomb[s] \in SUBSET Epochs
  BY DEF TypeOK
<1>2. pair[s].cid \in Epochs /\ pair[s].epoch \in Epochs /\ pair[s].state \in {"empty", "active", "disconnected"}
  BY <1>1 DEF Snapshot
<1>3. Frontier(s) = [cid |-> pair[s].cid, epoch |-> pair[s].epoch, state |-> pair[s].state, tombstones |-> tomb[s]]
  BY DEF Frontier
<1>4. Frontier(s) \in [cid: Epochs, epoch: Epochs, state: {"empty", "active", "disconnected"}, tombstones: SUBSET Epochs]
  BY <1>1, <1>2, <1>3
<1> QED BY <1>3, <1>4, FrontierAssumption

LEMMA FrontierValid ==
  ASSUME IInv, NEW s \in Sides, ValidHistory(s), pair[s] # Empty
  PROVE  Plannable(s)
<1>1. TypeOK /\ pair[s] \in Snapshot
  BY DEF IInv, TypeOK
<1>2. PICK f : /\ f = Frontier(s) /\ f # None
               /\ f = [cid |-> pair[s].cid, epoch |-> pair[s].epoch, state |-> pair[s].state, tombstones |-> tomb[s]]
  BY <1>1, FrontierFacts
<1>3. f.cid = pair[s].cid /\ f.epoch = pair[s].epoch /\ f.state = pair[s].state /\ f.tombstones = tomb[s]
  BY <1>2
<1>4. pair[s].epoch > 0 /\ pair[s].cid # 0 /\ pair[s].epoch \in Nat
  BY <1>1, SnapshotFacts DEF ValidHistory, PairFits
<1>5. ValidFrontier(f)
  BY <1>3, <1>4 DEF ValidFrontier, ValidHistory, TombstonesFit
<1> QED BY <1>2, <1>5 DEF Plannable

LEMMA FrontiersAgree ==
  ASSUME IInv, Drained("small"), Drained("large")
  PROVE  SameFrontier
<1>1. /\ TypeOK /\ Core /\ EventsStand /\ Replicates /\ "small" \in Sides /\ "large" \in Sides
      /\ outbox = {} /\ \A s \in Sides : leaving[s] = {} /\ TombsAt(s) /\ Genuine(pair[s])
      /\ Len(history) \in Nat /\ pair["small"].epoch = Len(history)
  BY SideFacts, Shapes DEF IInv, Core, TombsStand, PairsStand, Drained, QueuesEmpty
<1>2. CASE Len(history) = 0
  <2>1. pair["small"] = Empty /\ pair["large"] = Empty
    BY <1>1, <1>2 DEF Genuine
  <2> QED BY <2>1 DEF SameFrontier, Frontier
<1>3. CASE Len(history) # 0
  <2>1. PICK l \in 1 .. Len(history) : l = Len(history) /\ l \in Nat
    BY <1>1, <1>3
  <2>2. PICK x \in Snapshot : /\ x = EventSnapshot(l) /\ x # Empty /\ x.epoch = l
                              /\ x.state = history[l].state /\ x.cid = history[l].cid
    BY <1>1, EventFacts
  <2>3. Acked(x)
    BY <1>1, <2>2 DEF Replicates
  <2>4. pair["large"].epoch \in Nat
    BY <1>1, Shapes, SnapshotFacts
  <2>5. pair["large"].epoch >= l
    <3>1. CASE pair["large"].epoch >= x.epoch
      BY <2>2, <3>1
    <3>2. CASE x.state = "active" /\ x.cid \in tomb["large"]
      <4>1. x.cid = l
        BY <1>1, <2>2, <3>2 DEF EventsStand, Begins, Ends
      <4>2. l \in 1 .. pair["large"].epoch
        BY <1>1, <3>2, <4>1 DEF TombsAt
      <4> QED BY <2>4, <4>2
    <3>3. ~(x.epoch < Len(history))
      BY <2>1, <2>2
    <3> QED BY <2>3, <3>1, <3>2, <3>3 DEF Acked
  <2>6. pair["large"] # Empty
    BY <2>1, <2>5, EmptyFacts
  <2>7. pair["large"].epoch = l /\ pair["large"] = EventSnapshot(l)
    BY <1>1, <2>1, <2>4, <2>5, <2>6 DEF Genuine
  <2>8. pair["small"] # Empty /\ pair["small"] = EventSnapshot(l)
    BY <1>1, <2>1, EmptyFacts DEF Genuine
  <2>9. ASSUME NEW s \in Sides, pair[s].epoch = l
        PROVE  tomb[s] = {c \in Epochs : Ended(c) # {}}
    <3>1. ASSUME NEW c \in tomb[s]
          PROVE  c \in Epochs /\ Ended(c) # {}
      BY <1>1 DEF TombsAt, TypeOK
    <3>2. ASSUME NEW c \in Epochs, Ended(c) # {}
          PROVE  c \in tomb[s]
      <4>1. PICK e \in 1 .. Len(history) : history[e].state = "disconnected" /\ history[e].cid = c
        BY <3>2 DEF Ended
      <4> QED BY <1>1, <2>1, <2>9, <4>1 DEF TombsAt
    <3> QED BY <3>1, <3>2
  <2>10. tomb["small"] = tomb["large"]
    BY <1>1, <2>1, <2>7, <2>9
  <2> QED BY <2>7, <2>8, <2>10 DEF SameFrontier, Frontier
<1> QED BY <1>2, <1>3

(* Once a side has drained, its history passes the checks of its export,   *)
(* of the destination and of the plan, and once both have, the peer agrees *)
(* with the plan: no run of exchanges leaves a history that could never be *)
(* moved (connection-handover.ts, connection-snapshot.ts).                 *)
THEOREM DrainedHistoryMoves == Spec => []HistoryMoves
<1>1. IInv => HistoryMoves
  BY DrainedFits, FrontierValid, FrontiersAgree DEF HistoryMoves
<1> QED BY <1>1, ConnectionInvariant, PTL

-----------------------------------------------------------------------------
(* What a side takes from the coordinator always fits what it has: its     *)
(* transaction is never rolled back for a conflicting epoch, and a result  *)
(* or a replicated activation is the connection the side consented to.     *)
AnswersFit ==
    /\ \A m \in wire : m.step = "checked" =>
         /\ ~Conflicts("large", Adopted(m))
         /\ m.snap.state = "active" => Activates(m.snap, attempt["large"][m.request].snap)
    /\ \A s \in Sides : worker[s].answer = "result" =>
         IF worker[s].msg.step = "commit"
         THEN /\ ~Conflicts(s, Result(worker[s]))
              /\ Activates(worker[s].snap, attempt[s][worker[s].msg.request].snap)
         ELSE ~Conflicts(s, worker[s].snap)

LEMMA GenuineFits ==
  ASSUME TypeOK, Core, NEW s \in Sides, NEW x \in Snapshot, Genuine(x)
  PROVE  ~Conflicts(s, x)
<1> SUFFICES ASSUME Conflicts(s, x)
             PROVE  FALSE
  OBVIOUS
<1>1. PICK p \in Snapshot : p = pair[s] /\ Genuine(p) /\ p.epoch \in Nat
  BY Shapes, SnapshotFacts DEF Core, PairsStand
<1>2. x.epoch = p.epoch /\ p.cid # 0 /\ p.cid # x.cid
  BY <1>1 DEF Conflicts
<1>3. p.epoch \in 1 .. Len(history) /\ p = EventSnapshot(p.epoch)
  BY <1>1, <1>2 DEF Genuine, Empty
<1>4. x = EventSnapshot(p.epoch)
  BY <1>2, <1>3, Shapes, EmptyFacts DEF Genuine
<1> QED BY <1>2, <1>3, <1>4

LEMMA ResultActivates ==
  ASSUME TypeOK, Core, NEW s \in Sides, NEW r \in Requests, result[r] # 0
  PROVE  Activates(EventSnapshot(result[r]), attempt[s][r].snap)
<1>1. PICK e \in 1 .. Len(history) : e = result[r] /\ history[e].state = "active" /\ e \in Nat
  BY Shapes DEF Core, ResultsStand
<1>2. attempt[s][r].at # "none" /\ Target(attempt[s][r].snap) = e
  BY <1>1 DEF Core, ResultsStand, Retained
<1>3. PICK y \in Snapshot : y = attempt[s][r].snap /\ Genuine(y) /\ Target(y) = e
  BY <1>2, Shapes DEF Core, AttemptsStand, AttemptStands, Attempt
<1>4. PICK x \in Snapshot : x = EventSnapshot(e) /\ x.state = "active" /\ x.epoch = e
  BY <1>1, EventFacts DEF Core
<1>5. CASE y.state = "active"
  <2>1. y.epoch = e /\ y # Empty
    BY <1>3, <1>5, EmptyFacts DEF Target
  <2>2. x = y
    BY <1>3, <1>4, <2>1 DEF Genuine
  <2> QED BY <1>1, <1>3, <1>4, <1>5, <2>2 DEF Activates
<1>6. CASE y.state # "active"
  <2>1. x.epoch = y.epoch + 1
    BY <1>3, <1>4, <1>6 DEF Target
  <2> QED BY <1>1, <1>3, <1>4, <1>6, <2>1 DEF Activates
<1> QED BY <1>5, <1>6

LEMMA CheckedFits ==
  ASSUME IInv, NEW m \in wire, m.step = "checked"
  PROVE  /\ ~Conflicts("large", Adopted(m))
         /\ m.snap.state = "active" => Activates(m.snap, attempt["large"][m.request].snap)
<1>1. TypeOK /\ Core /\ "large" \in Sides
  BY SideFacts DEF IInv
<1>2. m \in Message /\ MessageStands(m) /\ SyncStands(m) /\ Genuine(m.snap) /\ m.snap \in Snapshot
  BY HandledFacts DEF MessageStands
<1>3. ~Conflicts("large", Adopted(m))
  BY <1>1, <1>2, AdoptedFacts, GenuineFits
<1>4. ASSUME m.snap.state = "active"
      PROVE  Activates(m.snap, attempt["large"][m.request].snap)
  <2>1. PICK r \in Requests : r = m.request /\ result[r] = m.snap.epoch
    BY <1>2, <1>4 DEF SyncStands
  <2>2. m.snap.epoch \in 1 .. Len(history) /\ m.snap = EventSnapshot(m.snap.epoch)
    BY <1>2 DEF Genuine, SyncStands
  <2>3. result[r] # 0 /\ m.snap = EventSnapshot(result[r])
    BY <1>1, <2>1, <2>2, Shapes
  <2> QED BY <1>1, <2>1, <2>3, ResultActivates
<1> QED BY <1>3, <1>4

LEMMA ResultFits ==
  ASSUME IInv, NEW s \in Sides, worker[s].answer = "result"
  PROVE  IF worker[s].msg.step = "commit"
         THEN /\ ~Conflicts(s, Result(worker[s]))
              /\ Activates(worker[s].snap, attempt[s][worker[s].msg.request].snap)
         ELSE ~Conflicts(s, worker[s].snap)
<1>1. TypeOK /\ Core /\ EventsStand /\ worker[s] \in Waits(outbox)
  BY DEF IInv, Core, TypeOK, Waits
<1>2. AnswerStands(s) /\ MessageStands(worker[s].msg)
  BY IdleFacts DEF IInv, WorkerStands, WorkerAt
<1>3. worker[s].snap \in Snapshot /\ worker[s].current \in Snapshot
  BY <1>1 DEF Waits
<1>4. CASE worker[s].msg.step = "commit"
  <2>1. PICK r \in Requests : r = worker[s].msg.request
    BY <1>2, <1>4 DEF MessageStands, AdmitStands
  <2>2. result[r] # 0 /\ worker[s].snap = EventSnapshot(result[r]) /\ Genuine(worker[s].current)
    BY <1>2, <1>4, <2>1 DEF AnswerStands
  <2>3. result[r] \in 1 .. Len(history)
    BY <1>1, <2>2 DEF Core, ResultsStand
  <2>4. Genuine(worker[s].snap)
    BY <1>1, <2>2, <2>3, EventFacts
  <2>5. PICK z \in Snapshot : z = Result(worker[s]) /\ Genuine(z)
    BY <1>3, <2>2, <2>4, EmptyFacts DEF Result
  <2>6. ~Conflicts(s, Result(worker[s]))
    BY <1>1, <2>5, GenuineFits
  <2>7. Activates(worker[s].snap, attempt[s][r].snap)
    BY <1>1, <2>2, ResultActivates
  <2> QED BY SMTT(30), <1>4, <2>1, <2>6, <2>7
<1>5. CASE worker[s].msg.step # "commit"
  <2>1. worker[s].msg.step = "disconnect" /\ Genuine(worker[s].snap)
    BY <1>2, <1>5 DEF AnswerStands
  <2> QED BY <1>1, <1>3, <1>5, <2>1, GenuineFits
<1> QED BY <1>4, <1>5

(* No answer and no replication is refused or undone where it is applied:  *)
(* workAttempt never finds a result that is not what was reviewed, apply   *)
(* never two connections for one epoch, and sync never an activation it    *)
(* did not consent to (connection-federation.ts).                          *)
THEOREM AnswersAlwaysFit == Spec => []AnswersFit
<1>1. IInv => AnswersFit
  BY CheckedFits, ResultFits DEF AnswersFit
<1> QED BY <1>1, ConnectionInvariant, PTL
=============================================================================
