----------------------------- MODULE MoveProofs -----------------------------
(***************************************************************************)
(* Proofs about AccountMove for every number of providers, transfers,      *)
(* messages, faults and grant revisions, in either kind of custody.        *)
(*                                                                         *)
(* The argument: once a transfer is over it stays over, the account is     *)
(* current at one provider only, and it becomes current somewhere by an    *)
(* activation alone, which ends the transfer that the provider it was      *)
(* current at is fenced for.                                               *)
(***************************************************************************)
EXTENDS AccountMove, TLAPS

Heads == {<<"genesis", 0>>} \cup {Cutover(x) : x \in Transfers}
Fences == [t : Transfers, state : {"fenced", "exported", "retired"}, snap : SUBSET Mail]
Slots == [t : Transfers, res : {"none", "selected", "submitted", "active"}, final : BOOLEAN]
Imports == [state : {"none", "staged", "active", "invalidated"}, cancelled : BOOLEAN, snap : SUBSET Mail,
            prev : Heads \cup {None}, eligible : BOOLEAN, bound : BOOLEAN]
Files == [stage : {"none", "grant", "offer", "selection", "reservation", "cutover"}, cancel : BOOLEAN]
Routes == [from : Providers, to : Providers]
Jobs == [period : Nat, era : Nat]

\* The variables the argument is about.
TypeInv ==
    /\ head # None
    /\ period \in [Providers -> Nat]
    /\ data \in [Providers -> SUBSET Mail]
    /\ fence \in [Providers -> Fences \cup {None}]
    /\ slot \in [Providers -> Slots \cup {None}]
    /\ import \in [Transfers -> Imports]
    /\ file \in [Transfers -> Files]
    /\ route \in [Transfers -> Routes \cup {None}]
    /\ hold \in [Transfers -> {"none", "frozen", "committed", "completed", "released"}]
    /\ job \in [Providers -> Jobs \cup {None}]
    /\ era \in Nat /\ faults \in Nat
    /\ carried = [t \in Transfers |-> carried[t]]

\* A transfer may still be staged: its owner has not signed the cutover yet, or the
\* destination still has the address it reserved for it.
Prospective(t) ==
    file[t].stage = "cutover" => Occupies(To(t), t) /\ slot[To(t)].res # "none"

\* The transfer has brought the account to its destination, or will never do so.
Over(t) == import[t].state = "active" \/ (import[t].state = "none" /\ ~Prospective(t))

\* The provider serves the account, or is fenced for a move that is not over.
Current(p) ==
    period[p] > 0 /\ (Fenced(p) => fence[p].state # "retired" /\ ~Over(fence[p].t))

\* At most one provider does.
UniqueInv == \A p, q \in Providers : Current(p) /\ Current(q) => p = q

\* What the owner's file, the slots and the wire say of a transfer.
Asked(t) == Sent("invite", t) \/ Sent("final", t)

FileInv ==
    /\ \A t \in Transfers :
         /\ import[t].state # "none" \/ Consented(t) # {} => file[t].stage = "cutover"
         /\ Asked(t) => file[t].stage # "none"
         /\ file[t].stage # "none" =>
              From(t) \in Providers /\ To(t) \in Providers /\ From(t) # To(t)
    /\ \A p \in Providers :
         /\ slot[p] # None => file[slot[p].t].stage # "none" /\ To(slot[p].t) = p
         /\ Fenced(p) => period[p] > 0

\* A bundle that may still be staged, and an import that is, has the export of a source
\* that is still fenced for it.
CarryInv ==
    /\ \A t \in Transfers : \A w \in Consented(t) :
         import[t].state = "none" /\ ~Over(t) =>
            Holds(From(t), t, "exported") /\ w[3] = fence[From(t)].snap
    /\ \A t \in Transfers : Staged(t) =>
            Holds(From(t), t, "exported") /\ import[t].snap = fence[From(t)].snap

\* The operation a cutover follows is the first, or the cutover of a transfer that is over.
Follows(prev) == prev = <<"genesis", 0>> \/ \E x \in Transfers : prev = Cutover(x) /\ Over(x)

PrevInv ==
    \A t \in Transfers : /\ \A w \in Consented(t) : Follows(w[4])
                         /\ import[t].state # "none" => Follows(import[t].prev)

\* The head cannot be followed any more.
Stuck == \/ \E n \in Nat : head = <<"own", n>>
         \/ \E x \in Transfers : head = Cutover(x) /\ import[x].state \in {"staged", "invalidated"}

\* The PLC leaves the source of a staged import for good, and no operation it has passed
\* can follow its head again.
PlcInv ==
    \A t \in Transfers :
        /\ head = Cutover(t) => home = To(t) /\ file[t].stage = "cutover"
        /\ Staged(t) /\ home # From(t) => Stuck
        /\ import[t].state = "none" => import[t].prev = None
        /\ import[t].state = "active" \/ (Staged(t) /\ import[t].eligible) => import[t].prev # head

\* The peers of a move have committed only if the PLC left the source and nobody cancelled.
PeerInv ==
    \A t \in Transfers : hold[t] \in {"committed", "completed"} =>
        /\ ~import[t].cancelled
        /\ Over(t) \/ (Staged(t) /\ home # From(t))

\* What the account holds where it is current, and in an export.
DataInv ==
    /\ purged \subseteq accepted
    /\ \A p \in Providers :
         /\ Current(p) => data[p] = accepted \ purged
         /\ Fenced(p) /\ fence[p].state # "fenced" => fence[p].snap = data[p]

\* Work of the present generation where the account is current was admitted in this era.
JobInv ==
    \A p \in Providers : job[p] # None =>
        /\ job[p].period <= period[p]
        /\ Current(p) /\ job[p].period = period[p] => job[p].era = era

\* What a managed export carries is there once it was taken.
CarriedInv ==
    custody = "managed" =>
        \A p \in Providers : Fenced(p) /\ fence[p].state # "fenced" => carried[fence[p].t].period \in Nat


Inv ==
    /\ TypeInv /\ UniqueInv /\ FileInv /\ CarryInv /\ PrevInv /\ PlcInv /\ PeerInv
    /\ CancellationIsFinal /\ DataInv /\ JobInv /\ CarriedInv

-----------------------------------------------------------------------------
(* The kinds of step, by what they do to those variables.                  *)

WireKept ==
    \A t \in Transfers : /\ Consented(t)' = Consented(t)
                         /\ Asked(t)' => Asked(t) \/ file[t].stage # "none"

Quiet ==
    /\ WireKept /\ faults' \in Nat
    /\ UNCHANGED <<plcVars, servingVars, fence, slot, import, hold, file, route, carried, custody>>

\* The owner's command line goes on, short of the cutover.
Filed ==
    /\ \A t \in Transfers : /\ file'[t].stage = "none" <=> file[t].stage = "none"
                            /\ file'[t].stage = "cutover" <=> file[t].stage = "cutover"
    /\ file' \in [Transfers -> Files]
    /\ UNCHANGED <<plcVars, servingVars, fence, slot, import, hold, route, carried, custody, wire, faults>>

Granted(t) ==
    /\ route[t] = None /\ file[t].stage = "none"
    /\ \E p, q \in Providers : p # q /\ route' = [route EXCEPT ![t] = [from |-> p, to |-> q]]
    /\ file' = [file EXCEPT ![t].stage = "grant"]
    /\ UNCHANGED <<plcVars, servingVars, fence, slot, import, hold, carried, custody, wire, faults>>

\* A slot is emptied, or goes on with the transfer it has.
Slotted ==
    /\ WireKept
    /\ slot' \in [Providers -> Slots \cup {None}]
    /\ \A p \in Providers : slot'[p] # None =>
         /\ slot[p] # None /\ slot'[p].t = slot[p].t
         /\ slot'[p].res # "none" => slot[p].res # "none" \/ file[slot[p].t].stage # "cutover"
    /\ UNCHANGED <<plcVars, servingVars, fence, import, hold, file, route, carried, custody, faults>>

\* A slot is given to a transfer, with what a finished import had left there.
Reserved(t) ==
    /\ WireKept /\ Asked(t)
    /\ slot[To(t)] = None \/ Recyclable(To(t))
    /\ slot' = [slot EXCEPT ![To(t)] = [t |-> t, res |-> "none", final |-> FALSE]]
    /\ import' = [u \in Transfers |-> IF Occupies(To(t), u) THEN NoImport ELSE import[u]]
    /\ UNCHANGED <<plcVars, servingVars, fence, hold, file, route, carried, custody, faults>>

Exported(p) ==
    /\ Fenced(p) /\ fence[p].state = "fenced"
    /\ fence' = [fence EXCEPT ![p].state = "exported", ![p].snap = data[p]]
    /\ custody = "managed" => carried' = [carried EXCEPT ![fence[p].t] = CollectedManaged(p)]
    /\ carried' = [t \in Transfers |-> carried'[t]]
    /\ UNCHANGED <<plcVars, servingVars, slot, import, hold, file, route, custody, wire, faults>>

Stages(t) ==
    /\ home = From(t) /\ Answered(t) /\ file[t].stage = "cutover" /\ import[t].state = "none"
    /\ \E w \in Consented(t) :
         import' = [import EXCEPT ![t] = [NoImport EXCEPT !.state = "staged", !.snap = w[3], !.prev = w[4]]]
    /\ UNCHANGED <<plcVars, servingVars, fence, slot, hold, file, route, carried, custody, wire, faults>>

\* The gate's observation of the PLC is taken, or lapses.
Observed(t) ==
    /\ Staged(t)
    /\ \E e, b \in BOOLEAN :
         /\ e => head = Cutover(t)
         /\ import' = [import EXCEPT ![t].eligible = e, ![t].bound = b]
    /\ faults' \in Nat
    /\ UNCHANGED <<plcVars, servingVars, fence, slot, hold, file, route, carried, custody, wire>>

\* The peer's barrier; it commits for a move that goes on.
Held(t) ==
    /\ \E h \in {"frozen", "committed", "completed", "released"} :
         /\ h \in {"committed", "completed"} => Resumable(t) /\ home = To(t)
         /\ hold' = [hold EXCEPT ![t] = h]
    /\ UNCHANGED <<plcVars, servingVars, fence, slot, import, file, route, carried, custody, wire, faults>>

\* The directory takes the cutover of a transfer.
Moved(t) ==
    /\ import[t].prev = head
    /\ import[t].cancelled => t \in delayed
    /\ home' = To(t) /\ head' = Cutover(t)
    /\ UNCHANGED <<delayed, servingVars, fence, slot, import, hold, file, route, carried, custody, wire, faults>>

Delayed(t) ==
    /\ delayed' = delayed \cup {t} /\ faults' \in Nat
    /\ UNCHANGED <<home, head, servingVars, fence, slot, import, hold, file, route, carried, custody, wire>>

\* The account becomes current at the destination, in a generation above any it had there.
Activated(t) ==
    LET p == To(t)
    IN /\ Staged(t) /\ import[t].eligible /\ Occupies(p, t) /\ slot[p].res = "submitted"
       /\ KeepsHistory(p, import[t].snap)
       /\ period' \in [Providers -> Nat] /\ period'[p] > period[p]
       /\ \A q \in Providers \ {p} : period'[q] = period[q]
       /\ data' = [data EXCEPT ![p] = import[t].snap]
       /\ fence' = [fence EXCEPT ![p] = None]
       /\ import' = [import EXCEPT ![t].state = "active"]
       /\ slot' = [slot EXCEPT ![p].res = "active"]
       /\ era' = era + 1
       /\ UNCHANGED <<plcVars, hold, job, accepted, purged, route, wire, file, faults, carried, custody>>

\* The steps taken as they are.
Kept == UNCHANGED <<carried, custody>>

Step ==
    \/ Quiet \/ Filed \/ Slotted \/ (OwnOperation /\ Kept)
    \/ \E t \in Transfers :
         \/ Granted(t) \/ Reserved(t) \/ Stages(t) \/ Observed(t) \/ Held(t) \/ Moved(t) \/ Delayed(t) \/ Activated(t)
         \/ (Kept /\ (SignCutover(t) \/ BeginFence(t) \/ Retire(t) \/ MarkCancelled(t) \/ Invalidate(t) \/ SourceRelease(t)))
    \/ \E p \in Providers : Exported(p) \/ (Kept /\ (AdmitJob(p) \/ RunJob(p) \/ Purge(p)))

-----------------------------------------------------------------------------
(* Every step of a move is of one of these kinds.                          *)

\* What is sent besides a bundle changes no bundle.
LEMMA SendingKeeps ==
    ASSUME NEW kind, NEW x, kind # "bundle", Send(kind, x)
    PROVE  \A t \in Transfers : Consented(t)' = Consented(t)
  BY DEF Send, Consented

\* What leaves the wire alone leaves both.
LEMMA StillWire ==
    ASSUME UNCHANGED wire
    PROVE  WireKept
  BY DEF WireKept, Consented, Asked, Sent

\* A message that is no bundle, invitation or final request.
LEMMA SmallTalk ==
    ASSUME NEW kind, NEW x, kind \notin {"bundle", "invite", "final"}, Send(kind, x)
    PROVE  WireKept
<1>1. \A t \in Transfers : Consented(t)' = Consented(t)  BY SendingKeeps
<1>2. \A t \in Transfers : Asked(t)' => Asked(t)  BY DEF Asked, Send, Sent
<1> QED  BY <1>1, <1>2 DEF WireKept

\* Grants, their expiry, the source's rows and the journals.
LEMMA QuietSteps ==
    ASSUME TypeInv, Kept, NEW t, NEW p,
           \/ GrantExpires(t) \/ SendFreeze(t) \/ AcceptAbort(t) \/ CleanTombs
           \/ ConfirmOrigin(p) \/ CleanSource(p) \/ Cancel(p) \/ Issue(p, t)
           \/ AcceptTransition(t, "frozen", "committed") \/ AcceptTransition(t, "committed", "completed")
    PROVE  Quiet
<1>0. faults \in Nat  BY DEF TypeInv
<1>1. CASE GrantExpires(t) \/ AcceptAbort(t) \/ CleanTombs \/ ConfirmOrigin(p) \/ CleanSource(p)
           \/ AcceptTransition(t, "frozen", "committed") \/ AcceptTransition(t, "committed", "completed")
  <2>1. UNCHANGED wire
    BY <1>1 DEF GrantExpires, AcceptAbort, CleanTombs, ConfirmOrigin, CleanSource, AcceptTransition
  <2>2. WireKept  BY <2>1, StillWire
  <2> QED
    BY <1>0, <1>1, <2>2 DEF Quiet, Kept, GrantExpires, AcceptAbort, CleanTombs, ConfirmOrigin, CleanSource, AcceptTransition,
       plcVars, sourceVars, targetVars, peerVars, servingVars
<1>2. CASE SendFreeze(t)
  <2>1. WireKept  BY <1>2, SmallTalk DEF SendFreeze
  <2> QED  BY <1>0, <1>2, <2>1 DEF Quiet, Kept, SendFreeze, plcVars, sourceVars, targetVars, peerVars, servingVars
<1>3. CASE Cancel(p)
  <2>1. WireKept  BY <1>3, SmallTalk DEF Cancel
  <2> QED  BY <1>0, <1>3, <2>1 DEF Quiet, Kept, Cancel, plcVars, sourceVars, targetVars, peerVars, servingVars
<1>4. CASE Issue(p, t)
  <2>1. \A u \in Transfers : Consented(u)' = Consented(u)  BY <1>4, SendingKeeps DEF Issue
  <2>2. \A u \in Transfers : Asked(u)' => Asked(u) \/ u = t  BY <1>4 DEF Issue, Asked, Send, Sent
  <2>3. WireKept  BY <1>4, <2>1, <2>2 DEF WireKept, Issue
  <2> QED  BY <1>0, <1>4, <2>3 DEF Quiet, Kept, Issue, plcVars, sourceVars, targetVars, peerVars, servingVars
<1> QED  BY <1>1, <1>2, <1>3, <1>4

\* The grant's revisions.
LEMMA GrantSteps ==
    ASSUME TypeInv, UNCHANGED custody, NEW t, NEW p,
           \/ Revise(p, "active") \/ Revise(p, "revoked") \/ ClaimRevision(p) \/ PublishRevision(p)
           \/ ApprovalLapses(t)
    PROVE  Quiet
<1>0. faults \in Nat  BY DEF TypeInv
<1>1. UNCHANGED wire  BY DEF Revise, ClaimRevision, PublishRevision, ApprovalLapses, vars
<1>2. WireKept  BY <1>1, StillWire
<1>3. faults' \in Nat  BY <1>0 DEF Revise, ClaimRevision, PublishRevision, ApprovalLapses, vars, Fault
<1> QED
  BY <1>2, <1>3 DEF Quiet, Revise, ClaimRevision, PublishRevision, ApprovalLapses,
     vars, plcVars, sourceVars, targetVars, peerVars, servingVars

\* The owner's command line.
LEMMA FileSteps ==
    ASSUME TypeInv, Kept, NEW t \in Transfers,
           TakeOffer(t) \/ SignSelection(t) \/ TakeReservation(t) \/ SignCancellation(t)
    PROVE  Filed
<1>1. \E r \in Files : /\ file' = [file EXCEPT ![t] = r]
                       /\ file[t].stage # "none" /\ r.stage # "none"
                       /\ r.stage = "cutover" <=> file[t].stage = "cutover"
  <2>0. file[t] \in Files /\ file \in [Transfers -> Files]  BY DEF TypeInv
  <2>1. CASE TakeOffer(t) \/ SignSelection(t) \/ TakeReservation(t)
    <3>1. PICK s \in {"offer", "selection", "reservation"} :
             file[t].stage \notin {"none", "cutover"} /\ file' = [file EXCEPT ![t].stage = s]
      BY <2>1 DEF TakeOffer, SignSelection, TakeReservation, Saves
    <3>2. [file[t] EXCEPT !.stage = s] \in Files /\ [file[t] EXCEPT !.stage = s].stage = s  BY <2>0 DEF Files
    <3>3. file' = [file EXCEPT ![t] = [file[t] EXCEPT !.stage = s]]  BY <2>0, <3>1
    <3> QED  BY <3>1, <3>2, <3>3
  <2>2. CASE SignCancellation(t)
    <3>1. file[t].stage # "none" /\ file' = [file EXCEPT ![t].cancel = TRUE]  BY <2>2 DEF SignCancellation
    <3>2. [file[t] EXCEPT !.cancel = TRUE] \in Files /\ [file[t] EXCEPT !.cancel = TRUE].stage = file[t].stage
      BY <2>0 DEF Files
    <3>3. file' = [file EXCEPT ![t] = [file[t] EXCEPT !.cancel = TRUE]]  BY <2>0, <3>1
    <3> QED  BY <3>1, <3>2, <3>3
  <2> QED  BY <2>1, <2>2
<1>2. PICK r \in Files : /\ file' = [file EXCEPT ![t] = r]
                         /\ file[t].stage # "none" /\ r.stage # "none"
                         /\ r.stage = "cutover" <=> file[t].stage = "cutover"
  BY <1>1
<1>3. file \in [Transfers -> Files]  BY DEF TypeInv
<1>4. file' \in [Transfers -> Files]  BY <1>2, <1>3
<1>5. \A u \in Transfers : /\ file'[u].stage = "none" <=> file[u].stage = "none"
                           /\ file'[u].stage = "cutover" <=> file[u].stage = "cutover"
  BY <1>2, <1>3
<1> QED
  BY <1>4, <1>5 DEF Filed, Kept, TakeOffer, SignSelection, TakeReservation, SignCancellation,
     plcVars, sourceVars, targetVars, peerVars, servingVars

LEMMA GrantingStep ==
    ASSUME TypeInv, Kept, NEW t \in Transfers, NEW p \in Providers, SignGrant(p, t)
    PROVE  Granted(t)
  BY DEF SignGrant, Saves, Granted, Kept, plcVars, sourceVars, targetVars, peerVars, servingVars

\* The destination's slot.
LEMMA SlotSteps ==
    ASSUME TypeInv, FileInv, Kept, NEW t, NEW p,
           \/ (p \in Providers /\ (ReserveAddress(p) \/ PublishFinal(p) \/ CleanTarget(p)))
           \/ FreeSlots(t) \/ ReceiveCancellation(t)
    PROVE  Slotted
<1>0. slot \in [Providers -> Slots \cup {None}]  BY DEF TypeInv
<1>1. WireKept
  <2>1. CASE UNCHANGED wire  BY <2>1, StillWire
  <2>2. CASE p \in Providers /\ PublishFinal(p)
    <3>1. PICK x : x = slot[p].t  OBVIOUS
    <3>2. Send("final", x) /\ file[x].stage # "none"  BY <2>2, <3>1 DEF PublishFinal, FileInv
    <3>3. \A u \in Transfers : Consented(u)' = Consented(u)  BY <3>2, SendingKeeps
    <3>4. \A u \in Transfers : Asked(u)' => Asked(u) \/ u = x  BY <3>2 DEF Asked, Send, Sent
    <3> QED  BY <3>2, <3>3, <3>4 DEF WireKept
  <2> QED  BY <2>1, <2>2 DEF ReserveAddress, CleanTarget, FreeSlots, ReceiveCancellation
<1>2. ASSUME NEW q \in Providers, NEW r \in Slots \cup {None}, slot' = [slot EXCEPT ![q] = r],
             r # None => /\ slot[q] # None /\ r.t = slot[q].t
                         /\ slot[q].res # "none" \/ file[slot[q].t].stage # "cutover"
      PROVE  Slotted
  <2>1. slot' \in [Providers -> Slots \cup {None}]  BY <1>0, <1>2
  <2>2. \A x \in Providers : slot'[x] # None =>
          /\ slot[x] # None /\ slot'[x].t = slot[x].t
          /\ slot'[x].res # "none" => slot[x].res # "none" \/ file[slot[x].t].stage # "cutover"
    BY <1>0, <1>2
  <2> QED
    BY <1>1, <2>1, <2>2 DEF Slotted, Kept, ReserveAddress, PublishFinal, CleanTarget, FreeSlots, ReceiveCancellation,
       plcVars, sourceVars, targetVars, peerVars, servingVars
<1>3. CASE p \in Providers /\ ReserveAddress(p)
  <2>1. slot[p] \in Slots /\ file[slot[p].t].stage = "selection"  BY <1>0, <1>3 DEF ReserveAddress
  <2>2. [slot[p] EXCEPT !.res = "selected"] \in Slots /\ [slot[p] EXCEPT !.res = "selected"].t = slot[p].t
    BY <2>1 DEF Slots
  <2>3. slot' = [slot EXCEPT ![p] = [slot[p] EXCEPT !.res = "selected"]]  BY <1>0, <1>3 DEF ReserveAddress
  <2> QED  BY <1>2, <1>3, <2>1, <2>2, <2>3 DEF ReserveAddress
<1>4. CASE p \in Providers /\ PublishFinal(p)
  <2>1. slot[p] \in Slots /\ slot[p].res = "selected" /\ slot[p] # None  BY <1>0, <1>4 DEF PublishFinal
  <2> DEFINE r == [slot[p] EXCEPT !.res = "submitted", !.final = TRUE]
  <2>2. r \in Slots /\ r.t = slot[p].t  BY <2>1 DEF Slots
  <2>3. slot' = [slot EXCEPT ![p] = r]  BY <1>0, <1>4 DEF PublishFinal
  <2> HIDE DEF r
  <2> QED  BY <1>2, <1>4, <2>1, <2>2, <2>3
<1>5. CASE p \in Providers /\ CleanTarget(p)
  <2>1. slot' = [slot EXCEPT ![p] = None]  BY <1>5 DEF CleanTarget
  <2> QED  BY <1>2, <1>5, <2>1
<1>6. CASE FreeSlots(t) \/ ReceiveCancellation(t)
  <2>0. ASSUME slot' = slot  PROVE  Slotted
    <3>1. \A x \in Providers : slot'[x] # None =>
            /\ slot[x] # None /\ slot'[x].t = slot[x].t
            /\ slot'[x].res # "none" => slot[x].res # "none" \/ file[slot[x].t].stage # "cutover"
      BY <2>0
    <3> QED
      BY <1>0, <1>1, <1>6, <2>0, <3>1 DEF Slotted, Kept, FreeSlots, ReceiveCancellation,
         plcVars, sourceVars, targetVars, peerVars, servingVars
  <2>1. CASE Occupies(To(t), t)
    <3>1. slot' = [slot EXCEPT ![To(t)] = None]  BY <1>6, <2>1 DEF FreeSlots, ReceiveCancellation, Vacated
    <3>2. CASE To(t) \in Providers  BY <1>2, <3>1, <3>2
    <3>3. CASE To(t) \notin Providers
      <4>1. slot' = slot  BY <1>0, <3>1, <3>3
      <4> QED  BY <2>0, <4>1
    <3> QED  BY <3>2, <3>3
  <2>2. CASE ~Occupies(To(t), t)
    <3>1. slot' = slot  BY <1>6, <2>2 DEF FreeSlots, ReceiveCancellation, Vacated
    <3> QED  BY <2>0, <3>1
  <2> QED  BY <2>1, <2>2
<1> QED  BY <1>3, <1>4, <1>5, <1>6

LEMMA InvitationSteps ==
    ASSUME TypeInv, Kept, NEW t \in Transfers, ReceiveInvitation(t)
    PROVE  Quiet \/ Reserved(t)
<1>0. faults \in Nat  BY DEF TypeInv
<1>1. WireKept  BY SmallTalk DEF ReceiveInvitation
<1>2. CASE UNCHANGED <<slot, keys, import>>
  BY <1>0, <1>1, <1>2 DEF Quiet, ReceiveInvitation, Kept, plcVars, sourceVars, targetVars, peerVars, servingVars
<1>3. CASE ~UNCHANGED <<slot, keys, import>>
  BY <1>1, <1>3 DEF Reserved, Asked, ReceiveInvitation, Kept, plcVars, sourceVars, targetVars, peerVars, servingVars
<1> QED  BY <1>2, <1>3

LEMMA ExportSteps ==
    ASSUME TypeInv, NEW p \in Providers, UNCHANGED custody,
           \/ custody = "portable" /\ Export(p) /\ UNCHANGED carried
           \/ ExportManaged(p)
    PROVE  Exported(p)
<1>0. carried = [t \in Transfers |-> carried[t]]  BY DEF TypeInv
<1>1. Export(p)  BY DEF ExportManaged
<1>2. /\ Fenced(p) /\ fence[p].state = "fenced"
      /\ fence' = [fence EXCEPT ![p].state = "exported", ![p].snap = data[p]]
  BY <1>1 DEF Export, AsksExport, Collected
<1>3. custody = "managed" => carried' = [carried EXCEPT ![fence[p].t] = CollectedManaged(p)]
  BY DEF ExportManaged
<1>4. carried' = [t \in Transfers |-> carried'[t]]
  <2>1. CASE UNCHANGED carried  BY <1>0, <2>1
  <2>2. CASE ExportManaged(p)
    <3>1. carried' = [carried EXCEPT ![fence[p].t] = CollectedManaged(p)]  BY <2>2 DEF ExportManaged
    <3> QED  BY <1>0, <3>1
  <2> QED  BY <2>1, <2>2
<1> QED
  BY <1>1, <1>2, <1>3, <1>4 DEF Exported, Export, plcVars, sourceVars, targetVars, peerVars, servingVars

LEMMA StageSteps ==
    ASSUME TypeInv, Kept, NEW t \in Transfers, StageImport(t) \/ StageManaged(t)
    PROVE  Stages(t)
<1>1. home = From(t) /\ Answered(t) /\ file[t].stage = "cutover" /\ import[t].state = "none"
  BY DEF StageImport, StageManaged, AsksCompletion, Answered
<1>2. \E w \in Consented(t) :
         import' = [import EXCEPT ![t] = [NoImport EXCEPT !.state = "staged", !.snap = w[3], !.prev = w[4]]]
  BY DEF StageImport, StageManaged, Manifest, MailWhole
<1> QED
  BY <1>1, <1>2 DEF Stages, StageImport, StageManaged, Kept, plcVars, sourceVars, targetVars, peerVars, servingVars

LEMMA GateSteps ==
    ASSUME TypeInv, Kept, NEW t \in Transfers, Assess(t) \/ AssessmentLapses(t)
    PROVE  Observed(t)
<1>0. import \in [Transfers -> Imports] /\ faults \in Nat  BY DEF TypeInv
<1>1. import[t] \in Imports /\ Staged(t)  BY <1>0 DEF Assess, AssessmentLapses
<1>2. import[t].bound \in BOOLEAN  BY <1>1 DEF Imports
<1>3. faults' \in Nat  BY <1>0 DEF Assess, AssessmentLapses, Fault
<1>4. CASE Assess(t)
  <2>1. Bound(t) \in BOOLEAN  BY <1>2 DEF Bound
  <2>2. import' = [import EXCEPT ![t].eligible = TRUE, ![t].bound = Bound(t)] /\ head = Cutover(t)
    BY <1>4 DEF Assess
  <2> QED
    BY <1>1, <1>3, <1>4, <2>1, <2>2 DEF Observed, Assess, Kept, plcVars, sourceVars, targetVars, peerVars, servingVars
<1>5. CASE AssessmentLapses(t)
  <2>1. import' = [import EXCEPT ![t].eligible = FALSE]  BY <1>5 DEF AssessmentLapses
  <2>2. [import[t] EXCEPT !.eligible = FALSE] = [import[t] EXCEPT !.eligible = FALSE, !.bound = import[t].bound]
    BY <1>1 DEF Imports
  <2>3. import' = [import EXCEPT ![t] = [import[t] EXCEPT !.eligible = FALSE]]  BY <1>0, <2>1
  <2>4. import' = [import EXCEPT ![t] = [import[t] EXCEPT !.eligible = FALSE, !.bound = import[t].bound]]
    BY <2>2, <2>3
  <2>5. import' = [import EXCEPT ![t].eligible = FALSE, ![t].bound = import[t].bound]  BY <1>0, <2>4
  <2> QED
    BY <1>1, <1>2, <1>3, <1>5, <2>5
       DEF Observed, AssessmentLapses, Kept, plcVars, sourceVars, targetVars, peerVars, servingVars
<1> QED  BY <1>4, <1>5

LEMMA PeerSteps ==
    ASSUME TypeInv, Kept, NEW t \in Transfers,
           \/ FreezeUnseen(t) \/ AcceptFreeze(t) \/ PeerReleases(t)
           \/ PeerMoves(t, "frozen", "committed") \/ PeerMoves(t, "committed", "completed")
    PROVE  Held(t)
<1>1. \E h \in {"frozen", "committed", "completed", "released"} :
         /\ h \in {"committed", "completed"} => Resumable(t) /\ home = To(t)
         /\ hold' = [hold EXCEPT ![t] = h]
  BY DEF FreezeUnseen, AcceptFreeze, PeerReleases, PeerMoves, Commands
<1> QED
  BY <1>1 DEF Held, FreezeUnseen, AcceptFreeze, PeerReleases, PeerMoves, Kept,
     plcVars, sourceVars, targetVars, peerVars, servingVars

LEMMA PlcSteps ==
    ASSUME TypeInv, Kept, NEW t \in Transfers, Submit(t) \/ PlcApplies(t)
    PROVE  Moved(t) \/ Delayed(t)
<1>1. CASE PlcApplies(t)
  BY <1>1 DEF Moved, PlcApplies, Kept, plcVars, sourceVars, targetVars, peerVars, servingVars
<1>2. CASE Submit(t)
  <2>1. import[t].prev = head /\ ~import[t].cancelled  BY <1>2 DEF Submit, Submittable
  <2>2. faults \in Nat  BY DEF TypeInv
  <2>3. CASE home' = To(t) /\ head' = Cutover(t) /\ UNCHANGED <<delayed, faults>>
    BY <1>2, <2>1, <2>3 DEF Moved, Submit, Kept, plcVars, sourceVars, targetVars, peerVars, servingVars
  <2>4. CASE Fault("late") /\ delayed' = delayed \cup {t} /\ UNCHANGED <<home, head>>
    BY <1>2, <2>2, <2>4 DEF Delayed, Fault, Submit, Kept, plcVars, sourceVars, targetVars, peerVars, servingVars
  <2> QED  BY <1>2, <2>3, <2>4 DEF Submit
<1> QED  BY <1>1, <1>2

\* A transfer with an import has a route.
LEMMA ImportRoute ==
    ASSUME FileInv, NEW t \in Transfers, import[t].state # "none"
    PROVE  From(t) \in Providers /\ To(t) \in Providers /\ From(t) # To(t) /\ file[t].stage = "cutover"
<1>1. file[t].stage = "cutover"  BY DEF FileInv
<1> QED  BY <1>1 DEF FileInv

LEMMA ActivationSteps ==
    ASSUME Inv, NEW t \in Transfers, Kept, Activate(t) \/ (custody = "managed" /\ ActivateManaged(t))
    PROVE  Activated(t)
<1>0. TypeInv /\ FileInv /\ CarryInv /\ CarriedInv  BY DEF Inv
<1>1. Ready(t) /\ KeepsHistory(To(t), import[t].snap)  BY DEF Activate, ActivateManaged
<1>2. Staged(t) /\ import[t].eligible /\ Occupies(To(t), t) /\ slot[To(t)].res = "submitted"  BY <1>1 DEF Ready
<1>3. From(t) \in Providers /\ To(t) \in Providers  BY <1>0, <1>2, ImportRoute DEF Staged
<1>4. period \in [Providers -> Nat]  BY <1>0 DEF TypeInv
<1>5. \E n \in Nat : n > period[To(t)] /\ period' = [period EXCEPT ![To(t)] = n]
  <2>0. period[To(t)] \in Nat  BY <1>3, <1>4
  <2>1. CASE Activate(t)
    <3>1. period' = [period EXCEPT ![To(t)] = period[To(t)] + 1]  BY <2>1 DEF Activate, NextPeriod
    <3>2. period[To(t)] + 1 \in Nat /\ period[To(t)] + 1 > period[To(t)]  BY <2>0
    <3> QED  BY <3>1, <3>2
  <2>2. CASE custody = "managed" /\ ActivateManaged(t)
    <3>1. Holds(From(t), t, "exported")  BY <1>0, <1>2 DEF CarryInv
    <3>2. carried[t].period \in Nat  BY <1>0, <1>3, <2>2, <3>1 DEF CarriedInv, Holds, Fenced
    <3>3. period[To(t)] <= carried[t].period /\ period' = [period EXCEPT ![To(t)] = carried[t].period + 1]
      BY <2>2 DEF ActivateManaged
    <3>4. carried[t].period + 1 \in Nat /\ carried[t].period + 1 > period[To(t)]  BY <2>0, <3>2, <3>3
    <3> QED  BY <3>3, <3>4
  <2> QED  BY <2>1, <2>2
<1>6. /\ period' \in [Providers -> Nat] /\ period'[To(t)] > period[To(t)]
      /\ \A q \in Providers \ {To(t)} : period'[q] = period[q]
  BY <1>3, <1>4, <1>5
<1>7. /\ data' = [data EXCEPT ![To(t)] = import[t].snap]
      /\ fence' = [fence EXCEPT ![To(t)] = None]
      /\ import' = [import EXCEPT ![t].state = "active"]
      /\ slot' = [slot EXCEPT ![To(t)].res = "active"]
      /\ era' = era + 1
  BY DEF Activate, ActivateManaged, Materialised
<1>8. UNCHANGED <<plcVars, hold, job, accepted, purged, route, wire, file, faults, carried, custody>>
  BY DEF Activate, ActivateManaged, Kept, plcVars, peerVars
<1> QED  BY <1>1, <1>2, <1>6, <1>7, <1>8 DEF Activated

\* What the two kinds of custody have in common.
LEMMA UndoSteps ==
    ASSUME Inv, Kept, NEW t \in Transfers, Undo(t)
    PROVE  Quiet \/ Slotted \/ Held(t) \/ (Kept /\ (Invalidate(t) \/ SourceRelease(t)))
<1>0. TypeInv /\ FileInv  BY DEF Inv
<1>1. CASE PeerReleases(t)  BY <1>0, <1>1, PeerSteps
<1>2. CASE AcceptAbort(t)  BY <1>0, <1>2, QuietSteps
<1>3. CASE FreeSlots(t)  BY <1>0, <1>3, SlotSteps
<1> QED  BY <1>1, <1>2, <1>3 DEF Undo

LEMMA PortableSteps ==
    ASSUME Inv, Portable
    PROVE  Step
<1>0. TypeInv /\ FileInv /\ custody = "portable"  BY DEF Inv, Portable
<1>k. Kept /\ UNCHANGED custody /\ UNCHANGED carried /\ Next  BY DEF Kept, Portable, managedVars
<1>1. CASE Serve  BY <1>1, <1>k DEF Serve, Step
<1>2. CASE Client
  <2>1. PICK t \in Transfers : (\E p \in Providers : SignGrant(p, t)) \/ TakeOffer(t) \/ SignSelection(t) \/ TakeReservation(t)
                                 \/ SignCancellation(t)
    BY <1>2 DEF Client
  <2>2. Granted(t) \/ Filed  BY <1>0, <1>k, <2>1, GrantingStep, FileSteps
  <2> QED  BY <2>2 DEF Step
<1>3. CASE Handshake
  <2>1. ASSUME NEW p \in Providers,
               ConfirmOrigin(p) \/ ReserveAddress(p) \/ PublishFinal(p) \/ Cancel(p) \/ CleanTarget(p) \/ CleanSource(p)
        PROVE  Quiet \/ Slotted
    BY <1>0, <1>k, <2>1, QuietSteps, SlotSteps
  <2>2. ASSUME NEW t \in Transfers, NEW p \in Providers, Issue(p, t)
        PROVE  Quiet
    BY <1>0, <1>k, <2>2, QuietSteps
  <2>3. ASSUME NEW t \in Transfers,
               GrantExpires(t) \/ ReceiveInvitation(t) \/ BeginFence(t) \/ ReceiveCancellation(t)
        PROVE  Quiet \/ Slotted \/ Reserved(t) \/ (Kept /\ BeginFence(t))
    BY <1>0, <1>k, <2>3, QuietSteps, SlotSteps, InvitationSteps
  <2>4. CASE CleanTombs  BY <1>0, <1>k, <2>4, QuietSteps DEF Step
  <2> QED  BY <1>3, <2>1, <2>2, <2>3, <2>4 DEF Handshake, Step
<1>4. CASE Move
  <2>1. ASSUME NEW p \in Providers, Export(p)
        PROVE  Exported(p)
    BY <1>0, <1>k, <2>1, ExportSteps
  <2>2. ASSUME NEW t \in Transfers, SignCutover(t) \/ StageImport(t) \/ SendFreeze(t) \/ FreezeUnseen(t) \/ AcceptFreeze(t)
        PROVE  (Kept /\ SignCutover(t)) \/ Stages(t) \/ Quiet \/ Held(t)
    BY <1>0, <1>k, <2>2, StageSteps, QuietSteps, PeerSteps
  <2>3. ASSUME NEW t \in Transfers, Submit(t) \/ PlcApplies(t) \/ AssessmentLapses(t)
        PROVE  Moved(t) \/ Delayed(t) \/ Observed(t)
    BY <1>0, <1>k, <2>3, PlcSteps, GateSteps
  <2> QED  BY <1>4, <2>1, <2>2, <2>3 DEF Move, Step
<1>5. CASE OwnOperation  BY <1>5, <1>k DEF Step
<1>6. CASE \E t \in Transfers : MarkCancelled(t) \/ Finish(t) \/ Undo(t)
  <2>1. PICK t \in Transfers : MarkCancelled(t) \/ Finish(t) \/ Undo(t)  BY <1>6
  <2>2. CASE Undo(t)
    <3>1. Quiet \/ Slotted \/ Held(t) \/ (Kept /\ (Invalidate(t) \/ SourceRelease(t)))  BY <1>k, <2>2, UndoSteps
    <3> QED  BY <3>1 DEF Step
  <2>3. CASE Finish(t)
    <3>1. CASE PeerMoves(t, "frozen", "committed") \/ PeerMoves(t, "committed", "completed")
      <4>1. Held(t)  BY <1>0, <1>k, <3>1, PeerSteps
      <4> QED  BY <4>1 DEF Step
    <3>2. CASE AcceptTransition(t, "frozen", "committed") \/ AcceptTransition(t, "committed", "completed")
      <4>1. Quiet  BY <1>0, <1>k, <3>2, QuietSteps
      <4> QED  BY <4>1 DEF Step
    <3>3. CASE Assess(t) \/ Activate(t)
      <4>1. Observed(t) \/ Activated(t)  BY <1>0, <1>k, <3>3, GateSteps, ActivationSteps
      <4> QED  BY <4>1 DEF Step
    <3>4. CASE Retire(t)  BY <1>k, <3>4 DEF Step
    <3> QED  BY <2>3, <3>1, <3>2, <3>3, <3>4 DEF Finish
  <2>4. CASE MarkCancelled(t)  BY <1>k, <2>4 DEF Step
  <2> QED  BY <2>1, <2>2, <2>3, <2>4
<1> QED  BY <1>k, <1>1, <1>2, <1>3, <1>4, <1>5, <1>6 DEF Next

LEMMA ManagedSteps ==
    ASSUME Inv, Managed
    PROVE  Step
<1>0. TypeInv /\ FileInv /\ custody = "managed" /\ UNCHANGED custody /\ ManagedNext  BY DEF Inv, Managed
<1>m. ASSUME UNCHANGED managedVars  PROVE  Kept  BY <1>0, <1>m DEF Kept, managedVars
<1>1. CASE Shared
  <2>0. Kept  BY <1>1, <1>m DEF Shared
  <2>1. ASSUME NEW t \in Transfers, (\E p \in Providers : SignGrant(p, t)) \/ TakeOffer(t) \/ SignSelection(t) \/ TakeReservation(t)
        PROVE  Granted(t) \/ Filed
    BY <1>0, <2>0, <2>1, GrantingStep, FileSteps
  <2>2. ASSUME NEW p \in Providers, CleanTarget(p) \/ CleanSource(p)
        PROVE  Quiet \/ Slotted
    BY <1>0, <2>0, <2>2, QuietSteps, SlotSteps
  <2>3. ASSUME NEW t \in Transfers, GrantExpires(t) \/ SendFreeze(t) \/ FreezeUnseen(t) \/ AcceptFreeze(t)
        PROVE  Quiet \/ Held(t)
    BY <1>0, <2>0, <2>3, QuietSteps, PeerSteps
  <2>4. ASSUME NEW t \in Transfers, Undo(t)
        PROVE  Quiet \/ Slotted \/ Held(t) \/ (Kept /\ (Invalidate(t) \/ SourceRelease(t)))
    BY <2>0, <2>4, UndoSteps
  <2>5. ASSUME NEW t \in Transfers, PlcApplies(t)
        PROVE  Moved(t) \/ Delayed(t)
    BY <1>0, <2>0, <2>5, PlcSteps
  <2>6. CASE CleanTombs  BY <1>0, <2>0, <2>6, QuietSteps DEF Step
  <2>7. ASSUME NEW t \in Transfers, MarkCancelled(t)  PROVE  Step  BY <2>0, <2>7 DEF Step
  <2>8. ASSUME NEW t \in Transfers,
               \/ (\E p \in Providers : SignGrant(p, t)) \/ TakeOffer(t) \/ SignSelection(t) \/ TakeReservation(t)
               \/ GrantExpires(t) \/ SendFreeze(t) \/ FreezeUnseen(t) \/ AcceptFreeze(t)
               \/ Undo(t) \/ PlcApplies(t)
        PROVE  Step
    BY <2>1, <2>3, <2>4, <2>5, <2>8 DEF Step
  <2>9. ASSUME NEW p \in Providers, CleanTarget(p) \/ CleanSource(p)  PROVE  Step
    BY <2>2, <2>9 DEF Step
  <2> QED  BY <1>1, <2>6, <2>7, <2>8, <2>9 DEF Shared
<1>2. ASSUME NEW p \in Providers, NEW t \in Transfers, Authorize(p, t)
      PROVE  Quiet
  BY <1>0, <1>m, <1>2, QuietSteps DEF Authorize
<1>3. ASSUME NEW p \in Providers,
             Revise(p, "active") \/ Revise(p, "revoked") \/ ClaimRevision(p) \/ PublishRevision(p)
      PROVE  Quiet
  BY <1>0, <1>3, GrantSteps
<1>4. ASSUME NEW p \in Providers, Deliver(p) \/ ReserveManagedAddress(p) \/ PublishFence(p) \/ ExportManaged(p)
      PROVE  Quiet \/ Slotted \/ Exported(p)
  BY <1>0, <1>m, <1>4, QuietSteps, SlotSteps, ExportSteps DEF Deliver, ReserveManagedAddress, PublishFence
<1>5. ASSUME NEW t \in Transfers, ReceiveManagedInvitation(t) \/ BeginManagedFence(t) \/ Approve(t) \/ ApprovalLapses(t)
      PROVE  Quiet \/ Reserved(t) \/ (Kept /\ (BeginFence(t) \/ SignCutover(t)))
  BY <1>0, <1>m, <1>5, InvitationSteps, GrantSteps DEF ReceiveManagedInvitation, BeginManagedFence, Approve
<1>6. ASSUME NEW t \in Transfers, StageManaged(t) \/ SubmitManaged(t)
      PROVE  Stages(t) \/ Moved(t) \/ Delayed(t)
  <2>1. CASE StageManaged(t)
    <3>1. Kept  BY <1>m, <2>1 DEF StageManaged
    <3> QED  BY <1>0, <2>1, <3>1, StageSteps
  <2>2. CASE SubmitManaged(t)  BY <1>0, <1>m, <2>2, PlcSteps DEF SubmitManaged
  <2> QED  BY <1>6, <2>1, <2>2
<1>7. ASSUME NEW t \in Transfers, Complete(t)
      PROVE  Step
  <2>1. CASE ActivateManaged(t)
    <3>1. Kept  BY <1>0, <2>1 DEF ActivateManaged, Kept
    <3>2. Activated(t)  BY <1>0, <2>1, <3>1, ActivationSteps
    <3> QED  BY <3>2 DEF Step
  <2>2. CASE ~ActivateManaged(t)
    <3>0. Kept  BY <1>7, <1>m, <2>2 DEF Complete
    <3>1. CASE PeerMoves(t, "frozen", "committed") \/ PeerMoves(t, "committed", "completed")
      <4>1. Held(t)  BY <1>0, <3>0, <3>1, PeerSteps
      <4> QED  BY <4>1 DEF Step
    <3>2. CASE AcceptTransition(t, "frozen", "committed") \/ AcceptTransition(t, "committed", "completed")
      <4>1. Quiet  BY <1>0, <3>0, <3>2, QuietSteps
      <4> QED  BY <4>1 DEF Step
    <3>3. CASE Assess(t)
      <4>1. Observed(t)  BY <1>0, <3>0, <3>3, GateSteps
      <4> QED  BY <4>1 DEF Step
    <3>4. CASE Retire(t)  BY <3>0, <3>4 DEF Step
    <3> QED  BY <1>7, <2>2, <3>1, <3>2, <3>3, <3>4 DEF Complete
  <2> QED  BY <2>1, <2>2
<1> QED  BY <1>0, <1>1, <1>2, <1>3, <1>4, <1>5, <1>6, <1>7 DEF ManagedNext, Step

-----------------------------------------------------------------------------
(* What carries an invariant over a step that leaves its subject alone.    *)

OverGrows == \A t \in Transfers : Over(t) => Over(t)'
CurrentShrinks == \A p \in Providers : Current(p)' => Current(p)

LEMMA OverSame ==
    ASSUME UNCHANGED <<import, file, slot, route>>
    PROVE  \A t : Over(t)' <=> Over(t)
  BY DEF Over, Prospective, Occupies, To

LEMMA CurrentFrame ==
    ASSUME TypeInv, OverGrows, UNCHANGED <<period, fence>>
    PROVE  CurrentShrinks
<1>1. \A p \in Providers : Fenced(p) => fence[p].t \in Transfers  BY DEF TypeInv, Fenced, Fences
<1> QED  BY <1>1 DEF CurrentShrinks, Current, OverGrows, Fenced

LEMMA UniqueFrame ==
    ASSUME UniqueInv, CurrentShrinks
    PROVE  UniqueInv'
  BY DEF UniqueInv, CurrentShrinks

LEMMA FollowsStays ==
    ASSUME OverGrows
    PROVE  \A prev : Follows(prev) => Follows(prev)'
  BY DEF Follows, OverGrows, Cutover

LEMMA FileFrame ==
    ASSUME FileInv, WireKept, UNCHANGED <<import, file, route, slot, period>>,
           \A p \in Providers : Fenced(p)' => Fenced(p) \/ period[p] > 0
    PROVE  FileInv'
  BY DEF FileInv, WireKept, Fenced, From, To

LEMMA CarryFrame ==
    ASSUME TypeInv, FileInv, CarryInv, WireKept, OverGrows, UNCHANGED <<import, fence, route>>
    PROVE  CarryInv'
  BY DEF CarryInv, WireKept, OverGrows, Staged, Holds, From

LEMMA PrevFrame ==
    ASSUME PrevInv, WireKept, OverGrows, UNCHANGED import
    PROVE  PrevInv'
<1>1. \A prev : Follows(prev) => Follows(prev)'  BY FollowsStays
<1>2. \A t \in Transfers : Consented(t)' = Consented(t)  BY DEF WireKept
<1> QED  BY <1>1, <1>2 DEF PrevInv

LEMMA PlcFrame ==
    ASSUME PlcInv, UNCHANGED <<home, head, import, route>>,
           \A t \in Transfers : file[t].stage = "cutover" => file'[t].stage = "cutover"
    PROVE  PlcInv'
  BY DEF PlcInv, Stuck, Staged, From, To, Cutover

LEMMA PeerFrame ==
    ASSUME PeerInv, OverGrows, UNCHANGED <<home, hold, import, route>>
    PROVE  PeerInv'
  BY DEF PeerInv, OverGrows, Staged, From

LEMMA FinalFrame ==
    ASSUME CancellationIsFinal, UNCHANGED <<head, hold, import>>, delayed \subseteq delayed'
    PROVE  CancellationIsFinal'
  BY DEF CancellationIsFinal, Overtaken, Cutover

LEMMA DataFrame ==
    ASSUME DataInv, CurrentShrinks, UNCHANGED <<data, accepted, purged, fence>>
    PROVE  DataInv'
  BY DEF DataInv, CurrentShrinks, Fenced

LEMMA JobFrame ==
    ASSUME JobInv, CurrentShrinks, UNCHANGED <<period, job, era>>
    PROVE  JobInv'
  BY DEF JobInv, CurrentShrinks

LEMMA CarriedFrame ==
    ASSUME CarriedInv, UNCHANGED <<fence, carried, custody>>
    PROVE  CarriedInv'
  BY DEF CarriedInv, Fenced

\* A step that makes the account current nowhere; the PLC moves only from a head that can
\* be followed to one that cannot.
Steady == CurrentShrinks /\ (Stuck => Stuck') /\ (home' = home \/ (~Stuck /\ Stuck'))

LEMMA SteadyFrame ==
    ASSUME CurrentShrinks, UNCHANGED <<home, head, import>>
    PROVE  Steady
  BY DEF Steady, Stuck, Cutover

-----------------------------------------------------------------------------
(* Each kind of step keeps the invariant.                                  *)

LEMMA QuietKeeps ==
    ASSUME Inv, Quiet
    PROVE  Inv' /\ Steady
<1> USE DEF Inv
<1>1. WireKept /\ faults' \in Nat
      /\ UNCHANGED <<home, head, delayed, period, data, job, accepted, purged, era,
                     fence, slot, import, hold, file, route, carried, custody>>
  BY DEF Quiet, plcVars, servingVars
<1>2. OverGrows  BY <1>1, OverSame DEF OverGrows
<1>3. CurrentShrinks  BY <1>1, <1>2, CurrentFrame
<1>4. TypeInv'  BY <1>1 DEF TypeInv
<1>5. UniqueInv' /\ DataInv' /\ JobInv' /\ CarriedInv'
  BY <1>1, <1>3, UniqueFrame, DataFrame, JobFrame, CarriedFrame
<1>6. FileInv' /\ CarryInv' /\ PrevInv' /\ PlcInv'
  <2>1. \A p \in Providers : Fenced(p)' => Fenced(p)  BY <1>1 DEF Fenced
  <2> QED  BY <1>1, <1>2, <2>1, FileFrame, CarryFrame, PrevFrame, PlcFrame
<1>7. PeerInv' /\ CancellationIsFinal'  BY <1>1, <1>2, PeerFrame, FinalFrame
<1>z. Steady  BY <1>1, <1>3, SteadyFrame
<1> QED  BY <1>4, <1>5, <1>6, <1>7, <1>z

LEMMA FiledKeeps ==
    ASSUME Inv, Filed
    PROVE  Inv' /\ Steady
<1> USE DEF Inv
<1>1. /\ \A t \in Transfers : /\ file'[t].stage = "none" <=> file[t].stage = "none"
                              /\ file'[t].stage = "cutover" <=> file[t].stage = "cutover"
      /\ file' \in [Transfers -> Files]
      /\ UNCHANGED <<home, head, delayed, period, data, job, accepted, purged, era,
                     fence, slot, import, hold, route, carried, custody, wire, faults>>
  BY DEF Filed, plcVars, servingVars
<1>w. WireKept  BY <1>1, StillWire
<1>2. OverGrows  BY <1>1 DEF OverGrows, Over, Prospective, Occupies, To
<1>3. CurrentShrinks  BY <1>1, <1>2, CurrentFrame
<1>4. TypeInv'  BY <1>1 DEF TypeInv
<1>5. UniqueInv' /\ DataInv' /\ JobInv' /\ CarriedInv'
  BY <1>1, <1>3, UniqueFrame, DataFrame, JobFrame, CarriedFrame
<1>6. FileInv'
  <2>1. \A p \in Providers : slot[p] # None => slot[p].t \in Transfers  BY DEF TypeInv, Slots
  <2> QED  BY <1>1, <1>w, <2>1 DEF FileInv, WireKept, Asked, Sent, Consented, Fenced, From, To
<1>7. CarryInv' /\ PrevInv' /\ PlcInv'  BY <1>1, <1>2, <1>w, CarryFrame, PrevFrame, PlcFrame
<1>8. PeerInv' /\ CancellationIsFinal'  BY <1>1, <1>2, PeerFrame, FinalFrame
<1>z. Steady  BY <1>1, <1>3, SteadyFrame
<1> QED  BY <1>4, <1>5, <1>6, <1>7, <1>8, <1>z

LEMMA GrantedKeeps ==
    ASSUME Inv, NEW t \in Transfers, Granted(t)
    PROVE  Inv' /\ Steady
<1> USE DEF Inv
<1>1. /\ file[t].stage = "none"
      /\ file' = [file EXCEPT ![t].stage = "grant"]
      /\ UNCHANGED <<home, head, delayed, period, data, job, accepted, purged, era,
                     fence, slot, import, hold, carried, custody, wire, faults>>
  BY DEF Granted, plcVars, servingVars
<1>p. PICK p \in Providers, q \in Providers : p # q /\ route' = [route EXCEPT ![t] = [from |-> p, to |-> q]]
  BY DEF Granted
<1>w. WireKept  BY <1>1, StillWire
<1>t. /\ file \in [Transfers -> Files] /\ route \in [Transfers -> Routes \cup {None}]
      /\ [from |-> p, to |-> q] \in Routes /\ [file[t] EXCEPT !.stage = "grant"] \in Files
  BY SMTT(40) DEF TypeInv, Routes, Files
<1>f. file' \in [Transfers -> Files] /\ route' \in [Transfers -> Routes \cup {None}]
  BY <1>1, <1>p, <1>t
<1>g. file'[t].stage = "grant" /\ \A u \in Transfers \ {t} : file'[u] = file[u]
  <2>1. file[t] \in Files  BY <1>t
  <2>2. [file[t] EXCEPT !.stage = "grant"].stage = "grant"  BY <2>1 DEF Files
  <2> QED  BY <1>1, <1>t, <2>2
<1>r. /\ From(t)' = p /\ To(t)' = q
      /\ \A u \in Transfers \ {t} : From(u)' = From(u) /\ To(u)' = To(u)
  BY <1>p, <1>t DEF From, To
<1>n. import[t].state = "none" /\ Consented(t) = {} /\ ~Over(t) /\ ~Over(t)'
  BY <1>1, <1>g DEF FileInv, Over, Prospective
<1>o. \A u \in Transfers : Over(u)' <=> Over(u)
  <2>1. \A u \in Transfers \ {t} : Over(u)' <=> Over(u)
    BY <1>1, <1>g, <1>r DEF Over, Prospective, Occupies
  <2> QED  BY <1>n, <2>1
<1>2. OverGrows  BY <1>o DEF OverGrows
<1>3. CurrentShrinks  BY <1>1, <1>2, CurrentFrame
<1>4. TypeInv'  BY <1>1, <1>f DEF TypeInv
<1>5. UniqueInv' /\ DataInv' /\ JobInv' /\ CarriedInv'
  BY <1>1, <1>3, UniqueFrame, DataFrame, JobFrame, CarriedFrame
<1>6. FileInv'
  <2>1. \A x \in Providers : slot[x] # None => slot[x].t \in Transfers  BY DEF TypeInv, Slots
  <2>2. \A x \in Providers : slot[x] # None => slot[x].t # t  BY <1>1 DEF FileInv
  <2>3. \A u \in Transfers : /\ import[u].state # "none" \/ Consented(u) # {} => file'[u].stage = "cutover"
                             /\ Asked(u) => file'[u].stage # "none"
    BY <1>1, <1>g, <1>n DEF FileInv
  <2>4. \A u \in Transfers : file'[u].stage # "none" =>
           From(u)' \in Providers /\ To(u)' \in Providers /\ From(u)' # To(u)'
    BY <1>p, <1>g, <1>r DEF FileInv
  <2>5. \A x \in Providers, u \in Transfers : slot[x] # None /\ slot[x].t = u => file'[u].stage # "none" /\ To(u)' = x
    BY <1>g, <1>r, <2>1, <2>2 DEF FileInv
  <2> QED  BY <1>1, <2>1, <2>3, <2>4, <2>5 DEF FileInv, Asked, Sent, Consented, Fenced, To
<1>7. CarryInv'
  <2>1. \A u \in Transfers : Consented(u)' = Consented(u)  BY <1>w DEF WireKept
  <2> QED  BY <1>1, <1>n, <1>o, <1>r, <2>1 DEF CarryInv, Staged, Holds
<1>8. PrevInv'  BY <1>1, <1>2, <1>w, PrevFrame
<1>9. PlcInv'
  <2>1. \A u \in Transfers : head = Cutover(u) => u # t  BY <1>1 DEF PlcInv
  <2>2. ~Staged(t)  BY <1>n DEF Staged
  <2>3. Stuck' <=> Stuck  BY <1>1 DEF Stuck, Cutover
  <2> QED  BY <1>1, <1>g, <1>n, <1>r, <2>1, <2>2, <2>3 DEF PlcInv, Staged, Cutover
<1>10. PeerInv'
  <2>1. ~Staged(t)  BY <1>n DEF Staged
  <2> QED  BY <1>1, <1>n, <1>o, <1>r, <2>1 DEF PeerInv, Staged
<1>11. CancellationIsFinal'  BY <1>1, FinalFrame
<1>z. Steady  BY <1>1, <1>3, SteadyFrame
<1> QED  BY <1>4, <1>5, <1>6, <1>7, <1>8, <1>9, <1>10, <1>11, <1>z

LEMMA SignedKeeps ==
    ASSUME Inv, NEW t \in Transfers, Kept, SignCutover(t)
    PROVE  Inv' /\ Steady
<1> USE DEF Inv
<1>b. PICK b : b = <<"bundle", t, fence[From(t)].snap, Evidence(From(t))>>  OBVIOUS
<1>1. /\ Holds(From(t), t, "exported") /\ file[t].stage = "reservation"
      /\ file' = [file EXCEPT ![t].stage = "cutover"]
      /\ wire' = wire \cup {b}
      /\ UNCHANGED <<home, head, delayed, period, data, job, accepted, purged, era,
                     fence, slot, import, hold, route, carried, custody, faults>>
  BY <1>b DEF SignCutover, Saves, Kept, plcVars, sourceVars, targetVars, peerVars, servingVars
<1>t. file \in [Transfers -> Files] /\ [file[t] EXCEPT !.stage = "cutover"] \in Files  BY DEF TypeInv, Files
<1>f. file' \in [Transfers -> Files]  BY <1>1, <1>t
<1>g. file'[t].stage = "cutover" /\ \A u \in Transfers \ {t} : file'[u] = file[u]
  <2>1. file[t] \in Files  BY <1>t
  <2>2. [file[t] EXCEPT !.stage = "cutover"].stage = "cutover"  BY <2>1 DEF Files
  <2> QED  BY <1>1, <1>t, <2>2
<1>n. import[t].state = "none" /\ Consented(t) = {} /\ ~Over(t) /\ From(t) \in Providers
  BY <1>1 DEF FileInv, Over, Prospective
<1>c. Consented(t)' = {b} /\ \A u \in Transfers \ {t} : Consented(u)' = Consented(u)
  BY <1>1, <1>b, <1>n DEF Consented
<1>i. \A u \in Transfers : Asked(u)' => Asked(u)
  <2>1. \A u : b # <<"invite", u>> /\ b # <<"final", u>>
    <3>1. b[1] = "bundle"  BY <1>b
    <3>2. \A u : <<"invite", u>>[1] = "invite" /\ <<"final", u>>[1] = "final"  OBVIOUS
    <3> QED  BY <3>1, <3>2
  <2> QED  BY <1>1, <2>1 DEF Asked, Sent
<1>2. OverGrows
  <2>1. \A u \in Transfers \ {t} : Over(u) => Over(u)'
    BY <1>1, <1>g DEF Over, Prospective, Occupies, To
  <2> QED  BY <1>n, <2>1 DEF OverGrows
<1>3. CurrentShrinks  BY <1>1, <1>2, CurrentFrame
<1>4. TypeInv'  BY <1>1, <1>f DEF TypeInv
<1>5. UniqueInv' /\ DataInv' /\ JobInv' /\ CarriedInv'
  BY <1>1, <1>3, UniqueFrame, DataFrame, JobFrame, CarriedFrame
<1>6. FileInv'
  <2>1. \A x \in Providers : slot[x] # None => slot[x].t \in Transfers  BY DEF TypeInv, Slots
  <2> QED  BY <1>1, <1>c, <1>g, <1>i, <2>1 DEF FileInv, Fenced, From, To
<1>7. CarryInv'
  <2>1. \A u \in Transfers \ {t} : Over(u) => Over(u)'  BY <1>2 DEF OverGrows
  <2> QED  BY <1>1, <1>b, <1>c, <1>n, <2>1 DEF CarryInv, Staged, Holds, From
<1>8. PrevInv'
  <2>1. Follows(Evidence(From(t)))
    <3>1. slot[From(t)] # None => slot[From(t)].t \in Transfers  BY <1>n DEF TypeInv, Slots
    <3> QED  BY <3>1 DEF Evidence, Follows, Over
  <2>2. \A prev : Follows(prev) => Follows(prev)'  BY <1>2, FollowsStays
  <2>3. Follows(b[4])'  BY <1>b, <2>1, <2>2
  <2> QED  BY <1>1, <1>c, <2>2, <2>3 DEF PrevInv
<1>9. PlcInv'
  <2>1. \A u \in Transfers : file[u].stage = "cutover" => file'[u].stage = "cutover"  BY <1>g
  <2> QED  BY <1>1, <2>1, PlcFrame
<1>10. PeerInv' /\ CancellationIsFinal'  BY <1>1, <1>2, PeerFrame, FinalFrame
<1>z. Steady  BY <1>1, <1>3, SteadyFrame
<1> QED  BY <1>4, <1>5, <1>6, <1>7, <1>8, <1>9, <1>10, <1>z

LEMMA SlottedKeeps ==
    ASSUME Inv, Slotted
    PROVE  Inv' /\ Steady
<1> USE DEF Inv
<1>1. /\ WireKept
      /\ slot' \in [Providers -> Slots \cup {None}]
      /\ \A p \in Providers : slot'[p] # None =>
           /\ slot[p] # None /\ slot'[p].t = slot[p].t
           /\ slot'[p].res # "none" => slot[p].res # "none" \/ file[slot[p].t].stage # "cutover"
      /\ UNCHANGED <<home, head, delayed, period, data, job, accepted, purged, era,
                     fence, import, hold, file, route, carried, custody, faults>>
  BY DEF Slotted, plcVars, servingVars
<1>2. OverGrows
  <2>1. \A t \in Transfers : file[t].stage = "cutover" => To(t) \in Providers  BY DEF FileInv
  <2> QED  BY <1>1, <2>1 DEF OverGrows, Over, Prospective, Occupies, To
<1>3. CurrentShrinks  BY <1>1, <1>2, CurrentFrame
<1>4. TypeInv'  BY <1>1 DEF TypeInv
<1>5. UniqueInv' /\ DataInv' /\ JobInv' /\ CarriedInv'
  BY <1>1, <1>3, UniqueFrame, DataFrame, JobFrame, CarriedFrame
<1>6. FileInv'  BY <1>1 DEF FileInv, WireKept, Fenced, From, To
<1>7. CarryInv' /\ PrevInv' /\ PlcInv'  BY <1>1, <1>2, CarryFrame, PrevFrame, PlcFrame
<1>8. PeerInv' /\ CancellationIsFinal'  BY <1>1, <1>2, PeerFrame, FinalFrame
<1>z. Steady  BY <1>1, <1>3, SteadyFrame
<1> QED  BY <1>4, <1>5, <1>6, <1>7, <1>8, <1>z

LEMMA ReservedKeeps ==
    ASSUME Inv, NEW t \in Transfers, Reserved(t)
    PROVE  Inv' /\ Steady
<1> USE DEF Inv
<1>p. PICK p : p = To(t)  OBVIOUS
<1>1. /\ WireKept
      /\ slot[p] = None \/ Recyclable(p)
      /\ slot' = [slot EXCEPT ![p] = [t |-> t, res |-> "none", final |-> FALSE]]
      /\ import' = [u \in Transfers |-> IF Occupies(p, u) THEN NoImport ELSE import[u]]
      /\ UNCHANGED <<home, head, delayed, period, data, job, accepted, purged, era,
                     fence, hold, file, route, carried, custody, faults>>
  BY <1>p DEF Reserved, plcVars, servingVars
<1>t. file[t].stage # "none" /\ p \in Providers  BY <1>p DEF Reserved, FileInv
<1>s. /\ slot' \in [Providers -> Slots \cup {None}]
      /\ slot'[p].t = t /\ slot'[p].res = "none"
      /\ \A q \in Providers \ {p} : slot'[q] = slot[q]
  <2>1. [t |-> t, res |-> "none", final |-> FALSE] \in Slots  BY DEF Slots
  <2>2. slot \in [Providers -> Slots \cup {None}]  BY DEF TypeInv
  <2> QED  BY <1>1, <1>t, <2>1, <2>2
<1>r. \A u \in Transfers : Occupies(p, u) => import[u].state = "active" /\ To(u) = p /\ file[u].stage = "cutover"
  BY <1>1, <1>t DEF Occupies, Recyclable, FileInv
<1>i. /\ \A u \in Transfers : Occupies(p, u) => import'[u] = NoImport
      /\ \A u \in Transfers : ~Occupies(p, u) => import'[u] = import[u]
      /\ NoImport.state = "none" /\ NoImport.prev = None /\ NoImport.cancelled = FALSE
  BY <1>1 DEF NoImport
<1>v. \A u \in Transfers : Occupies(p, u) => Over(u) /\ Over(u)'
  BY <1>1, <1>i, <1>r, <1>s DEF Over, Prospective, To
<1>2. OverGrows
  <2>1. \A u \in Transfers : file[u].stage = "cutover" => To(u) \in Providers  BY DEF FileInv
  <2>2. \A u \in Transfers : ~Occupies(p, u) /\ Over(u) => Over(u)'
    <3> SUFFICES ASSUME NEW u \in Transfers, ~Occupies(p, u), Over(u)
                 PROVE  Over(u)'
      OBVIOUS
    <3>1. To(u)' = To(u)  BY <1>1 DEF To
    <3>2. CASE import[u].state = "active"  BY <1>i, <3>2 DEF Over
    <3>3. CASE import[u].state = "none" /\ ~Prospective(u)
      <4>1. file[u].stage = "cutover" /\ ~(Occupies(To(u), u) /\ slot[To(u)].res # "none")  BY <3>3 DEF Prospective
      <4>2. CASE To(u) = p  BY <1>1, <1>i, <1>s, <3>1, <3>3, <4>1, <4>2 DEF Over, Prospective
      <4>3. CASE To(u) # p
        <5>1. slot'[To(u)] = slot[To(u)]  BY <1>s, <2>1, <4>1, <4>3
        <5> QED  BY <1>1, <1>i, <3>1, <3>3, <4>1, <5>1 DEF Over, Prospective, Occupies
      <4> QED  BY <4>2, <4>3
    <3> QED  BY <3>2, <3>3 DEF Over
  <2> QED  BY <1>v, <2>2 DEF OverGrows
<1>3. CurrentShrinks  BY <1>1, <1>2, CurrentFrame
<1>4. TypeInv'
  <2>1. NoImport \in Imports  BY DEF NoImport, Imports
  <2>2. import' \in [Transfers -> Imports]  BY <1>1, <2>1 DEF TypeInv
  <2> QED  BY <1>1, <1>s, <2>2 DEF TypeInv
<1>5. UniqueInv' /\ DataInv' /\ JobInv' /\ CarriedInv'
  BY <1>1, <1>3, UniqueFrame, DataFrame, JobFrame, CarriedFrame
<1>6. FileInv'
  <2>1. \A u \in Transfers : import'[u].state # "none" => import[u].state # "none"  BY <1>i
  <2>2. \A u \in Transfers : Asked(u)' => file[u].stage # "none"  BY <1>1 DEF WireKept, FileInv
  <2>3. \A u \in Transfers : Consented(u)' = Consented(u)  BY <1>1 DEF WireKept
  <2> QED  BY <1>1, <1>p, <1>s, <1>t, <2>1, <2>2, <2>3 DEF FileInv, Fenced, From, To
<1>7. CarryInv'
  <2>1. \A u \in Transfers : Consented(u)' = Consented(u)  BY <1>1 DEF WireKept
  <2>2. \A u \in Transfers : ~Over(u)' => ~Over(u) /\ import'[u] = import[u]  BY <1>i, <1>v, <1>2 DEF OverGrows
  <2>3. \A u \in Transfers : Staged(u)' => Staged(u) /\ import'[u] = import[u]  BY <1>i DEF Staged
  <2> QED  BY <1>1, <2>1, <2>2, <2>3 DEF CarryInv, Holds, From
<1>8. PrevInv'
  <2>1. \A u \in Transfers : Consented(u)' = Consented(u)  BY <1>1 DEF WireKept
  <2>2. \A prev : Follows(prev) => Follows(prev)'  BY <1>2, FollowsStays
  <2>3. \A u \in Transfers : import'[u].state # "none" => import'[u] = import[u]  BY <1>i
  <2> QED  BY <2>1, <2>2, <2>3 DEF PrevInv
<1>9. PlcInv'
  <2>1. Stuck => Stuck'  BY <1>1, <1>i, <1>r DEF Stuck, Cutover
  <2>2. \A u \in Transfers : import'[u].state # "none" => import'[u] = import[u]  BY <1>i
  <2>3. \A u \in Transfers : import'[u].state = "none" => import'[u].prev = None  BY <1>i DEF PlcInv
  <2> QED  BY <1>1, <2>1, <2>2, <2>3 DEF PlcInv, Staged, Cutover, From, To
<1>10. PeerInv'
  <2>1. \A u \in Transfers : import'[u].cancelled => import[u].cancelled  BY <1>i
  <2>2. \A u \in Transfers : Staged(u) => Staged(u)'  BY <1>i, <1>r DEF Staged
  <2> QED  BY <1>1, <1>2, <2>1, <2>2 DEF PeerInv, OverGrows, From
<1>11. CancellationIsFinal'
  <2>1. \A u \in Transfers : import'[u].cancelled => import[u].cancelled  BY <1>i
  <2> QED  BY <1>1, <2>1 DEF CancellationIsFinal, Overtaken, Cutover
<1>z. Steady
  <2>1. Stuck => Stuck'  BY <1>1, <1>i, <1>r DEF Stuck, Cutover
  <2> QED  BY <1>1, <1>3, <2>1 DEF Steady
<1> QED  BY <1>4, <1>5, <1>6, <1>7, <1>8, <1>9, <1>10, <1>11, <1>z

\* An operation that follows what is over does not follow a transfer that is not.
LEMMA NotOver ==
    ASSUME NEW t \in Transfers, ~Over(t)
    PROVE  ~Follows(Cutover(t))
  BY DEF Follows, Cutover

LEMMA StagesKeeps ==
    ASSUME Inv, NEW t \in Transfers, Stages(t)
    PROVE  Inv' /\ Steady
<1> USE DEF Inv
<1>1. /\ home = From(t) /\ Answered(t) /\ file[t].stage = "cutover" /\ import[t].state = "none"
      /\ UNCHANGED <<home, head, delayed, period, data, job, accepted, purged, era,
                     fence, slot, hold, file, route, carried, custody, faults, wire>>
  BY DEF Stages, plcVars, servingVars
<1>2. PICK w \in Consented(t) :
         import' = [import EXCEPT ![t] = [NoImport EXCEPT !.state = "staged", !.snap = w[3], !.prev = w[4]]]
  BY DEF Stages
<1>3. PICK r : r = [NoImport EXCEPT !.state = "staged", !.snap = w[3], !.prev = w[4]]  OBVIOUS
<1>4. /\ r.state = "staged" /\ r.snap = w[3] /\ r.prev = w[4] /\ r.cancelled = FALSE /\ r.eligible = FALSE
      /\ r = [state |-> "staged", cancelled |-> FALSE, snap |-> w[3], prev |-> w[4], eligible |-> FALSE, bound |-> FALSE]
  BY <1>3 DEF NoImport
<1>i. /\ import \in [Transfers -> Imports]
      /\ import'[t] = r /\ \A u \in Transfers \ {t} : import'[u] = import[u]
  BY <1>2, <1>3 DEF TypeInv
<1>o. ~Over(t) /\ ~Over(t)'  BY <1>1, <1>4, <1>i DEF Over, Prospective, Answered
<1>c. Holds(From(t), t, "exported") /\ w[3] = fence[From(t)].snap /\ Follows(w[4])
  BY <1>1, <1>o DEF CarryInv, PrevInv
<1>g. OverGrows
  BY <1>1, <1>i, <1>o DEF OverGrows, Over, Prospective, Occupies, To
<1>s. CurrentShrinks  BY <1>1, <1>g, CurrentFrame
<1>w. WireKept  BY <1>1, StillWire
<1>5. TypeInv'
  <2>1. From(t) \in Providers  BY <1>1 DEF FileInv
  <2>2. w[3] \in SUBSET Mail  BY <1>c, <2>1 DEF TypeInv, Fences, Holds
  <2>3. w[4] \in Heads  BY <1>c DEF Follows, Heads
  <2>4. r \in Imports  BY <1>4, <2>2, <2>3 DEF Imports
  <2>5. import' \in [Transfers -> Imports]  BY <1>2, <1>3, <1>i, <2>4
  <2> QED  BY <1>1, <2>5 DEF TypeInv
<1>6. UniqueInv' /\ DataInv' /\ JobInv' /\ CarriedInv'
  BY <1>1, <1>s, UniqueFrame, DataFrame, JobFrame, CarriedFrame
<1>7. FileInv'
  BY <1>1, <1>i, <1>w DEF FileInv, WireKept, Asked, Sent, Consented, Fenced, From, To
<1>8. CarryInv'
  <2>1. \A u \in Transfers : Consented(u)' = Consented(u)  BY <1>w DEF WireKept
  <2> QED  BY <1>1, <1>4, <1>c, <1>i, <1>g, <2>1 DEF CarryInv, OverGrows, Staged, Holds, From
<1>9. PrevInv'
  <2>1. \A u \in Transfers : Consented(u)' = Consented(u)  BY <1>w DEF WireKept
  <2>2. \A prev : Follows(prev) => Follows(prev)'  BY <1>g, FollowsStays
  <2> QED  BY <1>4, <1>c, <1>i, <2>1, <2>2 DEF PrevInv
<1>10. PlcInv'
  <2>1. Stuck => Stuck'  BY <1>1, <1>4, <1>i DEF Stuck, Cutover
  <2> QED  BY <1>1, <1>4, <1>i, <2>1 DEF PlcInv, Staged, Cutover, From, To
<1>11. PeerInv'
  BY <1>1, <1>4, <1>i, <1>g, <1>o DEF PeerInv, OverGrows, Staged, From
<1>12. CancellationIsFinal'
  BY <1>1, <1>4, <1>i DEF CancellationIsFinal, Overtaken, Cutover
<1>z. Steady
  <2>1. Stuck => Stuck'  BY <1>1, <1>4, <1>i DEF Stuck, Cutover
  <2> QED  BY <1>1, <1>s, <2>1 DEF Steady
<1> QED  BY <1>5, <1>6, <1>7, <1>8, <1>9, <1>10, <1>11, <1>12, <1>z

LEMMA ObservedKeeps ==
    ASSUME Inv, NEW t \in Transfers, Observed(t)
    PROVE  Inv' /\ Steady
<1> USE DEF Inv
<1>1. /\ Staged(t) /\ faults' \in Nat
      /\ UNCHANGED <<home, head, delayed, period, data, job, accepted, purged, era,
                     fence, slot, hold, file, route, carried, custody, wire>>
  BY DEF Observed, plcVars, servingVars
<1>2. PICK e \in BOOLEAN, b \in BOOLEAN :
        /\ e => head = Cutover(t)
        /\ import' = [import EXCEPT ![t].eligible = e, ![t].bound = b]
  BY DEF Observed
<1>3. import \in [Transfers -> Imports] /\ import[t] \in Imports  BY DEF TypeInv
<1>4. PICK r : r = [import[t] EXCEPT !.eligible = e, !.bound = b]  OBVIOUS
<1>5. /\ r.state = import[t].state /\ r.cancelled = import[t].cancelled
      /\ r.snap = import[t].snap /\ r.prev = import[t].prev
  BY <1>3, <1>4 DEF Imports
<1>6. r \in Imports  BY <1>3, <1>4 DEF Imports
<1>7. r.eligible = e  BY <1>3, <1>4 DEF Imports
<1>8. import' = [import EXCEPT ![t] = r]  BY <1>2, <1>3, <1>4
<1>i. /\ import' \in [Transfers -> Imports]
      /\ import'[t] = r /\ \A u \in Transfers \ {t} : import'[u] = import[u]
  BY <1>3, <1>6, <1>8
<1>a. \A u \in Transfers : /\ import'[u].state = import[u].state /\ import'[u].cancelled = import[u].cancelled
                           /\ import'[u].snap = import[u].snap /\ import'[u].prev = import[u].prev
  BY <1>5, <1>i
<1>g. OverGrows  BY <1>1, <1>a DEF OverGrows, Over, Prospective, Occupies, To
<1>s. CurrentShrinks  BY <1>1, <1>g, CurrentFrame
<1>w. WireKept  BY <1>1, StillWire
<1>c. \A u \in Transfers : Consented(u)' = Consented(u)  BY <1>w DEF WireKept
<1>9. TypeInv'  BY <1>1, <1>i DEF TypeInv
<1>10. UniqueInv' /\ DataInv' /\ JobInv' /\ CarriedInv'
  BY <1>1, <1>s, UniqueFrame, DataFrame, JobFrame, CarriedFrame
<1>11. FileInv'
  BY <1>1, <1>a, <1>w DEF FileInv, WireKept, Asked, Sent, Consented, Fenced, From, To
<1>12. CarryInv'
  BY <1>1, <1>a, <1>c, <1>g DEF CarryInv, OverGrows, Staged, Holds, From
<1>13. PrevInv'
  <2>1. \A prev : Follows(prev) => Follows(prev)'  BY <1>g, FollowsStays
  <2> QED  BY <1>a, <1>c, <2>1 DEF PrevInv
<1>14. PlcInv'
  <2>1. Stuck => Stuck'  BY <1>1, <1>a DEF Stuck, Cutover
  <2>2. import'[t].eligible => import'[t].prev # head
    <3>1. ~Over(t)  BY <1>1 DEF Over, Staged
    <3>2. Follows(import[t].prev)  BY <1>1 DEF PrevInv, Staged
    <3>3. ~Follows(Cutover(t))  BY <3>1, NotOver
    <3> QED  BY <1>2, <1>7, <1>a, <1>i, <3>2, <3>3
  <2>3. import[t].state # "active"  BY <1>1 DEF Staged
  <2> QED  BY <1>1, <1>a, <1>i, <2>1, <2>2, <2>3 DEF PlcInv, Staged, Cutover, From, To
<1>15. PeerInv'
  BY <1>1, <1>a, <1>g DEF PeerInv, OverGrows, Staged, From
<1>16. CancellationIsFinal'
  BY <1>1, <1>a DEF CancellationIsFinal, Overtaken, Cutover
<1>z. Steady
  <2>1. Stuck => Stuck'  BY <1>1, <1>a DEF Stuck, Cutover
  <2> QED  BY <1>1, <1>s, <2>1 DEF Steady
<1> QED  BY <1>9, <1>10, <1>11, <1>12, <1>13, <1>14, <1>15, <1>16, <1>z

LEMMA MarkedKeeps ==
    ASSUME Inv, NEW t \in Transfers, Kept, MarkCancelled(t)
    PROVE  Inv' /\ Steady
<1> USE DEF Inv
<1>1. /\ Staged(t) /\ home = From(t)
      /\ import' = [import EXCEPT ![t].cancelled = TRUE]
      /\ UNCHANGED <<home, head, delayed, period, data, job, accepted, purged, era,
                     fence, slot, hold, file, route, carried, custody, wire, faults>>
  BY DEF MarkCancelled, Kept, plcVars, sourceVars, peerVars, servingVars
<1>3. import \in [Transfers -> Imports] /\ import[t] \in Imports  BY DEF TypeInv
<1>4. PICK r : r = [import[t] EXCEPT !.cancelled = TRUE]  OBVIOUS
<1>5. r.state = import[t].state /\ r.snap = import[t].snap /\ r.prev = import[t].prev
  BY <1>3, <1>4 DEF Imports
<1>6. r \in Imports  BY <1>3, <1>4 DEF Imports
<1>7. r.eligible = import[t].eligible  BY <1>3, <1>4 DEF Imports
<1>8. import' = [import EXCEPT ![t] = r]  BY <1>1, <1>3, <1>4
<1>i. /\ import' \in [Transfers -> Imports]
      /\ import'[t] = r /\ \A u \in Transfers \ {t} : import'[u] = import[u]
  BY <1>3, <1>6, <1>8
<1>a. \A u \in Transfers : /\ import'[u].state = import[u].state /\ import'[u].eligible = import[u].eligible
                           /\ import'[u].snap = import[u].snap /\ import'[u].prev = import[u].prev
  BY <1>5, <1>7, <1>i
<1>g. OverGrows  BY <1>1, <1>a DEF OverGrows, Over, Prospective, Occupies, To
<1>s. CurrentShrinks  BY <1>1, <1>g, CurrentFrame
<1>w. WireKept  BY <1>1, StillWire
<1>c. \A u \in Transfers : Consented(u)' = Consented(u)  BY <1>w DEF WireKept
<1>h. hold[t] \notin {"committed", "completed"} /\ head # Cutover(t)
  <2>1. ~Over(t)  BY <1>1 DEF Over, Staged
  <2>2. From(t) # To(t)  BY <1>1, ImportRoute DEF Staged
  <2> QED  BY <1>1, <2>1, <2>2 DEF PeerInv, PlcInv
<1>9. TypeInv'  BY <1>1, <1>i DEF TypeInv
<1>10. UniqueInv' /\ DataInv' /\ JobInv' /\ CarriedInv'
  BY <1>1, <1>s, UniqueFrame, DataFrame, JobFrame, CarriedFrame
<1>11. FileInv'
  BY <1>1, <1>a, <1>w DEF FileInv, WireKept, Asked, Sent, Consented, Fenced, From, To
<1>12. CarryInv'
  BY <1>1, <1>a, <1>c, <1>g DEF CarryInv, OverGrows, Staged, Holds, From
<1>13. PrevInv'
  <2>1. \A prev : Follows(prev) => Follows(prev)'  BY <1>g, FollowsStays
  <2> QED  BY <1>a, <1>c, <2>1 DEF PrevInv
<1>14. PlcInv'
  <2>1. Stuck => Stuck'  BY <1>1, <1>a DEF Stuck, Cutover
  <2> QED  BY <1>1, <1>a, <2>1 DEF PlcInv, Staged, Cutover, From, To
<1>15. PeerInv'
  <2>1. \A u \in Transfers : hold[u] \in {"committed", "completed"} => import'[u] = import[u]  BY <1>h, <1>i
  <2> QED  BY <1>1, <1>g, <2>1 DEF PeerInv, OverGrows, Staged, From
<1>16. CancellationIsFinal'
  BY <1>1, <1>h, <1>i DEF CancellationIsFinal, Overtaken, Cutover
<1>z. Steady
  <2>1. Stuck => Stuck'  BY <1>1, <1>a DEF Stuck, Cutover
  <2> QED  BY <1>1, <1>s, <2>1 DEF Steady
<1> QED  BY <1>9, <1>10, <1>11, <1>12, <1>13, <1>14, <1>15, <1>16, <1>z

LEMMA InvalidatedKeeps ==
    ASSUME Inv, NEW t \in Transfers, Kept, Invalidate(t)
    PROVE  Inv' /\ Steady
<1> USE DEF Inv
<1>1. /\ Staged(t) /\ import[t].cancelled
      /\ import' = [import EXCEPT ![t].state = "invalidated"]
      /\ UNCHANGED <<home, head, delayed, period, data, job, accepted, purged, era,
                     fence, slot, hold, file, route, carried, custody, wire, faults>>
  BY DEF Invalidate, Kept, plcVars, sourceVars, peerVars, servingVars
<1>3. import \in [Transfers -> Imports] /\ import[t] \in Imports  BY DEF TypeInv
<1>4. PICK r : r = [import[t] EXCEPT !.state = "invalidated"]  OBVIOUS
<1>5. r.state = "invalidated" /\ r.prev = import[t].prev  BY <1>3, <1>4 DEF Imports
<1>6. r \in Imports  BY <1>3, <1>4 DEF Imports
<1>7. r.cancelled = import[t].cancelled  BY <1>3, <1>4 DEF Imports
<1>8. import' = [import EXCEPT ![t] = r]  BY <1>1, <1>3, <1>4
<1>i. /\ import' \in [Transfers -> Imports]
      /\ import'[t] = r /\ \A u \in Transfers \ {t} : import'[u] = import[u]
  BY <1>3, <1>6, <1>8
<1>s. import[t].state = "staged"  BY <1>1 DEF Staged
<1>o. \A u \in Transfers : Over(u)' <=> Over(u)
  BY <1>1, <1>5, <1>i, <1>s DEF Over, Prospective, Occupies, To
<1>g. OverGrows  BY <1>o DEF OverGrows
<1>u. CurrentShrinks  BY <1>1, <1>g, CurrentFrame
<1>w. WireKept  BY <1>1, StillWire
<1>c. \A u \in Transfers : Consented(u)' = Consented(u)  BY <1>w DEF WireKept
<1>h. hold[t] \notin {"committed", "completed"}  BY <1>1 DEF PeerInv
<1>9. TypeInv'  BY <1>1, <1>i DEF TypeInv
<1>10. UniqueInv' /\ DataInv' /\ JobInv' /\ CarriedInv'
  BY <1>1, <1>u, UniqueFrame, DataFrame, JobFrame, CarriedFrame
<1>11. FileInv'
  BY <1>1, <1>5, <1>i, <1>s, <1>w DEF FileInv, WireKept, Asked, Sent, Consented, Fenced, From, To
<1>12. CarryInv'
  BY <1>1, <1>5, <1>i, <1>c, <1>g DEF CarryInv, OverGrows, Staged, Holds, From
<1>13. PrevInv'
  <2>1. \A prev : Follows(prev) => Follows(prev)'  BY <1>g, FollowsStays
  <2> QED  BY <1>5, <1>c, <1>i, <1>s, <2>1 DEF PrevInv
<1>14. PlcInv'
  <2>1. Stuck => Stuck'  BY <1>1, <1>5, <1>i DEF Stuck, Cutover
  <2> QED  BY <1>1, <1>5, <1>i, <2>1 DEF PlcInv, Staged, Cutover, From, To
<1>15. PeerInv'
  <2>1. \A u \in Transfers : hold[u] \in {"committed", "completed"} => import'[u] = import[u]  BY <1>h, <1>i
  <2> QED  BY <1>1, <1>g, <2>1 DEF PeerInv, OverGrows, Staged, From
<1>16. CancellationIsFinal'
  <2>1. \A u \in Transfers : import'[u].cancelled <=> import[u].cancelled  BY <1>7, <1>i
  <2> QED  BY <1>1, <2>1 DEF CancellationIsFinal, Overtaken, Cutover
<1>z. Steady
  <2>1. Stuck => Stuck'  BY <1>1, <1>5, <1>i DEF Stuck, Cutover
  <2> QED  BY <1>1, <1>u, <2>1 DEF Steady
<1> QED  BY <1>9, <1>10, <1>11, <1>12, <1>13, <1>14, <1>15, <1>16, <1>z

LEMMA HeldKeeps ==
    ASSUME Inv, NEW t \in Transfers, Held(t)
    PROVE  Inv' /\ Steady
<1> USE DEF Inv
<1>1. UNCHANGED <<home, head, delayed, period, data, job, accepted, purged, era,
                  fence, slot, import, file, route, carried, custody, wire, faults>>
  BY DEF Held, plcVars, servingVars
<1>2. PICK h \in {"frozen", "committed", "completed", "released"} :
         /\ h \in {"committed", "completed"} => Resumable(t) /\ home = To(t)
         /\ hold' = [hold EXCEPT ![t] = h]
  BY DEF Held
<1>i. /\ hold' \in [Transfers -> {"none", "frozen", "committed", "completed", "released"}]
      /\ hold'[t] = h /\ \A u \in Transfers \ {t} : hold'[u] = hold[u]
  BY <1>2 DEF TypeInv
<1>g. OverGrows  BY <1>1, OverSame DEF OverGrows
<1>s. CurrentShrinks  BY <1>1, <1>g, CurrentFrame
<1>w. WireKept  BY <1>1, StillWire
<1>3. TypeInv'  BY <1>1, <1>i DEF TypeInv
<1>4. UniqueInv' /\ DataInv' /\ JobInv' /\ CarriedInv'
  BY <1>1, <1>s, UniqueFrame, DataFrame, JobFrame, CarriedFrame
<1>5. FileInv' /\ CarryInv' /\ PrevInv' /\ PlcInv'
  <2>1. \A p \in Providers : Fenced(p)' => Fenced(p)  BY <1>1 DEF Fenced
  <2> QED  BY <1>1, <1>g, <1>w, <2>1, FileFrame, CarryFrame, PrevFrame, PlcFrame
<1>6. h \in {"committed", "completed"} => ~import[t].cancelled /\ (Over(t) \/ (Staged(t) /\ home # From(t)))
  <2>1. SUFFICES ASSUME h \in {"committed", "completed"}
                 PROVE  ~import[t].cancelled /\ (Over(t) \/ (Staged(t) /\ home # From(t)))
    OBVIOUS
  <2>2. import[t].state \in {"staged", "active"} /\ ~import[t].cancelled /\ home = To(t)
    BY <1>2, <2>1 DEF Resumable
  <2>3. From(t) # To(t)  BY <2>2, ImportRoute
  <2> QED  BY <2>2, <2>3 DEF Over, Staged
<1>7. PeerInv'  BY <1>1, <1>6, <1>g, <1>i DEF PeerInv, OverGrows, Staged, From
<1>8. CancellationIsFinal'  BY <1>1, <1>6, <1>i DEF CancellationIsFinal, Overtaken, Cutover
<1>z. Steady  BY <1>1, <1>s, SteadyFrame
<1> QED  BY <1>3, <1>4, <1>5, <1>7, <1>8, <1>z

\* A head that cannot be followed is followed by no operation of a transfer.
LEMMA StuckStays ==
    ASSUME PrevInv, PlcInv, TypeInv, NEW t \in Transfers, import[t].prev = head
    PROVE  ~Stuck /\ import[t].state \in {"staged", "invalidated"}
<1>1. import[t].state # "none"  BY DEF PlcInv, TypeInv
<1>2. Follows(head)  BY <1>1 DEF PrevInv
<1>3. import[t].state # "active"  BY DEF PlcInv
<1>4. import[t] \in Imports  BY DEF TypeInv
<1>5. ~Stuck
  <2>1. SUFFICES ASSUME Stuck  PROVE  FALSE  OBVIOUS
  <2>2. CASE \E n \in Nat : head = <<"own", n>>
    <3>1. head[1] = "own"  BY <2>2
    <3>2. head[1] \in {"genesis", "cutover"}  BY <1>2 DEF Follows, Cutover
    <3> QED  BY <3>1, <3>2
  <2>3. CASE \E x \in Transfers : head = Cutover(x) /\ import[x].state \in {"staged", "invalidated"}
    <3>1. PICK x \in Transfers : head = Cutover(x) /\ import[x].state \in {"staged", "invalidated"}  BY <2>3
    <3>2. ~Over(x)  BY <3>1 DEF Over
    <3>3. ~Follows(Cutover(x))  BY <3>2, NotOver
    <3> QED  BY <1>2, <3>1, <3>3
  <2> QED  BY <2>1, <2>2, <2>3 DEF Stuck
<1> QED  BY <1>1, <1>3, <1>4, <1>5 DEF Imports

LEMMA MovedKeeps ==
    ASSUME Inv, NEW t \in Transfers, Moved(t)
    PROVE  Inv' /\ Steady
<1> USE DEF Inv
<1>1. /\ import[t].prev = head /\ (import[t].cancelled => t \in delayed)
      /\ home' = To(t) /\ head' = Cutover(t)
      /\ UNCHANGED <<delayed, period, data, job, accepted, purged, era,
                     fence, slot, import, hold, file, route, carried, custody, wire, faults>>
  BY DEF Moved, servingVars
<1>2. ~Stuck /\ import[t].state \in {"staged", "invalidated"}  BY <1>1, StuckStays
<1>o. ~Over(t)  BY <1>2 DEF Over
<1>n. ~Follows(Cutover(t))  BY <1>o, NotOver
<1>g. OverGrows  BY <1>1, OverSame DEF OverGrows
<1>s. CurrentShrinks  BY <1>1, <1>g, CurrentFrame
<1>w. WireKept  BY <1>1, StillWire
<1>k. Stuck'
  <2>1. head' = Cutover(t) /\ import'[t].state \in {"staged", "invalidated"}  BY <1>1, <1>2
  <2> QED  BY <2>1 DEF Stuck, Cutover
<1>3. TypeInv'
  <2>1. None # Cutover(t)  BY NoneAssumption DEF Cutover
  <2> QED  BY <1>1, <2>1 DEF TypeInv
<1>4. UniqueInv' /\ DataInv' /\ JobInv' /\ CarriedInv'
  BY <1>1, <1>s, UniqueFrame, DataFrame, JobFrame, CarriedFrame
<1>5. FileInv' /\ CarryInv' /\ PrevInv'
  <2>1. \A p \in Providers : Fenced(p)' => Fenced(p)  BY <1>1 DEF Fenced
  <2> QED  BY <1>1, <1>g, <1>w, <2>1, FileFrame, CarryFrame, PrevFrame
<1>6. PlcInv'
  <2>1. \A u \in Transfers : Cutover(u) = Cutover(t) => u = t  BY DEF Cutover
  <2>2. file[t].stage = "cutover"  BY <1>2 DEF FileInv
  <2>3. \A u \in Transfers : import[u].state # "none" => import[u].prev # Cutover(t)  BY <1>n DEF PrevInv
  <2>4. \A u \in Transfers : Cutover(u)' = Cutover(u)  BY DEF Cutover
  <2>5. \A u \in Transfers : head' = Cutover(u) => home' = To(u) /\ file[u].stage = "cutover"  BY <1>1, <2>1, <2>2
  <2>6. \A u \in Transfers : import[u].state = "active" \/ (Staged(u) /\ import[u].eligible) => import[u].prev # head'
    BY <1>1, <2>3 DEF Staged
  <2>7. \A u \in Transfers : import[u].state = "none" => import[u].prev = None  BY DEF PlcInv
  <2> QED  BY <1>1, <1>k, <2>4, <2>5, <2>6, <2>7 DEF PlcInv, Staged, To
<1>7. PeerInv'
  <2>1. \A u \in Transfers : ~(Staged(u) /\ home # From(u))  BY <1>2 DEF PlcInv
  <2> QED  BY <1>1, <1>g, <2>1 DEF PeerInv, OverGrows
<1>8. CancellationIsFinal'
  <2>1. \A u \in Transfers : Cutover(u) = Cutover(t) => u = t  BY DEF Cutover
  <2>2. \A u \in Transfers : Cutover(u)' = Cutover(u)  BY DEF Cutover
  <2> QED  BY <1>1, <2>1, <2>2 DEF CancellationIsFinal, Overtaken
<1>z. Steady  BY <1>2, <1>k, <1>s DEF Steady
<1> QED  BY <1>3, <1>4, <1>5, <1>6, <1>7, <1>8, <1>z

LEMMA DelayedKeeps ==
    ASSUME Inv, NEW t \in Transfers, Delayed(t)
    PROVE  Inv' /\ Steady
<1> USE DEF Inv
<1>1. /\ delayed' = delayed \cup {t} /\ faults' \in Nat
      /\ UNCHANGED <<home, head, period, data, job, accepted, purged, era,
                     fence, slot, import, hold, file, route, carried, custody, wire>>
  BY DEF Delayed, servingVars
<1>g. OverGrows  BY <1>1, OverSame DEF OverGrows
<1>s. CurrentShrinks  BY <1>1, <1>g, CurrentFrame
<1>w. WireKept  BY <1>1, StillWire
<1>3. TypeInv'  BY <1>1 DEF TypeInv
<1>4. UniqueInv' /\ DataInv' /\ JobInv' /\ CarriedInv'
  BY <1>1, <1>s, UniqueFrame, DataFrame, JobFrame, CarriedFrame
<1>5. FileInv' /\ CarryInv' /\ PrevInv' /\ PlcInv'
  <2>1. \A p \in Providers : Fenced(p)' => Fenced(p)  BY <1>1 DEF Fenced
  <2> QED  BY <1>1, <1>g, <1>w, <2>1, FileFrame, CarryFrame, PrevFrame, PlcFrame
<1>6. PeerInv' /\ CancellationIsFinal'  BY <1>1, <1>g, PeerFrame, FinalFrame
<1>z. Steady  BY <1>1, <1>s, SteadyFrame
<1> QED  BY <1>3, <1>4, <1>5, <1>6, <1>z

LEMMA OwnKeeps ==
    ASSUME Inv, Kept, OwnOperation
    PROVE  Inv' /\ Steady
<1> USE DEF Inv
<1>1. /\ head' = <<"own", faults>> /\ faults < MaxFaults /\ faults' = faults + 1
      /\ UNCHANGED <<home, delayed, period, data, job, accepted, purged, era,
                     fence, slot, import, hold, file, route, carried, custody, wire>>
  BY DEF OwnOperation, Fault, Kept, sourceVars, targetVars, peerVars, servingVars
<1>f. faults \in Nat /\ faults \in 0..MaxFaults  BY <1>1, TransferAssumption DEF TypeInv
<1>g. OverGrows  BY <1>1, OverSame DEF OverGrows
<1>s. CurrentShrinks  BY <1>1, <1>g, CurrentFrame
<1>w. WireKept  BY <1>1, StillWire
<1>k. Stuck'  BY <1>1, <1>f DEF Stuck
<1>n. /\ head' # None /\ head' # <<"genesis", 0>> /\ \A u \in Transfers : head' # Cutover(u)
  <2>1. head'[1] = "own"  BY <1>1
  <2>2. <<"genesis", 0>>[1] = "genesis" /\ \A u \in Transfers : Cutover(u)[1] = "cutover"  BY DEF Cutover
  <2>3. head' # None  BY <1>1, <1>f, NoneAssumption
  <2> QED  BY <2>1, <2>2, <2>3
<1>3. TypeInv'  BY <1>1, <1>f, <1>n DEF TypeInv
<1>4. UniqueInv' /\ DataInv' /\ JobInv' /\ CarriedInv'
  BY <1>1, <1>s, UniqueFrame, DataFrame, JobFrame, CarriedFrame
<1>5. FileInv' /\ CarryInv' /\ PrevInv'
  <2>1. \A p \in Providers : Fenced(p)' => Fenced(p)  BY <1>1 DEF Fenced
  <2> QED  BY <1>1, <1>g, <1>w, <2>1, FileFrame, CarryFrame, PrevFrame
<1>6. PlcInv'
  <2>1. \A u \in Transfers : Cutover(u)' = Cutover(u)  BY DEF Cutover
  <2>2. \A u \in Transfers : import[u].state # "none" => import[u].prev # head'  BY <1>n DEF PrevInv, Follows
  <2>3. \A u \in Transfers : import[u].state = "active" \/ (Staged(u) /\ import[u].eligible) => import[u].prev # head'
    BY <2>2 DEF Staged
  <2>4. \A u \in Transfers : import[u].state = "none" => import[u].prev = None  BY DEF PlcInv
  <2> QED  BY <1>1, <1>k, <1>n, <2>1, <2>3, <2>4 DEF PlcInv, Staged
<1>7. PeerInv'  BY <1>1, <1>g, PeerFrame
<1>8. CancellationIsFinal'  BY <1>1, <1>n DEF CancellationIsFinal, Overtaken, Cutover
<1>z. Steady  BY <1>1, <1>k, <1>s DEF Steady
<1> QED  BY <1>3, <1>4, <1>5, <1>6, <1>7, <1>8, <1>z

\* The steps that change one provider's fence, and nothing that a transfer is over by.
LEMMA FenceKeeps ==
    ASSUME Inv, NEW p \in Providers, NEW r \in Fences \cup {None},
           fence' = [fence EXCEPT ![p] = r],
           UNCHANGED <<home, head, delayed, period, data, job, accepted, purged, era,
                       slot, import, hold, file, route, custody, wire, faults>>,
           carried' = [t \in Transfers |-> carried'[t]],
           Current(p)' => Current(p),
           r # None => period[p] > 0,
           r # None /\ r.state # "fenced" => r.snap = data[p],
           CarriedInv',
           \A t \in Transfers : Holds(p, t, "exported") => import[t].state \in {"active", "invalidated"}
    PROVE  Inv' /\ Steady
<1> USE DEF Inv
<1>i. /\ fence' \in [Providers -> Fences \cup {None}]
      /\ fence'[p] = r /\ \A q \in Providers \ {p} : fence'[q] = fence[q]
  BY DEF TypeInv
<1>o. \A t : Over(t)' <=> Over(t)  BY OverSame
<1>g. OverGrows  BY <1>o DEF OverGrows
<1>s. CurrentShrinks
  <2>1. \A q \in Providers : Fenced(q) => fence[q].t \in Transfers  BY DEF TypeInv, Fenced, Fences
  <2> SUFFICES ASSUME NEW q \in Providers, Current(q)'
               PROVE  Current(q)
    BY DEF CurrentShrinks
  <2>2. CASE q = p  BY <2>2
  <2>3. CASE q # p
    <3>1. fence'[q] = fence[q] /\ period'[q] = period[q]  BY <1>i, <2>3
    <3>2. period[q] > 0  BY <3>1 DEF Current
    <3>3. Fenced(q) => fence[q].state # "retired"  BY <3>1 DEF Current, Fenced
    <3>4. PICK x : x = fence[q].t  OBVIOUS
    <3>5. Fenced(q) => ~Over(x)'
      <4>1. Fenced(q) => ~(import'[x].state = "active" \/ (import'[x].state = "none" /\ ~Prospective(x)'))
        BY <3>1, <3>4 DEF Current, Fenced, Over, Prospective, Occupies, To
      <4> QED  BY SMTT(40), <4>1 DEF Over
    <3> QED  BY <1>o, <3>2, <3>3, <3>4, <3>5 DEF Current
  <2> QED  BY <2>2, <2>3
<1>w. WireKept  BY StillWire
<1>3. TypeInv'  BY <1>i DEF TypeInv
<1>4. UniqueInv' /\ JobInv'  BY <1>s, UniqueFrame, JobFrame
<1>5. DataInv'  BY <1>i, <1>s DEF DataInv, CurrentShrinks, Fenced
<1>6. FileInv' /\ PrevInv' /\ PlcInv'
  <2>1. \A q \in Providers : Fenced(q)' => Fenced(q) \/ period[q] > 0  BY <1>i DEF Fenced
  <2> QED  BY <1>g, <1>w, <2>1, FileFrame, PrevFrame, PlcFrame
<1>7. CarryInv'
  <2>1. \A t \in Transfers : Consented(t)' = Consented(t) /\ From(t)' = From(t)  BY <1>w DEF WireKept, From
  <2>2. \A t \in Transfers : import[t].state \in {"none", "staged"} /\ Holds(From(t), t, "exported") =>
          From(t) # p
    OBVIOUS
  <2>3. \A t \in Transfers : Consented(t) # {} \/ Staged(t) => From(t) \in Providers  BY DEF FileInv, Staged
  <2>4. \A t \in Transfers : \A w \in Consented(t) :
          import[t].state = "none" /\ ~Over(t) => fence'[From(t)] = fence[From(t)]
    BY <1>i, <2>2, <2>3 DEF CarryInv
  <2>5. \A t \in Transfers : Staged(t) => fence'[From(t)] = fence[From(t)]
    BY <1>i, <2>2, <2>3 DEF CarryInv, Staged
  <2> QED  BY <1>o, <2>1, <2>4, <2>5 DEF CarryInv, Staged, Holds
<1>8. PeerInv' /\ CancellationIsFinal'  BY <1>g, PeerFrame, FinalFrame
<1>z. Steady  BY <1>s, SteadyFrame
<1> QED  BY <1>3, <1>4, <1>5, <1>6, <1>7, <1>8, <1>z

LEMMA FencedKeeps ==
    ASSUME Inv, NEW t \in Transfers, Kept, BeginFence(t)
    PROVE  Inv' /\ Steady
<1>1. UNCHANGED <<home, head, delayed, period, data, job, accepted, purged, era,
                  slot, import, hold, file, route, custody, wire, faults, carried>>
  BY DEF BeginFence, Kept, plcVars, targetVars, peerVars, servingVars
<1>2. PICK p, r : p = From(t) /\ r = [t |-> t, state |-> "fenced", snap |-> {}]  OBVIOUS
<1>3. Writable(p) /\ fence' = [fence EXCEPT ![p] = r]  BY <1>2 DEF BeginFence
<1>4. fence \in [Providers -> Fences \cup {None}] /\ carried = [x \in Transfers |-> carried[x]] /\ faults \in Nat
  BY DEF Inv, TypeInv
<1>5. CASE p \notin Providers
  <2>1. fence' = fence  BY <1>3, <1>4, <1>5
  <2>2. WireKept  BY <1>1, StillWire
  <2>3. Quiet  BY <1>1, <1>4, <2>1, <2>2 DEF Quiet, plcVars, servingVars
  <2> QED  BY <2>3, QuietKeeps
<1>6. CASE p \in Providers
  <2>1. r \in Fences /\ r.state = "fenced"  BY <1>2 DEF Fences
  <2>2. period[p] > 0 /\ Current(p) /\ ~Fenced(p)  BY <1>3 DEF Writable, Current
  <2>3. CarriedInv'
    <3>1. \A q \in Providers \ {p} : fence'[q] = fence[q]  BY <1>3, <1>4
    <3>2. fence'[p] = r  BY <1>3, <1>4, <1>6
    <3> QED  BY <1>1, <2>1, <3>1, <3>2 DEF Inv, CarriedInv, Fenced
  <2>4. \A x \in Transfers : ~Holds(p, x, "exported")  BY <2>2 DEF Fenced, Holds
  <2>5. carried' = [x \in Transfers |-> carried'[x]]  BY <1>1, <1>4
  <2> QED  BY <1>1, <1>3, <1>6, <2>1, <2>2, <2>3, <2>4, <2>5, FenceKeeps
<1> QED  BY <1>5, <1>6

LEMMA ExportedKeeps ==
    ASSUME Inv, NEW p \in Providers, Exported(p)
    PROVE  Inv' /\ Steady
<1>1. /\ Fenced(p) /\ fence[p].state = "fenced"
      /\ fence' = [fence EXCEPT ![p].state = "exported", ![p].snap = data[p]]
      /\ custody = "managed" => carried' = [carried EXCEPT ![fence[p].t] = CollectedManaged(p)]
      /\ carried' = [t \in Transfers |-> carried'[t]]
      /\ UNCHANGED <<home, head, delayed, period, data, job, accepted, purged, era,
                     slot, import, hold, file, route, custody, wire, faults>>
  BY DEF Exported, plcVars, servingVars
<1>2. /\ fence \in [Providers -> Fences \cup {None}] /\ fence[p] \in Fences /\ data[p] \in SUBSET Mail
      /\ period[p] \in Nat /\ carried = [t \in Transfers |-> carried[t]]
  BY <1>1 DEF Inv, TypeInv, Fenced
<1>3. PICK r : r = [fence[p] EXCEPT !.state = "exported", !.snap = data[p]]  OBVIOUS
<1>4. r \in Fences /\ r.t = fence[p].t /\ r.state = "exported" /\ r.snap = data[p] /\ r.t \in Transfers
  BY <1>2, <1>3 DEF Fences
<1>5. r # None  BY <1>4, NoneAssumption DEF Fences
<1>6. fence' = [fence EXCEPT ![p] = r]  BY <1>1, <1>2, <1>3
<1>7. fence'[p] = r /\ \A q \in Providers \ {p} : fence'[q] = fence[q]  BY <1>2, <1>6
<1>8. period[p] > 0  BY <1>1 DEF Inv, FileInv
<1>9. Current(p)' => Current(p)
  <2>1. \A t : Over(t)' <=> Over(t)  BY <1>1, OverSame
  <2>2. PICK x : x = fence[p].t  OBVIOUS
  <2>3. Current(p)' => ~Over(x)'
    <3>1. SUFFICES ASSUME Current(p)'  PROVE  ~Over(x)'  OBVIOUS
    <3> QED  BY <1>4, <1>5, <1>7, <2>2, <3>1 DEF Current, Fenced, Over, Prospective, Occupies, To
  <2> QED  BY <1>1, <1>8, <2>1, <2>2, <2>3 DEF Current
<1>10. CarriedInv'
  <2>1. SUFFICES ASSUME custody = "managed", NEW q \in Providers, fence'[q] # None, fence'[q].state # "fenced"
                 PROVE  carried'[fence'[q].t].period \in Nat
    BY <1>1 DEF CarriedInv, Fenced
  <2>2. fence'[q].t \in Transfers  BY <1>2, <1>4, <1>7, <2>1 DEF Fences
  <2>3. CollectedManaged(p).period = period[p]  BY DEF CollectedManaged
  <2>4. CASE fence'[q].t = fence[p].t  BY <1>1, <1>2, <2>1, <2>2, <2>3, <2>4
  <2>5. CASE fence'[q].t # fence[p].t
    <3>1. q # p /\ fence'[q] = fence[q]  BY <1>4, <1>7, <2>5
    <3>2. carried[fence[q].t].period \in Nat  BY <2>1, <3>1 DEF Inv, CarriedInv, Fenced
    <3>3. carried'[fence'[q].t] = carried[fence[q].t]  BY <1>1, <1>2, <2>1, <2>2, <2>5, <3>1
    <3> QED  BY <3>2, <3>3
  <2> QED  BY <2>4, <2>5
<1>11. \A t \in Transfers : ~Holds(p, t, "exported")  BY <1>1 DEF Holds
<1> QED  BY <1>1, <1>4, <1>6, <1>8, <1>9, <1>10, <1>11, FenceKeeps

LEMMA RetiredKeeps ==
    ASSUME Inv, NEW t \in Transfers, Kept, Retire(t)
    PROVE  Inv' /\ Steady
<1>p. PICK p : p = From(t)  OBVIOUS
<1>1. /\ import[t].state = "active" /\ Holds(p, t, "exported")
      /\ fence' = [fence EXCEPT ![p].state = "retired"]
      /\ UNCHANGED <<home, head, delayed, period, data, job, accepted, purged, era,
                     slot, import, hold, file, route, custody, wire, faults, carried>>
  BY <1>p DEF Retire, Receipt, Kept, plcVars, targetVars, peerVars, servingVars
<1>2. p \in Providers  BY <1>1, <1>p, ImportRoute DEF Inv
<1>3. /\ fence \in [Providers -> Fences \cup {None}] /\ fence[p] \in Fences /\ fence[p] # None
      /\ carried = [x \in Transfers |-> carried[x]]
  BY <1>1, <1>2 DEF Inv, TypeInv, Holds
<1>4. PICK r : r = [fence[p] EXCEPT !.state = "retired"]  OBVIOUS
<1>5. r \in Fences /\ r.t = fence[p].t /\ r.state = "retired" /\ r.snap = fence[p].snap  BY <1>3, <1>4 DEF Fences
<1>6. r # None  BY <1>5, NoneAssumption DEF Fences
<1>7. fence' = [fence EXCEPT ![p] = r]  BY <1>1, <1>3, <1>4
<1>8. fence'[p] = r /\ \A q \in Providers \ {p} : fence'[q] = fence[q]  BY <1>2, <1>3, <1>7
<1>9. period[p] > 0 /\ r.snap = data[p]  BY <1>1, <1>2, <1>5 DEF Inv, FileInv, DataInv, Fenced, Holds
<1>10. ~Current(p)'  BY <1>5, <1>6, <1>8 DEF Current, Fenced
<1>11. CarriedInv'
  <2>1. fence[p].state = "exported" /\ fence[p] # None  BY <1>1 DEF Holds
  <2>2. \A q \in Providers : fence'[q] # None /\ fence'[q].state # "fenced" =>
           fence[q] # None /\ fence[q].state # "fenced" /\ fence'[q].t = fence[q].t
    BY <1>5, <1>8, <2>1
  <2> QED  BY <1>1, <2>2 DEF Inv, CarriedInv, Fenced
<1>12. \A x \in Transfers : Holds(p, x, "exported") => import[x].state = "active"  BY <1>1 DEF Holds
<1>13. carried' = [x \in Transfers |-> carried'[x]]  BY <1>1, <1>3
<1> QED  BY <1>1, <1>2, <1>5, <1>7, <1>9, <1>10, <1>11, <1>12, <1>13, FenceKeeps

LEMMA ReleasedKeeps ==
    ASSUME Inv, NEW t \in Transfers, Kept, SourceRelease(t)
    PROVE  Inv' /\ Steady
<1>p. PICK p : p = From(t)  OBVIOUS
<1>1. /\ import[t].state = "invalidated" /\ Holds(p, t, "exported")
      /\ fence' = [fence EXCEPT ![p] = None]
      /\ UNCHANGED <<home, head, delayed, period, data, job, accepted, purged, era,
                     slot, import, hold, file, route, custody, wire, faults, carried>>
  BY <1>p DEF SourceRelease, Kept, plcVars, targetVars, peerVars, servingVars
<1>2. p \in Providers  BY <1>1, <1>p, ImportRoute DEF Inv
<1>3. fence \in [Providers -> Fences \cup {None}] /\ carried = [x \in Transfers |-> carried[x]]  BY DEF Inv, TypeInv
<1>4. fence'[p] = None /\ \A q \in Providers \ {p} : fence'[q] = fence[q]  BY <1>1, <1>2, <1>3
<1>5. Current(p)
  <2>1. ~Over(t)  BY <1>1 DEF Over
  <2>2. period[p] > 0  BY <1>1, <1>2 DEF Inv, FileInv, Holds, Fenced
  <2> QED  BY <1>1, <2>1, <2>2 DEF Current, Holds
<1>6. CarriedInv'  BY <1>1, <1>4 DEF Inv, CarriedInv, Fenced
<1>7. \A x \in Transfers : Holds(p, x, "exported") => import[x].state = "invalidated"  BY <1>1 DEF Holds
<1>8. carried' = [x \in Transfers |-> carried'[x]]  BY <1>1, <1>3
<1> QED  BY <1>1, <1>2, <1>5, <1>6, <1>7, <1>8, FenceKeeps

\* Work on the account leaves the move alone.
LEMMA ServeFrame ==
    ASSUME Inv,
           UNCHANGED <<home, head, delayed, period, era, fence, slot, import, hold, file, route, carried, custody, wire>>,
           TypeInv', DataInv', JobInv'
    PROVE  Inv' /\ Steady
<1> USE DEF Inv
<1>g. OverGrows  BY OverSame DEF OverGrows
<1>s. CurrentShrinks  BY <1>g, CurrentFrame
<1>w. WireKept  BY StillWire
<1>1. UniqueInv' /\ CarriedInv'  BY <1>s, UniqueFrame, CarriedFrame
<1>2. FileInv' /\ CarryInv' /\ PrevInv' /\ PlcInv'
  <2>1. \A p \in Providers : Fenced(p)' => Fenced(p)  BY DEF Fenced
  <2> QED  BY <1>g, <1>w, <2>1, FileFrame, CarryFrame, PrevFrame, PlcFrame
<1>3. PeerInv' /\ CancellationIsFinal'  BY <1>g, PeerFrame, FinalFrame
<1>z. Steady  BY <1>s, SteadyFrame
<1> QED  BY <1>1, <1>2, <1>3, <1>z

LEMMA ServeKeeps ==
    ASSUME Inv, NEW p \in Providers, Kept, AdmitJob(p) \/ RunJob(p) \/ Purge(p)
    PROVE  Inv' /\ Steady
<1>1. UNCHANGED <<home, head, delayed, period, era, fence, slot, import, hold, file, route, carried, custody, wire>>
  BY DEF AdmitJob, RunJob, Purge, Kept, plcVars, sourceVars, targetVars, peerVars
<1>2. TypeInv /\ DataInv /\ JobInv /\ UniqueInv  BY DEF Inv
<1>g. OverGrows  BY <1>1, OverSame DEF OverGrows
<1>s. CurrentShrinks  BY <1>1, <1>2, <1>g, CurrentFrame
<1>3. CASE AdmitJob(p)
  <2>1. period[p] \in Nat /\ era \in Nat /\ job \in [Providers -> Jobs \cup {None}]  BY <1>2 DEF TypeInv
  <2>2. PICK r : r = [period |-> period[p], era |-> era]  OBVIOUS
  <2>3. r \in Jobs /\ r.period = period[p] /\ r.era = era  BY <2>1, <2>2 DEF Jobs
  <2>4. job' = [job EXCEPT ![p] = r]  BY <1>3, <2>2 DEF AdmitJob
  <2>5. job' \in [Providers -> Jobs \cup {None}] /\ job'[p] = r /\ \A q \in Providers \ {p} : job'[q] = job[q]
    BY <2>1, <2>3, <2>4
  <2>6. UNCHANGED <<data, accepted, purged, faults>>  BY <1>3 DEF AdmitJob
  <2>7. TypeInv'  BY <1>1, <1>2, <2>5, <2>6 DEF TypeInv
  <2>8. DataInv'  BY <1>1, <1>2, <1>s, <2>6, DataFrame
  <2>9. JobInv'
    <3>1. period[p] <= period[p]  BY <2>1
    <3> QED  BY <1>1, <1>2, <1>s, <2>3, <2>5, <3>1 DEF JobInv, CurrentShrinks
  <2> QED  BY <1>1, <2>7, <2>8, <2>9, ServeFrame
<1>4. CASE RunJob(p)
  <2>0. UNCHANGED <<purged, faults>> /\ job' = [job EXCEPT ![p] = None]  BY <1>4 DEF RunJob
  <2>1. job \in [Providers -> Jobs \cup {None}]  BY <1>2 DEF TypeInv
  <2>2. job' \in [Providers -> Jobs \cup {None}] /\ job'[p] = None /\ \A q \in Providers \ {p} : job'[q] = job[q]
    BY <2>0, <2>1
  <2>3. JobInv'  BY <1>1, <1>2, <1>s, <2>2 DEF JobInv, CurrentShrinks
  <2>4. CASE UNCHANGED <<data, accepted>>
    <3>1. TypeInv'  BY <1>1, <1>2, <2>0, <2>2, <2>4 DEF TypeInv
    <3>2. DataInv'  BY <1>1, <1>2, <1>s, <2>0, <2>4, DataFrame
    <3> QED  BY <1>1, <2>3, <3>1, <3>2, ServeFrame
  <2>5. CASE ~UNCHANGED <<data, accepted>>
    <3>1. PICK m \in Mail \ accepted : data' = [data EXCEPT ![p] = @ \cup {m}] /\ accepted' = accepted \cup {m}
      BY <1>4, <2>5 DEF RunJob
    <3>2. Writable(p)  BY <1>4, <2>5 DEF RunJob, Permits
    <3>3. data \in [Providers -> SUBSET Mail]  BY <1>2 DEF TypeInv
    <3>4. data' \in [Providers -> SUBSET Mail] /\ data'[p] = data[p] \cup {m} /\ \A q \in Providers \ {p} : data'[q] = data[q]
      BY <3>1, <3>3
    <3>5. TypeInv'  BY <1>1, <1>2, <2>0, <2>2, <3>4 DEF TypeInv
    <3>6. DataInv'
      <4>1. Current(p) /\ ~Fenced(p)  BY <3>2 DEF Current, Writable
      <4>2. \A q \in Providers : Current(q)' => q = p  BY <1>2, <1>s, <4>1 DEF UniqueInv, CurrentShrinks
      <4>3. purged \subseteq accepted /\ data[p] = accepted \ purged  BY <1>2, <4>1 DEF DataInv
      <4>4. data'[p] = accepted' \ purged  BY <3>1, <3>4, <4>3
      <4>5. purged' \subseteq accepted'  BY <2>0, <3>1, <4>3
      <4>6. \A q \in Providers : Fenced(q) /\ fence[q].state # "fenced" => fence[q].snap = data'[q]
        BY <1>2, <3>4, <4>1 DEF DataInv
      <4> QED  BY <1>1, <2>0, <4>2, <4>4, <4>5, <4>6 DEF DataInv, Fenced
    <3> QED  BY <1>1, <2>3, <3>5, <3>6, ServeFrame
  <2> QED  BY <2>4, <2>5
<1>5. CASE Purge(p)
  <2>0. UNCHANGED <<accepted, job>> /\ Writable(p)  BY <1>5 DEF Purge
  <2>1. PICK m \in data[p] : data' = [data EXCEPT ![p] = @ \ {m}] /\ purged' = purged \cup {m}  BY <1>5 DEF Purge
  <2>2. data \in [Providers -> SUBSET Mail] /\ faults \in Nat  BY <1>2 DEF TypeInv
  <2>3. faults' \in Nat  BY <1>5, <2>2 DEF Purge, Fault
  <2>4. data' \in [Providers -> SUBSET Mail] /\ data'[p] = data[p] \ {m} /\ \A q \in Providers \ {p} : data'[q] = data[q]
    BY <2>1, <2>2
  <2>5. TypeInv'  BY <1>1, <1>2, <2>0, <2>3, <2>4 DEF TypeInv
  <2>6. DataInv'
    <3>1. Current(p) /\ ~Fenced(p)  BY <2>0 DEF Current, Writable
    <3>2. \A q \in Providers : Current(q)' => q = p  BY <1>2, <1>s, <3>1 DEF UniqueInv, CurrentShrinks
    <3>3. purged \subseteq accepted /\ data[p] = accepted \ purged  BY <1>2, <3>1 DEF DataInv
    <3>4. data'[p] = accepted \ purged'  BY <2>1, <2>4, <3>3
    <3>5. purged' \subseteq accepted  BY <2>1, <3>3
    <3>6. \A q \in Providers : Fenced(q) /\ fence[q].state # "fenced" => fence[q].snap = data'[q]
      BY <1>2, <2>4, <3>1 DEF DataInv
    <3> QED  BY <1>1, <2>0, <3>2, <3>4, <3>5, <3>6 DEF DataInv, Fenced
  <2>7. JobInv'  BY <1>1, <1>2, <1>s, <2>0, JobFrame
  <2> QED  BY <1>1, <2>5, <2>6, <2>7, ServeFrame
<1> QED  BY <1>3, <1>4, <1>5

\* A staged import has the account's provider as its source.
LEMMA StagedIsCurrent ==
    ASSUME Inv, NEW t \in Transfers, Staged(t)
    PROVE  /\ Current(From(t)) /\ Holds(From(t), t, "exported") /\ From(t) \in Providers
           /\ import[t].snap = data[From(t)]
<1>1. From(t) \in Providers  BY ImportRoute DEF Inv, Staged
<1>2. Holds(From(t), t, "exported") /\ import[t].snap = fence[From(t)].snap  BY DEF Inv, CarryInv
<1>3. period[From(t)] > 0 /\ fence[From(t)].snap = data[From(t)]
  BY <1>1, <1>2 DEF Inv, FileInv, DataInv, Holds, Fenced
<1>4. ~Over(t)  BY DEF Over, Staged
<1> QED  BY <1>1, <1>2, <1>3, <1>4 DEF Current, Holds

LEMMA OneStaged ==
    ASSUME Inv, NEW t \in Transfers, NEW u \in Transfers, Staged(t), Staged(u)
    PROVE  t = u
<1>1. Current(From(t)) /\ Current(From(u)) /\ From(t) \in Providers /\ From(u) \in Providers  BY StagedIsCurrent
<1>2. From(t) = From(u)  BY <1>1 DEF Inv, UniqueInv
<1>3. Holds(From(t), t, "exported") /\ Holds(From(u), u, "exported")  BY StagedIsCurrent
<1> QED  BY <1>2, <1>3 DEF Holds

LEMMA ActivatedKeeps ==
    ASSUME Inv, NEW t \in Transfers, Activated(t)
    PROVE  Inv'
<1> USE DEF Inv
<1>p. PICK p, s : p = To(t) /\ s = From(t)  OBVIOUS
<1>1. /\ Staged(t) /\ import[t].eligible /\ Occupies(p, t)
      /\ KeepsHistory(p, import[t].snap)
      /\ period' \in [Providers -> Nat] /\ period'[p] > period[p]
      /\ \A q \in Providers \ {p} : period'[q] = period[q]
      /\ data' = [data EXCEPT ![p] = import[t].snap]
      /\ fence' = [fence EXCEPT ![p] = None]
      /\ import' = [import EXCEPT ![t].state = "active"]
      /\ slot' = [slot EXCEPT ![p].res = "active"]
      /\ era' = era + 1
      /\ UNCHANGED <<home, head, delayed, hold, job, accepted, purged, route, wire, file, faults, carried, custody>>
  BY <1>p DEF Activated, plcVars
<1>2. p \in Providers /\ s \in Providers /\ s # p  BY <1>1, <1>p, ImportRoute DEF Staged
<1>c. Current(s) /\ Holds(s, t, "exported") /\ import[t].snap = data[s]  BY <1>1, <1>p, StagedIsCurrent
<1>u. \A q \in Providers : Current(q) => q = s  BY <1>2, <1>c DEF UniqueInv
<1>o1. \A u \in Transfers : Staged(u) => u = t  BY <1>1, OneStaged
<1>t. /\ import \in [Transfers -> Imports] /\ import[t] \in Imports
      /\ slot \in [Providers -> Slots \cup {None}] /\ slot[p] \in Slots /\ slot[p] # None /\ slot[p].t = t
      /\ fence \in [Providers -> Fences \cup {None}] /\ data \in [Providers -> SUBSET Mail]
      /\ period \in [Providers -> Nat] /\ era \in Nat
  BY <1>1, <1>2 DEF TypeInv, Occupies
<1>i. /\ import' \in [Transfers -> Imports]
      /\ import'[t].state = "active" /\ import'[t].cancelled = import[t].cancelled
      /\ import'[t].prev = import[t].prev
      /\ \A u \in Transfers \ {t} : import'[u] = import[u]
  <2>1. PICK r : r = [import[t] EXCEPT !.state = "active"]  OBVIOUS
  <2>2. r.state = "active" /\ r.prev = import[t].prev  BY <1>t, <2>1 DEF Imports
  <2>3. r.cancelled = import[t].cancelled  BY <1>t, <2>1 DEF Imports
  <2>4. r \in Imports  BY <1>t, <2>1 DEF Imports
  <2>5. import' = [import EXCEPT ![t] = r]  BY <1>1, <1>t, <2>1
  <2>6. import'[t] = r /\ import' \in [Transfers -> Imports] /\ \A u \in Transfers \ {t} : import'[u] = import[u]
    BY <1>t, <2>4, <2>5
  <2> QED  BY <2>2, <2>3, <2>6
<1>l. /\ slot' \in [Providers -> Slots \cup {None}]
      /\ slot'[p].t = t
      /\ \A q \in Providers \ {p} : slot'[q] = slot[q]
  <2>1. PICK r : r = [slot[p] EXCEPT !.res = "active"]  OBVIOUS
  <2>2. r \in Slots /\ r.t = t  BY <1>t, <2>1 DEF Slots
  <2>3. slot' = [slot EXCEPT ![p] = r]  BY <1>1, <1>t, <2>1
  <2> QED  BY <1>2, <1>t, <2>2, <2>3
<1>f. /\ fence' \in [Providers -> Fences \cup {None}]
      /\ fence'[p] = None /\ \A q \in Providers \ {p} : fence'[q] = fence[q]
  BY <1>1, <1>2, <1>t
<1>d. /\ data' \in [Providers -> SUBSET Mail]
      /\ data'[p] = data[s] /\ \A q \in Providers \ {p} : data'[q] = data[q]
  BY <1>1, <1>2, <1>c, <1>t
<1>g. OverGrows
  <2>1. Over(t)'  BY <1>i DEF Over
  <2>2. \A u \in Transfers \ {t} : Over(u) => Over(u)'
    <3> SUFFICES ASSUME NEW u \in Transfers \ {t}, Over(u)
                 PROVE  Over(u)'
      OBVIOUS
    <3>1. To(u)' = To(u) /\ file'[u] = file[u] /\ import'[u] = import[u]  BY <1>1, <1>i DEF To
    <3>2. CASE import[u].state = "active"  BY <3>1, <3>2 DEF Over
    <3>3. CASE import[u].state = "none" /\ ~Prospective(u)
      <4>1. file[u].stage = "cutover" /\ To(u) \in Providers  BY <3>3 DEF Prospective, FileInv
      <4>2. CASE To(u) = p  BY <1>l, <3>1, <3>3, <4>1, <4>2 DEF Over, Prospective, Occupies
      <4>3. CASE To(u) # p
        <5>1. slot'[To(u)] = slot[To(u)]  BY <1>l, <4>1, <4>3
        <5> QED  BY <3>1, <3>3, <4>1, <5>1 DEF Over, Prospective, Occupies
      <4> QED  BY <4>2, <4>3
    <3> QED  BY <3>2, <3>3 DEF Over
  <2> QED  BY <2>1, <2>2 DEF OverGrows
\* The account is current at the destination, and nowhere else any more.
<1>k. \A q \in Providers : Current(q)' => q = p
  <2> SUFFICES ASSUME NEW q \in Providers, Current(q)', q # p
               PROVE  FALSE
    OBVIOUS
  <2>1. fence'[q] = fence[q] /\ period'[q] = period[q]  BY <1>1, <1>f
  <2>2. PICK x : x = fence[q].t  OBVIOUS
  <2>3. Fenced(q) => x \in Transfers  BY <1>t, <2>2 DEF Fenced, Fences
  <2>4. Fenced(q) => fence[q].state # "retired"  BY <2>1 DEF Current, Fenced
  <2>5. Fenced(q) => ~Over(x)'
    <3>1. SUFFICES ASSUME Fenced(q)  PROVE  ~Over(x)'  OBVIOUS
    <3>2. fence'[q] # None /\ fence'[q].t = x  BY <2>1, <2>2, <3>1 DEF Fenced
    <3> QED  BY <3>2 DEF Current, Fenced, Over, Prospective, Occupies, To
  <2>6. Current(q)
    <3>1. period[q] > 0  BY <2>1 DEF Current
    <3>2. Fenced(q) => ~Over(x)  BY <1>g, <2>3, <2>5 DEF OverGrows
    <3> QED  BY <2>2, <2>4, <3>1, <3>2 DEF Current
  <2>7. q = s /\ Fenced(q) /\ x = t  BY <1>c, <1>u, <2>2, <2>6 DEF Holds, Fenced
  <2>8. Over(t)'  BY <1>i DEF Over
  <2> QED  BY <2>5, <2>7, <2>8
<1>w. WireKept  BY <1>1, StillWire
<1>x. \A u \in Transfers : Consented(u)' = Consented(u) /\ From(u)' = From(u) /\ To(u)' = To(u)
  BY <1>1, <1>w DEF WireKept, From, To
<1>3. TypeInv'  BY <1>1, <1>t, <1>i, <1>l, <1>f, <1>d DEF TypeInv
<1>4. UniqueInv'  BY <1>k DEF UniqueInv
<1>5. FileInv'
  <2>1. \A u \in Transfers : import'[u].state # "none" => import[u].state # "none"  BY <1>1, <1>i DEF Staged
  <2>2. \A u \in Transfers : Asked(u)' => file[u].stage # "none"  BY <1>w DEF WireKept, FileInv
  <2>3. \A u \in Transfers : /\ import'[u].state # "none" \/ Consented(u)' # {} => file'[u].stage = "cutover"
                             /\ Asked(u)' => file'[u].stage # "none"
                             /\ file'[u].stage # "none" =>
                                  From(u)' \in Providers /\ To(u)' \in Providers /\ From(u)' # To(u)'
    BY <1>1, <1>x, <2>1, <2>2 DEF FileInv
  <2>4. \A q \in Providers : slot'[q] # None => slot[q] # None /\ slot'[q].t = slot[q].t  BY <1>t, <1>l
  <2>5. \A q \in Providers : slot'[q] # None => file'[slot'[q].t].stage # "none" /\ route'[slot'[q].t].to = q
    BY <1>1, <2>4 DEF FileInv, To
  <2>6. \A q \in Providers : fence'[q] # None => period'[q] > 0
    BY <1>1, <1>f DEF FileInv, Fenced
  <2> QED  BY <2>3, <2>5, <2>6 DEF FileInv, Fenced, To
<1>6. CarryInv'
  <2>1. \A u \in Transfers : ~Staged(u)'  BY <1>i, <1>o1 DEF Staged
  <2>2. \A u \in Transfers : import'[u].state = "none" => import'[u] = import[u]  BY <1>i
  <2>3. \A u \in Transfers : \A w \in Consented(u) :
          import[u].state = "none" /\ ~Over(u) => fence'[From(u)] = fence[From(u)]
    <3>1. \A u \in Transfers : Consented(u) # {} => From(u) \in Providers  BY DEF FileInv
    <3>2. \A u \in Transfers : ~Holds(p, u, "exported")
      <4>1. Fenced(p) => fence[p].state = "retired"
        <5>1. Fenced(p) => period[p] > 0  BY <1>2 DEF FileInv
        <5>2. period[p] \in Nat  BY <1>2, <1>t
        <5> QED  BY <1>1, <5>1, <5>2 DEF KeepsHistory, Retired
      <4> QED  BY <4>1 DEF Holds, Fenced
    <3> QED  BY <1>f, <3>1, <3>2 DEF CarryInv
  <2> QED  BY <1>g, <1>x, <2>1, <2>2, <2>3 DEF CarryInv, OverGrows, Holds
<1>7. PrevInv'
  <2>1. \A prev : Follows(prev) => Follows(prev)'  BY <1>g, FollowsStays
  <2>2. \A u \in Transfers : import'[u].state # "none" => import[u].state # "none" /\ import'[u].prev = import[u].prev
    BY <1>1, <1>i DEF Staged
  <2> QED  BY <1>x, <2>1, <2>2 DEF PrevInv
<1>8. PlcInv'
  <2>1. \A u \in Transfers : ~Staged(u)'  BY <1>i, <1>o1 DEF Staged
  <2>2. import[t].prev # head  BY <1>1 DEF PlcInv
  <2>3. \A u \in Transfers : Cutover(u)' = Cutover(u)  BY DEF Cutover
  <2> QED  BY <1>1, <1>i, <1>x, <2>1, <2>2, <2>3 DEF PlcInv
<1>9. PeerInv'
  <2>1. Over(t)'  BY <1>i DEF Over
  <2>2. \A u \in Transfers \ {t} : ~Staged(u)  BY <1>o1
  <2> QED  BY <1>1, <1>i, <1>g, <2>1, <2>2 DEF PeerInv, OverGrows
<1>10. CancellationIsFinal'
  <2>1. \A u \in Transfers : import'[u].cancelled <=> import[u].cancelled  BY <1>i
  <2> QED  BY <1>1, <2>1 DEF CancellationIsFinal, Overtaken, Cutover
<1>11. DataInv'
  <2>1. data[s] = accepted \ purged  BY <1>2, <1>c DEF DataInv
  <2> QED  BY <1>1, <1>d, <1>f, <1>k, <2>1 DEF DataInv, Fenced
<1>12. JobInv'
  <2>1. \A q \in Providers : period[q] \in Nat /\ period'[q] \in Nat  BY <1>1, <1>t
  <2>2. \A q \in Providers : job[q] # None => job[q] \in Jobs /\ job[q].period \in Nat  BY DEF TypeInv, Jobs
  <2>3. \A q \in Providers : job[q] # None => job[q].period <= period'[q] /\ (q = p => job[q].period < period'[q])
    BY <1>1, <1>2, <2>1, <2>2 DEF JobInv
  <2>4. \A q \in Providers : job[q] # None /\ q = p => job[q].period # period'[q]  BY <2>1, <2>2, <2>3
  <2> QED  BY <1>1, <1>k, <2>3, <2>4 DEF JobInv
<1>13. CarriedInv'  BY <1>1, <1>f DEF CarriedInv, Fenced
<1> QED  BY <1>3, <1>4, <1>5, <1>6, <1>7, <1>8, <1>9, <1>10, <1>11, <1>12, <1>13

-----------------------------------------------------------------------------
(* The theorems.                                                           *)

LEMMA InitHolds ==
    ASSUME MoveInit
    PROVE  Inv
<1>1. Init /\ carried = [t \in Transfers |-> None]  BY DEF MoveInit, ManagedInit
<1>2. TypeInv
  <2>1. NoImport \in Imports  BY DEF NoImport, Imports
  <2>2. [stage |-> "none", cancel |-> FALSE] \in Files  BY DEF Files
  <2>3. head # None  BY <1>1, NoneAssumption DEF Init
  <2> QED  BY <1>1, <2>1, <2>2, <2>3 DEF Init, TypeInv
<1>3. \A t \in Transfers : /\ import[t] = NoImport /\ file[t].stage = "none" /\ hold[t] = "none"
                           /\ Consented(t) = {} /\ ~Asked(t)
  BY <1>1 DEF Init, Consented, Asked, Sent
<1>4. NoImport.state = "none" /\ NoImport.prev = None /\ NoImport.cancelled = FALSE  BY DEF NoImport
<1>5. \A p \in Providers : ~Fenced(p) /\ slot[p] = None /\ job[p] = None /\ data[p] = {} /\ (period[p] > 0 => p = First)
  BY <1>1 DEF Init, Fenced
<1>6. UniqueInv  BY <1>5 DEF UniqueInv, Current
<1>7. FileInv  BY <1>3, <1>4, <1>5 DEF FileInv
<1>8. CarryInv /\ PrevInv  BY <1>3, <1>4 DEF CarryInv, PrevInv, Staged
<1>9. PlcInv
  <2>1. head = <<"genesis", 0>>  BY <1>1 DEF Init
  <2>2. \A t \in Transfers : head # Cutover(t)  BY <2>1 DEF Cutover
  <2> QED  BY <1>3, <1>4, <2>2 DEF PlcInv, Staged
<1>10. PeerInv /\ CancellationIsFinal  BY <1>3, <1>4 DEF PeerInv, CancellationIsFinal
<1>11. DataInv /\ JobInv /\ CarriedInv  BY <1>1, <1>5 DEF Init, DataInv, JobInv, CarriedInv
<1> QED  BY <1>2, <1>6, <1>7, <1>8, <1>9, <1>10, <1>11 DEF Inv

LEMMA StepKeeps ==
    ASSUME Inv, Step
    PROVE  Inv' /\ (Steady \/ \E t \in Transfers : Activated(t))
<1>1. CASE Quiet \/ Filed \/ Slotted \/ (OwnOperation /\ Kept)
  BY <1>1, QuietKeeps, FiledKeeps, SlottedKeeps, OwnKeeps
<1>2. ASSUME NEW t \in Transfers, Granted(t) \/ Reserved(t) \/ Stages(t) \/ Observed(t) \/ Held(t)
      PROVE  Inv' /\ Steady
  BY <1>2, GrantedKeeps, ReservedKeeps, StagesKeeps, ObservedKeeps, HeldKeeps
<1>3. ASSUME NEW t \in Transfers, Moved(t) \/ Delayed(t)
      PROVE  Inv' /\ Steady
  BY <1>3, MovedKeeps, DelayedKeeps
<1>4. ASSUME NEW t \in Transfers, Kept,
             SignCutover(t) \/ BeginFence(t) \/ Retire(t) \/ MarkCancelled(t) \/ Invalidate(t) \/ SourceRelease(t)
      PROVE  Inv' /\ Steady
  BY <1>4, SignedKeeps, FencedKeeps, RetiredKeeps, MarkedKeeps, InvalidatedKeeps, ReleasedKeeps
<1>5. ASSUME NEW p \in Providers, Exported(p) \/ (Kept /\ (AdmitJob(p) \/ RunJob(p) \/ Purge(p)))
      PROVE  Inv' /\ Steady
  BY <1>5, ExportedKeeps, ServeKeeps
<1>6. ASSUME NEW t \in Transfers, Activated(t)
      PROVE  Inv'
  BY <1>6, ActivatedKeeps
<1>7. CASE \E t \in Transfers : Activated(t)  BY <1>6, <1>7
<1>8. CASE ~\E t \in Transfers : Activated(t)  BY <1>1, <1>2, <1>3, <1>4, <1>5, <1>8 DEF Step
<1> QED  BY <1>7, <1>8

LEMMA NextKeeps ==
    ASSUME Inv, [MoveNext]_moveVars
    PROVE  Inv'
<1>1. CASE MoveNext
  <2>1. Step  BY <1>1, PortableSteps, ManagedSteps DEF MoveNext
  <2> QED  BY <2>1, StepKeeps
<1>2. CASE UNCHANGED moveVars
  <2>1. UNCHANGED <<plcVars, servingVars, fence, slot, import, hold, file, route, carried, custody, wire, faults>>
    BY <1>2 DEF moveVars, allVars, vars, managedVars, sourceVars, targetVars, peerVars
  <2>2. WireKept  BY <2>1, StillWire
  <2>3. Quiet  BY <2>1, <2>2 DEF Quiet, Inv, TypeInv
  <2> QED  BY <2>3, QuietKeeps
<1> QED  BY <1>1, <1>2

\* The inductive invariant: where the account is current, which transfers are over, and
\* what the file, the wire, the slots, the imports, the PLC, the peers, the data and the
\* work under way have to do with it (src/migration, apps/cli transfers.rs and cutover.rs).
THEOREM Invariance == MoveSpec => []Inv
<1>1. MoveInit => Inv  BY InitHolds
<1>2. Inv /\ [MoveNext]_moveVars => Inv'  BY NextKeeps
<1>3. MoveSafety => []Inv  BY <1>1, <1>2, PTL DEF MoveSafety
<1>4. MoveSpec => MoveSafety  BY PTL DEF MoveSpec
<1> QED  BY <1>3, <1>4, PTL

\* No two providers let writes to the account through, whatever the order of fences,
\* cutovers, activations, aborts and returns (fence.ts, activation.ts, return.ts).
THEOREM OneServer == MoveSpec => []SingleServer
<1>1. Inv => SingleServer  BY DEF Inv, UniqueInv, SingleServer, Current, Writable
<1> QED  BY <1>1, Invariance, PTL

\* Whoever serves the account has exactly what it took in and its owner did not delete
\* (transfer.ts, fence.ts, activation.ts, return.ts).
THEOREM NothingIsLost == MoveSpec => []NothingLost
<1>1. Inv => NothingLost  BY DEF Inv, DataInv, NothingLost, Current, Writable
<1> QED  BY <1>1, Invariance, PTL

\* The PLC never names the destination of a cancelled import, and its peers stay with the
\* source, unless a PLC write was under way (connection-orchestration.ts, cutover.rs).
THEOREM CancellationHolds == MoveSpec => []CancellationIsFinal
<1>1. Inv => CancellationIsFinal  BY DEF Inv
<1> QED  BY <1>1, Invariance, PTL

\* Work admitted in an earlier stay of the account writes nothing in a later one
\* (0037_generation_admission.sql).
THEOREM StaleWork == MoveSpec => StaleJobNeverWrites
<1> DEFINE Fresh == \A p \in Providers : accepted' # accepted /\ data'[p] # data[p] /\ job[p] # None => job[p].era = era
<1>1. ASSUME Inv, [MoveNext]_moveVars
      PROVE  [Fresh]_vars
  <2>1. CASE UNCHANGED moveVars  BY <2>1 DEF moveVars, allVars
  <2>2. CASE MoveNext
    <3>1. Step  BY <1>1, <2>2, PortableSteps, ManagedSteps DEF MoveNext
    <3>2. CASE accepted' = accepted  BY <3>2
    <3>3. CASE accepted' # accepted
      <4>1. PICK p \in Providers : RunJob(p)
        BY ZenonT(60), <3>1, <3>3 DEF Step, Quiet, Filed, Slotted, OwnOperation, Granted, Reserved, Stages, Observed, Held, Moved,
           Delayed, Activated, SignCutover, BeginFence, Retire, MarkCancelled, Invalidate, SourceRelease, Exported,
           AdmitJob, Purge, servingVars
      <4>2. Permits(p) /\ \A q \in Providers \ {p} : data'[q] = data[q]
        BY <1>1, <3>3, <4>1 DEF RunJob, Inv, TypeInv
      <4>3. job[p] # None /\ job[p].period = period[p] /\ Current(p)
        BY <4>1, <4>2 DEF RunJob, Permits, Writable, Current
      <4>4. job[p].era = era  BY <1>1, <4>3 DEF Inv, JobInv
      <4> QED  BY SMTT(40), <4>2, <4>4
    <3> QED  BY <3>2, <3>3
  <2> QED  BY <1>1, <2>1, <2>2
<1>2. MoveSpec => [][MoveNext]_moveVars  BY PTL DEF MoveSpec, MoveSafety
<1> QED  BY <1>1, <1>2, Invariance, PTL DEF StaleJobNeverWrites

-----------------------------------------------------------------------------
(* The grant that changes signer with the account.                         *)

GrantRows == [rev : Nat, acked : Nat, status : {"active", "revoked"}, blocked : BOOLEAN]

GrantTypes ==
    /\ grant \in [Providers -> GrantRows] /\ lease \in [Providers -> Nat]
    /\ held \in Nat /\ signed \subseteq Nat \X Providers
    /\ custody \in {"portable", "managed"}

\* A provider is fenced for a transfer of its own.
RouteInv == \A p \in Providers : Fenced(p) => file[fence[p].t].stage # "none" /\ From(fence[p].t) = p

\* What the provider has not had acknowledged is signed by it and follows what is held.
Fits(p) ==
    /\ ~grant[p].blocked
    /\ grant[p].acked <= held /\ held <= grant[p].acked + 1
    /\ \A n \in (grant[p].acked + 1)..grant[p].rev : <<n, p>> \in signed

\* A worker's lease is for the next revision, where the account is served.
LeaseInv ==
    \A p \in Providers : lease[p] # 0 => Writable(p) /\ lease[p] = grant[p].acked + 1 /\ lease[p] <= grant[p].rev

\* Where the account is current, no signature and nothing held is ahead of the grant; a PLC
\* that names another provider is stuck; an active grant fits unless the PLC has left, and
\* is acknowledged under the fence.
RevisionInv ==
    \A p \in Providers : Current(p) =>
        /\ \A x \in signed : x[1] <= grant[p].rev
        /\ held <= grant[p].rev /\ grant[p].acked <= grant[p].rev

HomeInv == \A p \in Providers : Current(p) /\ home # p => Stuck

FitInv ==
    \A p \in Providers : Current(p) /\ grant[p].status = "active" =>
        /\ home = p \/ Fenced(p) => Fits(p)
        /\ Fenced(p) => grant[p].acked = grant[p].rev

\* An export has the grant as it stands.
SameInv ==
    \A p \in Providers : Fenced(p) /\ fence[p].state = "exported" => carried[fence[p].t].grant = grant[p]

\* In portable custody nothing happens to it.
StillGrant ==
    /\ grant = [p \in Providers |-> IF p = First THEN [NoGrant EXCEPT !.rev = 1] ELSE NoGrant]
    /\ signed = {<<1, First>>} /\ held = 0

GrantInv ==
    /\ GrantTypes /\ RouteInv /\ OneSignerPerRevision
    /\ custody = "managed" => LeaseInv /\ RevisionInv /\ HomeInv /\ FitInv /\ SameInv
    /\ custody = "portable" => StillGrant

LEMMA RouteKeeps ==
    ASSUME Inv, RouteInv, Step
    PROVE  RouteInv'
<1> USE DEF Inv
<1>0. /\ file \in [Transfers -> Files] /\ route \in [Transfers -> Routes \cup {None}]
      /\ fence \in [Providers -> Fences \cup {None}]
  BY DEF TypeInv
<1>t. \A p \in Providers : Fenced(p) => fence[p].t \in Transfers  BY <1>0 DEF Fenced, Fences
<1>1. \A t \in Transfers : file[t].stage # "none" => file'[t].stage # "none" /\ From(t)' = From(t)
  <2>1. CASE UNCHANGED <<file, route>>  BY <2>1 DEF From
  <2>2. CASE Filed  BY <2>2 DEF Filed, From
  <2>3. ASSUME NEW x \in Transfers, Granted(x)
        PROVE  \A t \in Transfers : file[t].stage # "none" => file'[t].stage # "none" /\ From(t)' = From(t)
    <3>1. /\ file[x].stage = "none" /\ \E r : route' = [route EXCEPT ![x] = r]
          /\ file' = [file EXCEPT ![x].stage = "grant"]
      BY <2>3 DEF Granted
    <3> QED  BY <1>0, <3>1 DEF From
  <2>4. ASSUME NEW x \in Transfers, SignCutover(x)
        PROVE  \A t \in Transfers : file[t].stage # "none" => file'[t].stage # "none" /\ From(t)' = From(t)
    <3>1. route' = route /\ file' = [file EXCEPT ![x].stage = "cutover"]  BY <2>4 DEF SignCutover, Saves
    <3>2. [file[x] EXCEPT !.stage = "cutover"].stage = "cutover"  BY <1>0 DEF Files
    <3>3. \A t \in Transfers : file[t].stage # "none" => file'[t].stage # "none"  BY <1>0, <3>1, <3>2
    <3> QED  BY <3>1, <3>3 DEF From
  <2> QED
    BY ZenonT(60), <2>1, <2>2, <2>3, <2>4 DEF Step, Quiet, Slotted, OwnOperation, Reserved, Stages, Observed, Held, Moved, Delayed,
       Activated, BeginFence, Retire, MarkCancelled, Invalidate, SourceRelease, Exported, AdmitJob, RunJob, Purge
<1>2. ASSUME NEW p \in Providers, Fenced(p)'
      PROVE  \/ Fenced(p) /\ fence'[p].t = fence[p].t
             \/ \E t \in Transfers : fence'[p].t = t /\ file[t].stage # "none" /\ From(t) = p
  <2>1. CASE UNCHANGED fence  BY <1>2, <2>1 DEF Fenced
  <2>2. ASSUME NEW t \in Transfers, BeginFence(t)
        PROVE  \/ Fenced(p) /\ fence'[p].t = fence[p].t
               \/ fence'[p].t = t /\ file[t].stage # "none" /\ From(t) = p
    <3>1. /\ file[t].stage # "none"
          /\ fence' = [fence EXCEPT ![From(t)] = [t |-> t, state |-> "fenced", snap |-> {}]]
      BY <2>2 DEF BeginFence, FileInv, Asked
    <3>2. CASE From(t) = p  BY <1>0, <3>1, <3>2
    <3>3. CASE From(t) # p
      <4>1. fence'[p] = fence[p]  BY <1>0, <3>1, <3>3
      <4> QED  BY <1>2, <4>1 DEF Fenced
    <3> QED  BY <3>2, <3>3
  <2>3. ASSUME NEW q, NEW r, fence' = [fence EXCEPT ![q] = r], r # None => Fenced(q) /\ r.t = fence[q].t
        PROVE  Fenced(p) /\ fence'[p].t = fence[p].t
    <3>1. CASE q = p  BY <1>0, <1>2, <2>3, <3>1 DEF Fenced
    <3>2. CASE q # p
      <4>1. fence'[p] = fence[p]  BY <1>0, <2>3, <3>2
      <4> QED  BY <1>2, <4>1 DEF Fenced
    <3> QED  BY <3>1, <3>2
  <2>4. ASSUME NEW q \in Providers, Exported(q)
        PROVE  Fenced(p) /\ fence'[p].t = fence[p].t
    <3>1. Fenced(q) /\ fence' = [fence EXCEPT ![q].state = "exported", ![q].snap = data[q]]  BY <2>4 DEF Exported
    <3>2. PICK r : r = [fence[q] EXCEPT !.state = "exported", !.snap = data[q]]  OBVIOUS
    <3>3. fence[q] \in Fences  BY <1>0, <3>1 DEF Fenced
    <3>4. r.t = fence[q].t /\ fence' = [fence EXCEPT ![q] = r]  BY <1>0, <3>1, <3>2, <3>3 DEF Fences
    <3> QED  BY <2>3, <3>1, <3>4
  <2>5. ASSUME NEW t \in Transfers, Retire(t)
        PROVE  Fenced(p) /\ fence'[p].t = fence[p].t
    <3>1. PICK q : q = From(t)  OBVIOUS
    <3>2. Fenced(q) /\ fence' = [fence EXCEPT ![q].state = "retired"] /\ import[t].state = "active"
      BY <2>5, <3>1 DEF Retire, Holds, Fenced, Receipt
    <3>3. q \in Providers  BY <3>1, <3>2, ImportRoute
    <3>4. PICK r : r = [fence[q] EXCEPT !.state = "retired"]  OBVIOUS
    <3>5. fence[q] \in Fences  BY <1>0, <3>2, <3>3 DEF Fenced
    <3>6. r.t = fence[q].t /\ fence' = [fence EXCEPT ![q] = r]  BY <1>0, <3>2, <3>4, <3>5 DEF Fences
    <3> QED  BY <2>3, <3>2, <3>6
  <2>6. ASSUME NEW t \in Transfers, SourceRelease(t) \/ Activated(t)
        PROVE  Fenced(p) /\ fence'[p].t = fence[p].t
    <3>1. \E q : fence' = [fence EXCEPT ![q] = None]  BY <2>6 DEF SourceRelease, Activated
    <3> QED  BY <2>3, <3>1
  <2> QED
    BY <2>1, <2>2, <2>4, <2>5, <2>6 DEF Step, Quiet, Filed, Slotted, OwnOperation, Granted, Reserved, Stages, Observed, Held,
       Moved, Delayed, SignCutover, MarkCancelled, Invalidate, AdmitJob, RunJob, Purge, sourceVars
<1> SUFFICES ASSUME NEW p \in Providers, Fenced(p)'
             PROVE  file'[fence'[p].t].stage # "none" /\ route'[fence'[p].t].from = p
  BY DEF RouteInv, From
<1>3. \E t \in Transfers : fence'[p].t = t /\ file[t].stage # "none" /\ From(t) = p
  BY <1>2, <1>t DEF RouteInv
<1>4. PICK t \in Transfers : fence'[p].t = t /\ file[t].stage # "none" /\ From(t) = p  BY <1>3
<1> QED  BY <1>1, <1>4 DEF From

\* A step that has nothing to do with the grant leaves every fence as it is, retires or
\* removes it.
Aside ==
    /\ UNCHANGED <<grantVars, carried, custody, period, era>>
    /\ \A p \in Providers : Fenced(p)' => /\ Fenced(p) /\ fence'[p].t = fence[p].t
                                          /\ fence'[p].state = "exported" => fence[p].state = "exported"

LEMMA AsideSteps ==
    ASSUME Inv, NEW t \in Transfers, UNCHANGED <<managedVars, custody>>, Retire(t) \/ SourceRelease(t)
    PROVE  Aside
<1>p. PICK q : q = From(t)  OBVIOUS
<1>0. fence \in [Providers -> Fences \cup {None}]  BY DEF Inv, TypeInv
<1>1. UNCHANGED <<grantVars, carried, custody, period, era>>
  BY DEF Retire, SourceRelease, managedVars, servingVars
<1>2. q \in Providers /\ fence[q] # None /\ fence[q] \in Fences
  <2>1. q \in Providers  BY <1>p, ImportRoute DEF Inv, Retire, SourceRelease, Receipt
  <2>2. fence[q] # None  BY <1>p DEF Retire, SourceRelease, Holds
  <2> QED  BY <1>0, <2>1, <2>2
<1>3. CASE Retire(t)
  <2>1. fence' = [fence EXCEPT ![q].state = "retired"]  BY <1>3, <1>p DEF Retire
  <2>2. PICK r : r = [fence[q] EXCEPT !.state = "retired"]  OBVIOUS
  <2>3. r.t = fence[q].t /\ r.state = "retired" /\ fence' = [fence EXCEPT ![q] = r]
    BY <1>0, <1>2, <2>1, <2>2 DEF Fences
  <2> QED  BY <1>0, <1>1, <1>2, <2>3 DEF Aside, Fenced
<1>4. CASE SourceRelease(t)
  <2>1. fence' = [fence EXCEPT ![q] = None]  BY <1>4, <1>p DEF SourceRelease
  <2> QED  BY <1>0, <1>1, <1>2, <2>1 DEF Aside, Fenced
<1> QED  BY <1>3, <1>4

LEMMA StillFence ==
    ASSUME UNCHANGED <<managedVars, custody, servingVars, fence>>
    PROVE  Aside
  BY DEF Aside, managedVars, servingVars, Fenced

LEMMA ManagedForms ==
    ASSUME Inv, Managed
    PROVE  \/ Aside
           \/ \E p \in Providers : \E status \in {"active", "revoked"} : Revise(p, status)
           \/ \E p \in Providers : ClaimRevision(p) \/ PublishRevision(p) \/ ExportManaged(p)
           \/ \E t \in Transfers : BeginManagedFence(t) \/ ActivateManaged(t)
<1>0. ManagedNext /\ UNCHANGED custody  BY DEF Managed
<1>u. ASSUME NEW t \in Transfers, Undo(t), UNCHANGED managedVars  PROVE  Aside
  <2>1. CASE SourceRelease(t)  BY <1>0, <1>u, <2>1, AsideSteps
  <2>2. CASE ~SourceRelease(t)
    <3>1. UNCHANGED <<servingVars, fence>>
      BY <1>u, <2>2 DEF Undo, PeerReleases, AcceptAbort, Invalidate, FreeSlots, sourceVars
    <3> QED  BY <1>0, <1>u, <3>1, StillFence
  <2> QED  BY <2>1, <2>2
<1>1. CASE Shared
  <2>0. UNCHANGED managedVars  BY <1>1 DEF Shared
  <2>1. CASE \E t \in Transfers : Undo(t)  BY <1>u, <2>0, <2>1
  <2>2. CASE ~\E t \in Transfers : Undo(t)
    <3>1. UNCHANGED <<servingVars, fence>>
      BY <1>1, <2>2 DEF Shared, SignGrant, TakeOffer, SignSelection, TakeReservation, CleanTarget, CleanSource, GrantExpires,
         SendFreeze, FreezeUnseen, AcceptFreeze, MarkCancelled, PlcApplies, CleanTombs, sourceVars
    <3> QED  BY <1>0, <2>0, <3>1, StillFence
  <2> QED  BY <2>1, <2>2
<1>2. ASSUME NEW p \in Providers, NEW t \in Transfers, Authorize(p, t)  PROVE  Aside
  <2>1. UNCHANGED <<servingVars, fence, managedVars>>  BY <1>2 DEF Authorize, Issue
  <2> QED  BY <1>0, <2>1, StillFence
<1>3. ASSUME NEW p \in Providers, Deliver(p) \/ ReserveManagedAddress(p) \/ PublishFence(p)  PROVE  Aside
  <2>1. UNCHANGED <<servingVars, fence, managedVars>>
    BY <1>3 DEF Deliver, ReserveManagedAddress, PublishFence, ConfirmOrigin, ReserveAddress, PublishFinal, sourceVars
  <2> QED  BY <1>0, <2>1, StillFence
<1>4. ASSUME NEW t \in Transfers, ReceiveManagedInvitation(t) \/ Approve(t) \/ StageManaged(t) \/ SubmitManaged(t)
      PROVE  Aside
  <2>1. UNCHANGED <<servingVars, fence, managedVars>>
    BY <1>4 DEF ReceiveManagedInvitation, Approve, StageManaged, SubmitManaged, ReceiveInvitation, SignCutover, Submit, sourceVars
  <2> QED  BY <1>0, <2>1, StillFence
<1>5. ASSUME NEW t \in Transfers, ApprovalLapses(t)  PROVE  Aside
  BY <1>0, <1>5 DEF ApprovalLapses, Aside, Fenced, sourceVars, servingVars
<1>6. ASSUME NEW t \in Transfers, Complete(t), ~ActivateManaged(t)  PROVE  Aside
  <2>0. UNCHANGED managedVars  BY <1>6 DEF Complete
  <2>1. CASE Retire(t)  BY <1>0, <2>0, <2>1, AsideSteps
  <2>2. CASE ~Retire(t)
    <3>1. UNCHANGED <<servingVars, fence>>
      BY <1>6, <2>2 DEF Complete, PeerMoves, AcceptTransition, Assess, sourceVars
    <3> QED  BY <1>0, <2>0, <3>1, StillFence
  <2> QED  BY <2>1, <2>2
<1> QED  BY <1>0, <1>1, <1>2, <1>3, <1>4, <1>5, <1>6 DEF ManagedNext

\* Such a step keeps what is known of the grant, and so does a new fence, which is drained
\* and acknowledged.
LEMMA AsideKeeps ==
    ASSUME Inv, GrantInv, custody = "managed", Steady, UNCHANGED <<grantVars, carried, custody, period>>,
           \A p \in Providers : Fenced(p)' =>
              \/ /\ Fenced(p) /\ fence'[p].t = fence[p].t
                 /\ fence'[p].state = "exported" => fence[p].state = "exported"
              \/ /\ home = p /\ lease[p] = 0 /\ fence'[p].state = "fenced"
                 /\ grant[p].status = "active" => grant[p].acked = grant[p].rev
    PROVE  LeaseInv' /\ RevisionInv' /\ HomeInv' /\ FitInv' /\ SameInv'
<1>0. LeaseInv /\ RevisionInv /\ HomeInv /\ FitInv /\ SameInv  BY DEF GrantInv
<1>1. UNCHANGED <<grant, signed, held, lease, carried, custody, period>>  BY DEF grantVars
<1>2. \A p \in Providers : Current(p)' => Current(p)  BY DEF Steady, CurrentShrinks
<1>3. LeaseInv'  BY <1>0, <1>1 DEF LeaseInv, Writable, Fenced
<1>4. RevisionInv'  BY <1>0, <1>1, <1>2 DEF RevisionInv
<1>5. HomeInv'  BY <1>0, <1>2 DEF HomeInv, Steady
<1>6. FitInv'
  <2>1. \A p \in Providers : Fits(p)' <=> Fits(p)  BY <1>1 DEF Fits
  <2>2. \A p \in Providers : Current(p) /\ home' = p => home = p  BY <1>0 DEF HomeInv, Steady
  <2>3. \A p \in Providers : Fenced(p)' => Fenced(p) \/ home = p  OBVIOUS
  <2>4. \A p \in Providers : Fenced(p)' /\ ~Fenced(p) /\ grant[p].status = "active" => grant[p].acked = grant[p].rev
    OBVIOUS
  <2> QED  BY <1>0, <1>1, <1>2, <2>1, <2>2, <2>3, <2>4 DEF FitInv
<1>7. SameInv'  BY <1>0, <1>1 DEF SameInv, Fenced
<1> QED  BY <1>3, <1>4, <1>5, <1>6, <1>7

ManagedInv == LeaseInv /\ RevisionInv /\ HomeInv /\ FitInv /\ SameInv

\* A step on the grant alone.
LEMMA GrantQuiet ==
    ASSUME Inv, UNCHANGED <<vars, carried, custody>>
    PROVE  /\ \A p \in Providers : Current(p)' => Current(p)
           /\ \A p \in Providers : (Fenced(p)' <=> Fenced(p)) /\ (Writable(p)' <=> Writable(p))
           /\ Stuck' <=> Stuck
           /\ UNCHANGED <<home, fence, carried, custody>>
<1>1. UNCHANGED <<plcVars, servingVars, fence, slot, import, hold, file, route, carried, custody, wire, faults>>
  BY DEF vars, sourceVars, targetVars, peerVars
<1>2. WireKept  BY <1>1, StillWire
<1>3. Quiet  BY <1>1, <1>2 DEF Quiet, Inv, TypeInv
<1>4. CurrentShrinks  BY <1>3, QuietKeeps DEF Steady
<1> QED  BY <1>1, <1>4 DEF CurrentShrinks, Fenced, Writable, Stuck, Cutover, plcVars, servingVars

\* The one provider the account is current at.
LEMMA WritableIsCurrent ==
    ASSUME Inv, NEW p \in Providers, Writable(p)
    PROVE  Current(p) /\ ~Fenced(p) /\ \A q \in Providers : Current(q) => q = p
<1>1. Current(p) /\ ~Fenced(p)  BY DEF Current, Writable
<1> QED  BY <1>1 DEF Inv, UniqueInv

LEMMA ReviseKeeps ==
    ASSUME Inv, GrantInv, custody = "managed", UNCHANGED custody,
           NEW p \in Providers, NEW status \in {"active", "revoked"}, Revise(p, status)
    PROVE  GrantTypes' /\ OneSignerPerRevision' /\ ManagedInv'
<1>0. GrantTypes /\ OneSignerPerRevision /\ LeaseInv /\ RevisionInv /\ HomeInv /\ FitInv /\ SameInv  BY DEF GrantInv
<1>1. /\ Writable(p) /\ home = p /\ grant[p].status = "active"
      /\ grant' = [grant EXCEPT ![p].rev = @ + 1, ![p].status = status]
      /\ signed' = signed \cup {<<grant[p].rev + 1, p>>}
      /\ UNCHANGED <<vars, held, lease, carried, custody>>
  BY DEF Revise
<1>2. PICK r : r = [grant[p] EXCEPT !.rev = @ + 1, !.status = status]  OBVIOUS
<1>3. grant \in [Providers -> GrantRows] /\ grant[p] \in GrantRows  BY <1>0 DEF GrantTypes
<1>4. grant[p].rev \in Nat /\ grant[p].acked \in Nat  BY <1>3 DEF GrantRows
<1>5. r.rev = grant[p].rev + 1 /\ r.acked = grant[p].acked  BY <1>2, <1>3 DEF GrantRows
<1>6. r.blocked = grant[p].blocked  BY <1>2, <1>3 DEF GrantRows
<1>7. r.status = status  BY <1>2, <1>3 DEF GrantRows
<1>8. r \in GrantRows
  <2>1. r = [rev |-> grant[p].rev + 1, acked |-> grant[p].acked, status |-> status, blocked |-> grant[p].blocked]
    BY <1>2, <1>3 DEF GrantRows
  <2>2. grant[p].blocked \in BOOLEAN /\ grant[p].rev + 1 \in Nat  BY <1>3, <1>4 DEF GrantRows
  <2> QED  BY <1>4, <2>1, <2>2 DEF GrantRows
<1>9. grant' = [grant EXCEPT ![p] = r]  BY <1>1, <1>2, <1>3
<1>i. grant' \in [Providers -> GrantRows] /\ grant'[p] = r /\ \A q \in Providers \ {p} : grant'[q] = grant[q]
  BY <1>3, <1>8, <1>9
<1>q. /\ \A q \in Providers : Current(q)' => Current(q)
      /\ \A q \in Providers : (Fenced(q)' <=> Fenced(q)) /\ (Writable(q)' <=> Writable(q))
      /\ Stuck' <=> Stuck
      /\ UNCHANGED <<home, fence, carried, custody>>
  BY <1>1, GrantQuiet
<1>c. Current(p) /\ ~Fenced(p) /\ \A q \in Providers : Current(q) => q = p  BY <1>1, WritableIsCurrent
<1>s. \A x \in signed : x \in Nat \X Providers /\ x[1] \in Nat /\ x[1] <= grant[p].rev
  BY <1>0, <1>c DEF GrantTypes, RevisionInv
<1>10. GrantTypes'
  <2>1. <<grant[p].rev + 1, p>> \in Nat \X Providers  BY <1>4
  <2> QED  BY <1>0, <1>1, <1>i, <2>1 DEF GrantTypes
<1>11. OneSignerPerRevision'
  <2>1. \A x \in signed : x[1] # grant[p].rev + 1  BY <1>4, <1>s
  <2>2. PICK new : new = <<grant[p].rev + 1, p>>  OBVIOUS
  <2>3. new[1] = grant[p].rev + 1 /\ signed' = signed \cup {new}  BY <1>1, <2>2
  <2> QED  BY <1>0, <2>1, <2>3 DEF OneSignerPerRevision
<1>12. LeaseInv'
  <2>1. \A q \in Providers : lease[q] \in Nat  BY <1>0 DEF GrantTypes
  <2>2. lease[p] # 0 => lease[p] = grant[p].acked + 1 /\ lease[p] <= grant[p].rev + 1  BY <1>0, <1>4, <2>1 DEF LeaseInv
  <2> QED  BY <1>0, <1>1, <1>5, <1>i, <1>q, <2>2 DEF LeaseInv
<1>13. RevisionInv'
  <2>1. \A q \in Providers : Current(q)' => q = p  BY <1>c, <1>q
  <2>2. \A x \in signed' : x[1] <= grant[p].rev + 1
    <3>1. \A x \in signed : x[1] <= grant[p].rev + 1  BY <1>4, <1>s
    <3>2. grant[p].rev + 1 <= grant[p].rev + 1  BY <1>4
    <3> QED  BY <1>1, <3>1, <3>2
  <2>3. held \in Nat /\ held <= grant[p].rev /\ grant[p].acked <= grant[p].rev
    BY <1>0, <1>c DEF GrantTypes, RevisionInv
  <2>4. held <= grant[p].rev + 1 /\ grant[p].acked <= grant[p].rev + 1  BY <1>4, <2>3
  <2> QED  BY <1>1, <1>5, <1>i, <2>1, <2>2, <2>4 DEF RevisionInv
<1>14. HomeInv'  BY <1>0, <1>q DEF HomeInv
<1>15. FitInv'
  <2>1. Fits(p)  BY <1>0, <1>1, <1>c DEF FitInv
  <2>2. \A n \in (grant[p].acked + 1)..(grant[p].rev + 1) : <<n, p>> \in signed'
    <3>1. \A n \in (grant[p].acked + 1)..(grant[p].rev + 1) : n = grant[p].rev + 1 \/ n \in (grant[p].acked + 1)..grant[p].rev
      BY <1>4
    <3> QED  BY <1>1, <2>1, <3>1 DEF Fits
  <2>3. Fits(p)'  BY <1>1, <1>5, <1>6, <1>i, <2>1, <2>2 DEF Fits
  <2>4. \A q \in Providers : Current(q)' => q = p /\ ~Fenced(q)'  BY <1>c, <1>q
  <2> QED  BY <2>3, <2>4 DEF FitInv
<1>16. SameInv'
  <2>1. \A q \in Providers : Fenced(q) => grant'[q] = grant[q]  BY <1>c, <1>i
  <2> QED  BY <1>0, <1>q, <2>1 DEF SameInv, Fenced
<1> QED  BY <1>10, <1>11, <1>12, <1>13, <1>14, <1>15, <1>16 DEF ManagedInv

LEMMA ClaimKeeps ==
    ASSUME Inv, GrantInv, custody = "managed", UNCHANGED custody, NEW p \in Providers, ClaimRevision(p)
    PROVE  GrantTypes' /\ OneSignerPerRevision' /\ ManagedInv'
<1>0. GrantTypes /\ OneSignerPerRevision /\ LeaseInv /\ RevisionInv /\ HomeInv /\ FitInv /\ SameInv  BY DEF GrantInv
<1>1. /\ Writable(p) /\ grant[p].acked < grant[p].rev
      /\ lease' = [lease EXCEPT ![p] = grant[p].acked + 1]
      /\ UNCHANGED <<vars, grant, signed, held, carried, custody>>
  BY DEF ClaimRevision
<1>2. grant[p].rev \in Nat /\ grant[p].acked \in Nat /\ lease \in [Providers -> Nat]
  BY <1>0 DEF GrantTypes, GrantRows
<1>i. /\ lease' \in [Providers -> Nat] /\ lease'[p] = grant[p].acked + 1
      /\ \A q \in Providers \ {p} : lease'[q] = lease[q]
  BY <1>1, <1>2
<1>q. /\ \A q \in Providers : Current(q)' => Current(q)
      /\ \A q \in Providers : (Fenced(q)' <=> Fenced(q)) /\ (Writable(q)' <=> Writable(q))
      /\ Stuck' <=> Stuck
      /\ UNCHANGED <<home, fence, carried, custody>>
  BY <1>1, GrantQuiet
<1>3. GrantTypes' /\ OneSignerPerRevision'  BY <1>0, <1>1, <1>i DEF GrantTypes, OneSignerPerRevision
<1>4. LeaseInv'
  <2>1. grant[p].acked + 1 <= grant[p].rev  BY <1>1, <1>2
  <2> QED  BY <1>0, <1>1, <1>i, <1>q, <2>1 DEF LeaseInv
<1>5. RevisionInv' /\ HomeInv' /\ SameInv'
  BY <1>0, <1>1, <1>q DEF RevisionInv, HomeInv, SameInv, Fenced
<1>6. FitInv'
  <2>1. \A q \in Providers : Fits(q)' <=> Fits(q)  BY <1>1 DEF Fits
  <2> QED  BY <1>0, <1>1, <1>q, <2>1 DEF FitInv
<1> QED  BY <1>3, <1>4, <1>5, <1>6 DEF ManagedInv

LEMMA PublishKeeps ==
    ASSUME Inv, GrantInv, custody = "managed", UNCHANGED custody, NEW p \in Providers, PublishRevision(p)
    PROVE  GrantTypes' /\ OneSignerPerRevision' /\ ManagedInv'
<1>0. GrantTypes /\ OneSignerPerRevision /\ LeaseInv /\ RevisionInv /\ HomeInv /\ FitInv /\ SameInv  BY DEF GrantInv
<1>1. /\ Writable(p) /\ lease[p] # 0 /\ lease' = [lease EXCEPT ![p] = 0]
      /\ UNCHANGED <<vars, signed, carried, custody>>
  BY DEF PublishRevision
<1>q. /\ \A q \in Providers : Current(q)' => Current(q)
      /\ \A q \in Providers : (Fenced(q)' <=> Fenced(q)) /\ (Writable(q)' <=> Writable(q))
      /\ Stuck' <=> Stuck
      /\ UNCHANGED <<home, fence, carried, custody>>
  BY <1>1, GrantQuiet
<1>c. Current(p) /\ ~Fenced(p) /\ \A q \in Providers : Current(q) => q = p  BY <1>1, WritableIsCurrent
<1>2. grant \in [Providers -> GrantRows] /\ grant[p] \in GrantRows  BY <1>0 DEF GrantTypes
<1>3. /\ grant[p].rev \in Nat /\ grant[p].acked \in Nat /\ lease[p] \in Nat /\ held \in Nat
      /\ lease[p] = grant[p].acked + 1 /\ lease[p] <= grant[p].rev
  BY <1>0, <1>1, <1>2 DEF GrantTypes, GrantRows, LeaseInv
<1>4. lease' \in [Providers -> Nat] /\ lease'[p] = 0 /\ \A q \in Providers \ {p} : lease'[q] = lease[q]
  BY <1>0, <1>1 DEF GrantTypes
\* A worker publishes what the grantee takes, as long as the PLC names its provider.
<1>5. home = p /\ grant[p].status = "active" => Receivable(lease[p])
  <2>1. SUFFICES ASSUME home = p, grant[p].status = "active"  PROVE  Receivable(lease[p])  OBVIOUS
  <2>2. Fits(p)  BY <1>0, <1>c, <2>1 DEF FitInv
  <2>3. lease[p] \in (grant[p].acked + 1)..grant[p].rev  BY <1>3
  <2>4. <<lease[p], p>> \in signed  BY <2>2, <2>3 DEF Fits
  <2>5. lease[p] \in {held, held + 1}  BY <1>3, <2>2 DEF Fits
  <2> QED  BY <2>1, <2>4, <2>5 DEF Receivable
\* The row after the answer.
<1>6. \E r \in GrantRows :
        /\ r.rev = grant[p].rev /\ r.status = grant[p].status /\ grant' = [grant EXCEPT ![p] = r]
        /\ \/ Receivable(lease[p]) /\ held' = lease[p] /\ r.acked \in {grant[p].acked, lease[p]} /\ r.blocked = grant[p].blocked
           \/ ~Receivable(lease[p]) /\ held' = held /\ r.acked = grant[p].acked
  <2>1. CASE Receivable(lease[p]) /\ held' = lease[p] /\ grant' = [grant EXCEPT ![p].acked = lease[p]]
    <3>1. PICK r : r = [grant[p] EXCEPT !.acked = lease[p]]  OBVIOUS
    <3>2. r = [rev |-> grant[p].rev, acked |-> lease[p], status |-> grant[p].status, blocked |-> grant[p].blocked]
      BY <1>2, <3>1 DEF GrantRows
    <3>3. grant[p].status \in {"active", "revoked"} /\ grant[p].blocked \in BOOLEAN  BY <1>2 DEF GrantRows
    <3>4. r \in GrantRows  BY <1>3, <3>2, <3>3 DEF GrantRows
    <3>5. r.blocked = grant[p].blocked  BY <3>2
    <3>6. grant' = [grant EXCEPT ![p] = r]  BY <1>2, <2>1, <3>1
    <3>7. r.rev = grant[p].rev /\ r.status = grant[p].status /\ r.acked = lease[p]  BY <3>2
    <3> QED  BY <2>1, <3>4, <3>5, <3>6, <3>7
  <2>2. CASE Receivable(lease[p]) /\ held' = lease[p] /\ UNCHANGED grant
    <3>1. grant' = [grant EXCEPT ![p] = grant[p]]  BY <1>2, <2>2
    <3> QED  BY <1>2, <2>2, <3>1
  <2>3. CASE ~Receivable(lease[p]) /\ held' = held /\ grant' = [grant EXCEPT ![p].blocked = TRUE]
    <3>1. PICK r : r = [grant[p] EXCEPT !.blocked = TRUE]  OBVIOUS
    <3>2. r = [rev |-> grant[p].rev, acked |-> grant[p].acked, status |-> grant[p].status, blocked |-> TRUE]
      BY <1>2, <3>1 DEF GrantRows
    <3>3. grant[p].status \in {"active", "revoked"}  BY <1>2 DEF GrantRows
    <3>4. r \in GrantRows  BY <1>3, <3>2, <3>3 DEF GrantRows
    <3>5. grant' = [grant EXCEPT ![p] = r]  BY <1>2, <2>3, <3>1
    <3>6. r.rev = grant[p].rev /\ r.status = grant[p].status /\ r.acked = grant[p].acked  BY <3>2
    <3> QED  BY <2>3, <3>4, <3>5, <3>6
  <2> QED  BY <2>1, <2>2, <2>3 DEF PublishRevision
<1>r. PICK r \in GrantRows :
        /\ r.rev = grant[p].rev /\ r.status = grant[p].status /\ grant' = [grant EXCEPT ![p] = r]
        /\ \/ Receivable(lease[p]) /\ held' = lease[p] /\ r.acked \in {grant[p].acked, lease[p]} /\ r.blocked = grant[p].blocked
           \/ ~Receivable(lease[p]) /\ held' = held /\ r.acked = grant[p].acked
  BY <1>6
<1>i. grant' \in [Providers -> GrantRows] /\ grant'[p] = r /\ \A q \in Providers \ {p} : grant'[q] = grant[q]
  BY <1>2, <1>r
<1>h. held' \in Nat /\ r.acked \in Nat /\ r.acked <= grant[p].rev /\ held' <= grant[p].rev
  <2>1. held <= grant[p].rev  BY <1>0, <1>c DEF RevisionInv
  <2>2. grant[p].acked <= grant[p].rev  BY <1>3
  <2> QED  BY <1>3, <1>r, <2>1, <2>2
<1>7. GrantTypes' /\ OneSignerPerRevision'  BY <1>0, <1>1, <1>4, <1>h, <1>i DEF GrantTypes, OneSignerPerRevision
<1>8. LeaseInv'  BY <1>0, <1>4, <1>i, <1>q DEF LeaseInv
<1>9. RevisionInv'
  <2>1. \A q \in Providers : Current(q)' => q = p  BY <1>c, <1>q
  <2>2. \A x \in signed : x[1] <= grant[p].rev  BY <1>0, <1>c DEF RevisionInv
  <2> QED  BY <1>1, <1>h, <1>i, <1>r, <2>1, <2>2 DEF RevisionInv
<1>10. HomeInv'  BY <1>0, <1>q DEF HomeInv
<1>11. FitInv'
  <2>1. \A q \in Providers : Current(q)' => q = p /\ ~Fenced(q)'  BY <1>c, <1>q
  <2>2. SUFFICES ASSUME home = p, grant[p].status = "active"  PROVE  Fits(p)'
    BY <1>i, <1>q, <1>r, <2>1 DEF FitInv
  <2>3. Fits(p) /\ Receivable(lease[p])  BY <1>0, <1>5, <1>c, <2>2 DEF FitInv
  <2>4. ~r.blocked  BY <1>r, <2>3 DEF Fits
  <2>5. held' = lease[p] /\ r.acked \in {grant[p].acked, lease[p]}  BY <1>r, <2>3
  <2>6. r.acked <= held' /\ held' <= r.acked + 1  BY <1>3, <2>5
  <2>7. \A n \in (r.acked + 1)..r.rev : n \in (grant[p].acked + 1)..grant[p].rev  BY <1>3, <1>r, <2>5
  <2>8. \A n \in (r.acked + 1)..r.rev : <<n, p>> \in signed  BY <2>3, <2>7 DEF Fits
  <2> QED  BY <1>1, <1>i, <2>4, <2>6, <2>8 DEF Fits
<1>12. SameInv'
  <2>1. \A q \in Providers : Fenced(q) => grant'[q] = grant[q]  BY <1>c, <1>i
  <2> QED  BY <1>0, <1>q, <2>1 DEF SameInv, Fenced
<1> QED  BY <1>7, <1>8, <1>9, <1>10, <1>11, <1>12 DEF ManagedInv

\* A step that is no activation makes the account current nowhere.
LEMMA ManagedSteady ==
    ASSUME Inv, Managed, era' = era
    PROVE  Steady
<1>1. Step  BY ManagedSteps
<1>2. \A t \in Transfers : ~Activated(t)
  <2>1. era \in Nat  BY DEF Inv, TypeInv
  <2> QED  BY <2>1 DEF Activated
<1> QED  BY <1>1, <1>2, StepKeeps

LEMMA ExportKeeps ==
    ASSUME Inv, GrantInv, Managed, NEW p \in Providers, ExportManaged(p)
    PROVE  GrantTypes' /\ OneSignerPerRevision' /\ ManagedInv'
<1>m. custody = "managed" /\ UNCHANGED custody  BY DEF Managed
<1>0. GrantTypes /\ OneSignerPerRevision /\ RouteInv /\ LeaseInv /\ RevisionInv /\ HomeInv /\ FitInv /\ SameInv
  BY <1>m DEF GrantInv
<1>t. PICK t : t = fence[p].t  OBVIOUS
<1>1. /\ UNCHANGED <<home, period, era, grant, signed, held, lease, custody>>
      /\ fence[p] # None
      /\ fence' = [fence EXCEPT ![p].state = "exported", ![p].snap = Collected(p)]
      /\ carried' = [carried EXCEPT ![t] = CollectedManaged(p)]
  BY <1>m, <1>t DEF ExportManaged, Export, AsksExport, Fenced, grantVars, plcVars, servingVars
<1>2. fence \in [Providers -> Fences \cup {None}] /\ fence[p] \in Fences /\ t \in Transfers
      /\ carried = [u \in Transfers |-> carried[u]]
  BY <1>1, <1>t DEF Inv, TypeInv, Fences
<1>3. PICK r : r = [fence[p] EXCEPT !.state = "exported", !.snap = Collected(p)]  OBVIOUS
<1>4. r.t = t /\ r # None /\ fence' = [fence EXCEPT ![p] = r]
  <2>1. r = [t |-> fence[p].t, state |-> "exported", snap |-> Collected(p)]  BY <1>2, <1>3 DEF Fences
  <2>2. r.t = t /\ fence' = [fence EXCEPT ![p] = r]  BY <1>1, <1>2, <1>3, <1>t, <2>1
  <2>3. Collected(p) \in SUBSET Mail  BY DEF Collected, Inv, TypeInv
  <2>4. r # None  BY <1>2, <1>t, <2>1, <2>3, NoneAssumption
  <2> QED  BY <2>2, <2>4
<1>f. fence'[p] = r /\ \A q \in Providers \ {p} : fence'[q] = fence[q]  BY <1>2, <1>4
<1>q. \A q \in Providers : (Fenced(q)' <=> Fenced(q)) /\ (Writable(q)' <=> Writable(q))
  BY <1>1, <1>4, <1>f DEF Fenced, Writable
<1>s. Steady  BY <1>1, ManagedSteady
<1>c. \A q \in Providers : Current(q)' => Current(q)  BY <1>s DEF Steady, CurrentShrinks
<1>5. GrantTypes' /\ OneSignerPerRevision'  BY <1>0, <1>1 DEF GrantTypes, OneSignerPerRevision
<1>6. LeaseInv' /\ RevisionInv'  BY <1>0, <1>1, <1>c, <1>q DEF LeaseInv, RevisionInv
<1>7. HomeInv'  BY <1>0, <1>1, <1>c, <1>s DEF HomeInv, Steady
<1>8. FitInv'
  <2>1. \A q \in Providers : Fits(q)' <=> Fits(q)  BY <1>1 DEF Fits
  <2> QED  BY <1>0, <1>1, <1>c, <1>q, <2>1 DEF FitInv
<1>9. SameInv'
  <2> SUFFICES ASSUME NEW q \in Providers, Fenced(q)', fence'[q].state = "exported"
               PROVE  carried'[fence'[q].t].grant = grant'[q]
    BY DEF SameInv
  <2>1. CASE q = p
    <3>1. CollectedManaged(p).grant = grant[p]  BY DEF CollectedManaged
    <3>2. carried'[t] = CollectedManaged(p)  BY <1>1, <1>2
    <3> QED  BY <1>1, <1>4, <1>f, <2>1, <3>1, <3>2
  <2>2. CASE q # p
    <3>1. fence'[q] = fence[q] /\ Fenced(q)  BY <1>f, <1>q, <2>2
    <3>2. PICK x : x = fence[q].t  OBVIOUS
    <3>3. x \in Transfers  BY <1>2, <3>1, <3>2 DEF Fenced, Fences
    <3>4. From(x) = q /\ From(t) = p  BY <1>0, <1>1, <1>t, <3>1, <3>2 DEF RouteInv, Fenced
    <3>5. carried'[x] = carried[x]  BY <1>1, <1>2, <2>2, <3>3, <3>4
    <3> QED  BY <1>0, <1>1, <3>1, <3>2, <3>5 DEF SameInv
  <2> QED  BY <2>1, <2>2
<1> QED  BY <1>5, <1>6, <1>7, <1>8, <1>9 DEF ManagedInv

LEMMA FenceAside ==
    ASSUME Inv, GrantInv, Managed, NEW t \in Transfers, BeginManagedFence(t)
    PROVE  GrantTypes' /\ OneSignerPerRevision' /\ ManagedInv'
<1>m. custody = "managed" /\ UNCHANGED custody  BY DEF Managed
<1>0. GrantTypes /\ OneSignerPerRevision  BY DEF GrantInv
<1>p. PICK p : p = From(t)  OBVIOUS
<1>1. /\ UNCHANGED <<grantVars, carried, custody, period, era>>
      /\ home = p /\ lease[p] = 0 /\ (grant[p].status = "active" => grant[p].acked = grant[p].rev)
      /\ fence' = [fence EXCEPT ![p] = [t |-> t, state |-> "fenced", snap |-> {}]]
  BY <1>m, <1>p DEF BeginManagedFence, BeginFence, InCustody, Drained, Acknowledged, managedVars, servingVars
<1>2. fence \in [Providers -> Fences \cup {None}]  BY DEF Inv, TypeInv
<1>3. Steady  BY <1>1, ManagedSteady
<1>4. ASSUME NEW q \in Providers, Fenced(q)'
      PROVE  \/ /\ Fenced(q) /\ fence'[q].t = fence[q].t
                /\ fence'[q].state = "exported" => fence[q].state = "exported"
             \/ /\ home = q /\ lease[q] = 0 /\ fence'[q].state = "fenced"
                /\ grant[q].status = "active" => grant[q].acked = grant[q].rev
  <2>1. CASE q = p  BY <1>1, <1>2, <2>1
  <2>2. CASE q # p
    <3>1. fence'[q] = fence[q]  BY <1>1, <1>2, <2>2
    <3> QED  BY <1>4, <3>1 DEF Fenced
  <2> QED  BY <2>1, <2>2
<1>5. GrantTypes' /\ OneSignerPerRevision'  BY <1>0, <1>1 DEF GrantTypes, OneSignerPerRevision, grantVars
<1>6. ManagedInv'  BY <1>1, <1>3, <1>4, <1>m, AsideKeeps DEF ManagedInv
<1> QED  BY <1>5, <1>6

LEMMA AsideHolds ==
    ASSUME Inv, GrantInv, Managed, Aside
    PROVE  GrantTypes' /\ OneSignerPerRevision' /\ ManagedInv'
<1>m. custody = "managed" /\ UNCHANGED custody  BY DEF Managed
<1>0. GrantTypes /\ OneSignerPerRevision  BY DEF GrantInv
<1>1. UNCHANGED <<grantVars, carried, custody, period, era>>  BY DEF Aside
<1>2. Steady  BY <1>1, ManagedSteady
<1>3. GrantTypes' /\ OneSignerPerRevision'  BY <1>0, <1>1 DEF GrantTypes, OneSignerPerRevision, grantVars
<1>4. ManagedInv'  BY <1>1, <1>2, <1>m, AsideKeeps DEF ManagedInv, Aside
<1> QED  BY <1>3, <1>4

\* The account arrives with the grant it left with, and the successor of an active one is
\* the new provider's first signature.
LEMMA ActivateKeeps ==
    ASSUME Inv, GrantInv, Managed, NEW t \in Transfers, ActivateManaged(t)
    PROVE  GrantTypes' /\ OneSignerPerRevision' /\ ManagedInv'
<1>m. custody = "managed" /\ UNCHANGED custody  BY DEF Managed
<1>0. GrantTypes /\ OneSignerPerRevision /\ LeaseInv /\ RevisionInv /\ HomeInv /\ FitInv /\ SameInv  BY <1>m DEF GrantInv
<1>p. PICK p, s : p = To(t) /\ s = From(t)  OBVIOUS
<1>g. PICK g, next : g = grant[s] /\ next = Resigned(carried[t].grant)  OBVIOUS
<1>1. /\ Staged(t) /\ head = Cutover(t)
      /\ fence' = [fence EXCEPT ![p] = None]
      /\ grant' = [grant EXCEPT ![p] = next]
      /\ signed' = signed \cup (IF next.status = "active" THEN {<<next.rev, p>>} ELSE {})
      /\ UNCHANGED <<home, held, lease, carried, custody>>
  BY <1>m, <1>p, <1>g DEF ActivateManaged, Ready, ConfirmCurrent, plcVars
<1>a. Activated(t)
  <2>1. Kept  BY <1>1 DEF Kept
  <2>2. TypeInv /\ FileInv  BY DEF Inv
  <2> QED  BY <1>m, <2>1, <2>2, ActivationSteps
<1>2. p \in Providers /\ s \in Providers /\ s # p  BY <1>1, <1>p, ImportRoute DEF Inv, Staged
<1>c. Current(s) /\ Holds(s, t, "exported")  BY <1>1, <1>p, StagedIsCurrent
<1>u. \A q \in Providers : Current(q) => q = s  BY <1>2, <1>c DEF Inv, UniqueInv
<1>f. fence'[p] = None /\ \A q \in Providers \ {p} : fence'[q] = fence[q]  BY <1>1, <1>2 DEF Inv, TypeInv
<1>k. \A q \in Providers : Current(q)' => q = p
  <2>1. UniqueInv'  BY <1>a, ActivatedKeeps DEF Inv
  <2>2. period[p] \in Nat /\ period'[p] \in Nat /\ period'[p] > period[p]
    BY <1>2, <1>a, <1>p DEF Activated, Inv, TypeInv
  <2>3. period'[p] > 0  BY <2>2
  <2>4. Current(p)'  BY <1>f, <2>3 DEF Current, Fenced
  <2> QED  BY <1>2, <2>1, <2>4 DEF UniqueInv
<1>h. home = p  BY <1>1, <1>p DEF Inv, PlcInv
<1>3. carried[t].grant = g  BY <1>0, <1>2, <1>c, <1>g DEF SameInv, Holds, Fenced
<1>4. grant \in [Providers -> GrantRows] /\ g \in GrantRows  BY <1>0, <1>2, <1>g DEF GrantTypes
<1>5. g.rev \in Nat /\ g.acked \in Nat /\ g.status \in {"active", "revoked"}  BY <1>4 DEF GrantRows
<1>6. /\ \A x \in signed : x[1] \in Nat /\ x[1] <= g.rev
      /\ held \in Nat /\ held <= g.rev /\ g.acked <= g.rev
  BY <1>0, <1>2, <1>c, <1>g DEF GrantTypes, RevisionInv
<1>7. ASSUME g.status # "active"
      PROVE  GrantTypes' /\ OneSignerPerRevision' /\ RevisionInv' /\ FitInv' /\ \A q \in Providers \ {p} : grant'[q] = grant[q]
  <2>1. next = g  BY <1>3, <1>7, <1>g DEF Resigned
  <2>2. signed' = signed  BY <1>1, <1>7, <2>1
  <2>i. grant' \in [Providers -> GrantRows] /\ grant'[p] = g /\ \A q \in Providers \ {p} : grant'[q] = grant[q]
    BY <1>1, <1>2, <1>4, <2>1
  <2>3. GrantTypes' /\ OneSignerPerRevision'  BY <1>0, <1>1, <2>2, <2>i DEF GrantTypes, OneSignerPerRevision
  <2>4. RevisionInv'  BY <1>1, <1>6, <1>k, <2>2, <2>i DEF RevisionInv
  <2>5. FitInv'  BY <1>7, <1>k, <2>i DEF FitInv
  <2>6. \A q \in Providers \ {p} : grant'[q] = grant[q]  BY <2>i
  <2> QED  BY <2>3, <2>4, <2>5, <2>6
<1>8. ASSUME g.status = "active"
      PROVE  GrantTypes' /\ OneSignerPerRevision' /\ RevisionInv' /\ FitInv' /\ \A q \in Providers \ {p} : grant'[q] = grant[q]
  <2>1. next = [g EXCEPT !.rev = @ + 1]  BY <1>3, <1>8, <1>g DEF Resigned
  <2>2. next = [rev |-> g.rev + 1, acked |-> g.acked, status |-> "active", blocked |-> g.blocked]
    BY <1>4, <1>8, <2>1 DEF GrantRows
  <2>3. next.rev = g.rev + 1 /\ next.acked = g.acked /\ next.status = "active"  BY <2>2
  <2>4. next.blocked = g.blocked /\ g.blocked \in BOOLEAN  BY <1>4, <2>2 DEF GrantRows
  <2>5. next \in GrantRows
    <3>1. g.rev + 1 \in Nat  BY <1>5
    <3> QED  BY <1>5, <2>2, <2>4, <3>1 DEF GrantRows
  <2>i. grant' \in [Providers -> GrantRows] /\ grant'[p] = next /\ \A q \in Providers \ {p} : grant'[q] = grant[q]
    BY <1>1, <1>2, <1>4, <2>5
  <2>6. PICK new : new = <<g.rev + 1, p>>  OBVIOUS
  <2>7. signed' = signed \cup {new} /\ new[1] = g.rev + 1 /\ new \in Nat \X Providers
    BY <1>1, <1>2, <1>5, <2>3, <2>6
  <2>8. GrantTypes'  BY <1>0, <1>1, <2>7, <2>i DEF GrantTypes
  <2>9. OneSignerPerRevision'
    <3>1. \A x \in signed : x[1] # g.rev + 1  BY <1>5, <1>6
    <3> QED  BY <1>0, <2>7, <3>1 DEF OneSignerPerRevision
  <2>10. RevisionInv'
    <3>1. \A x \in signed' : x[1] <= g.rev + 1
      <4>1. \A x \in signed : x[1] <= g.rev + 1  BY <1>5, <1>6
      <4>2. new[1] <= g.rev + 1  BY <1>5, <2>7
      <4> QED  BY <2>7, <4>1, <4>2
    <3>2. held <= g.rev + 1 /\ g.acked <= g.rev + 1  BY <1>5, <1>6
    <3> QED  BY <1>1, <1>k, <2>3, <2>i, <3>1, <3>2 DEF RevisionInv
  <2>11. FitInv'
    <3>1. Fits(s) /\ g.acked = g.rev  BY <1>0, <1>2, <1>8, <1>c, <1>g DEF FitInv, Holds, Fenced
    <3>2. ~next.blocked  BY <1>g, <2>4, <3>1 DEF Fits
    <3>3. next.acked <= held /\ held <= next.acked + 1  BY <1>g, <2>3, <3>1 DEF Fits
    <3>4. \A n \in (next.acked + 1)..next.rev : n = g.rev + 1  BY <1>5, <2>3, <3>1
    <3>5. \A n \in (next.acked + 1)..next.rev : <<n, p>> \in signed'  BY <2>6, <2>7, <3>4
    <3>6. Fits(p)'  BY <1>1, <2>i, <3>2, <3>3, <3>5 DEF Fits
    <3> QED  BY <1>f, <1>k, <3>6 DEF FitInv, Fenced
  <2>12. \A q \in Providers \ {p} : grant'[q] = grant[q]  BY <2>i
  <2> QED  BY <2>8, <2>9, <2>10, <2>11, <2>12
<1>9. GrantTypes' /\ OneSignerPerRevision' /\ RevisionInv' /\ FitInv' /\ \A q \in Providers \ {p} : grant'[q] = grant[q]
  BY <1>7, <1>8
<1>10. LeaseInv'
  <2>1. ~Writable(s)  BY <1>c DEF Writable, Holds, Fenced
  <2>2. \A q \in Providers : ~Writable(q)  BY <1>u, <2>1, WritableIsCurrent
  <2> QED  BY <1>0, <1>1, <2>2 DEF LeaseInv
<1>11. HomeInv'  BY <1>1, <1>h, <1>k DEF HomeInv
<1>12. SameInv'  BY <1>0, <1>1, <1>9, <1>f DEF SameInv, Fenced
<1> QED  BY <1>9, <1>10, <1>11, <1>12 DEF ManagedInv

LEMMA GrantInit ==
    ASSUME MoveInit
    PROVE  GrantInv
<1>1. /\ Init /\ StillGrant /\ lease = [p \in Providers |-> 0] /\ custody \in {"portable", "managed"}
  BY DEF MoveInit, ManagedInit, StillGrant
<1>2. \A p \in Providers : ~Fenced(p) /\ (period[p] > 0 => p = First)  BY <1>1 DEF Init, Fenced
<1>3. PICK r : r = [NoGrant EXCEPT !.rev = 1]  OBVIOUS
<1>4. r = [rev |-> 1, acked |-> 0, status |-> "active", blocked |-> FALSE]  BY <1>3 DEF NoGrant
<1>5. r \in GrantRows /\ NoGrant \in GrantRows  BY <1>4 DEF NoGrant, GrantRows
<1>6. r.rev = 1 /\ r.acked = 0  BY <1>4
<1>b. r.blocked = FALSE  BY <1>4
<1>7. First \in Providers  BY ProviderAssumption
<1>8. grant \in [Providers -> GrantRows] /\ grant[First] = r  BY <1>1, <1>3, <1>5, <1>7 DEF StillGrant
<1>9. GrantTypes
  <2>1. <<1, First>> \in Nat \X Providers  BY <1>7
  <2> QED  BY <1>1, <1>8, <2>1 DEF GrantTypes, StillGrant
<1>10. RouteInv /\ SameInv  BY <1>2 DEF RouteInv, SameInv
<1>11. OneSignerPerRevision  BY <1>1 DEF StillGrant, OneSignerPerRevision
<1>12. LeaseInv  BY <1>1 DEF LeaseInv
<1>13. \A p \in Providers : Current(p) => p = First  BY <1>2 DEF Current
<1>14. RevisionInv
  <2>1. PICK new : new = <<1, First>>  OBVIOUS
  <2>2. signed = {new} /\ new[1] = 1 /\ held = 0  BY <1>1, <2>1 DEF StillGrant
  <2> QED  BY <1>6, <1>8, <1>13, <2>2 DEF RevisionInv
<1>15. HomeInv  BY <1>1, <1>13 DEF HomeInv, Init
<1>16. FitInv
  <2>1. \A n \in (r.acked + 1)..r.rev : n = 1  BY <1>6
  <2>2. \A n \in (r.acked + 1)..r.rev : <<n, First>> \in signed  BY <1>1, <2>1 DEF StillGrant
  <2>3. r.acked <= held /\ held <= r.acked + 1  BY <1>1, <1>6 DEF StillGrant
  <2>4. Fits(First)  BY <1>8, <1>b, <2>2, <2>3 DEF Fits
  <2> QED  BY <1>2, <1>13, <2>4 DEF FitInv
<1> QED  BY <1>1, <1>9, <1>10, <1>11, <1>12, <1>14, <1>15, <1>16 DEF GrantInv

LEMMA ManagedKeepsGrant ==
    ASSUME Inv, GrantInv, Managed
    PROVE  GrantInv'
<1>m. custody = "managed" /\ UNCHANGED custody  BY DEF Managed
<1>1. RouteInv'  BY ManagedSteps, RouteKeeps DEF GrantInv
<1>2. ASSUME Aside
      PROVE  GrantTypes' /\ OneSignerPerRevision' /\ ManagedInv'
  BY <1>2, AsideHolds
<1>3. ASSUME NEW p \in Providers, \E status \in {"active", "revoked"} : Revise(p, status)
      PROVE  GrantTypes' /\ OneSignerPerRevision' /\ ManagedInv'
  BY <1>3, <1>m, ReviseKeeps
<1>4. ASSUME NEW p \in Providers, ClaimRevision(p) \/ PublishRevision(p) \/ ExportManaged(p)
      PROVE  GrantTypes' /\ OneSignerPerRevision' /\ ManagedInv'
  BY <1>4, <1>m, ClaimKeeps, PublishKeeps, ExportKeeps
<1>5. ASSUME NEW t \in Transfers, BeginManagedFence(t) \/ ActivateManaged(t)
      PROVE  GrantTypes' /\ OneSignerPerRevision' /\ ManagedInv'
  BY <1>5, FenceAside, ActivateKeeps
<1>6. GrantTypes' /\ OneSignerPerRevision' /\ ManagedInv'  BY <1>2, <1>3, <1>4, <1>5, ManagedForms
<1> QED  BY <1>1, <1>6, <1>m DEF GrantInv, ManagedInv

LEMMA PortableKeepsGrant ==
    ASSUME Inv, GrantInv, Portable
    PROVE  GrantInv'
<1>1. custody = "portable" /\ UNCHANGED <<custody, grant, signed, held, lease>>
  BY DEF Portable, managedVars, grantVars
<1>2. RouteInv'  BY PortableSteps, RouteKeeps DEF GrantInv
<1>3. GrantTypes' /\ OneSignerPerRevision' /\ StillGrant'
  BY <1>1 DEF GrantInv, GrantTypes, OneSignerPerRevision, StillGrant
<1> QED  BY <1>1, <1>2, <1>3 DEF GrantInv

LEMMA StillKeepsGrant ==
    ASSUME Inv, GrantInv, UNCHANGED moveVars
    PROVE  GrantInv'
<1>1. UNCHANGED <<vars, grant, signed, held, lease, carried, custody>>
  BY DEF moveVars, allVars, managedVars, grantVars
<1>q. /\ \A p \in Providers : Current(p)' => Current(p)
      /\ \A p \in Providers : (Fenced(p)' <=> Fenced(p)) /\ (Writable(p)' <=> Writable(p))
      /\ Stuck' <=> Stuck
      /\ UNCHANGED <<home, fence, carried, custody>>
  BY <1>1, GrantQuiet
<1>2. UNCHANGED <<file, route>>  BY <1>1 DEF vars
<1>3. RouteInv'  BY <1>2, <1>q DEF GrantInv, RouteInv, From, Fenced
<1>4. GrantTypes' /\ OneSignerPerRevision' /\ (custody = "portable" => StillGrant')
  BY <1>1 DEF GrantInv, GrantTypes, OneSignerPerRevision, StillGrant
<1>5. custody = "managed" => LeaseInv' /\ RevisionInv' /\ HomeInv' /\ SameInv'
  BY <1>1, <1>q DEF GrantInv, LeaseInv, RevisionInv, HomeInv, SameInv
<1>6. custody = "managed" => FitInv'
  <2>1. \A p \in Providers : Fits(p)' <=> Fits(p)  BY <1>1 DEF Fits
  <2> QED  BY <1>1, <1>q, <2>1 DEF GrantInv, FitInv
<1> QED  BY <1>1, <1>3, <1>4, <1>5, <1>6 DEF GrantInv

\* The grant's part of the inductive invariant: its revisions, signatures, lease, what the
\* grantee holds and what an export carries, by where the account is current
\* (managed-fence.ts, managed-snapshot.ts, managed-activation.ts).
THEOREM GrantInvariance == MoveSpec => []GrantInv
<1>1. MoveInit => GrantInv  BY GrantInit
<1>2. Inv /\ GrantInv /\ [MoveNext]_moveVars => GrantInv'
  BY ManagedKeepsGrant, PortableKeepsGrant, StillKeepsGrant DEF MoveNext
<1>3. MoveSpec => MoveInit /\ [][MoveNext]_moveVars  BY PTL DEF MoveSpec, MoveSafety
<1> QED  BY <1>1, <1>2, <1>3, Invariance, PTL

\* No revision of a grant is signed by two providers (managed-activation.ts importGrants,
\* managed-fence.ts).
THEOREM OneSigner == MoveSpec => []OneSignerPerRevision
<1>1. GrantInv => OneSignerPerRevision  BY DEF GrantInv
<1> QED  BY <1>1, GrantInvariance, PTL

\* What the serving provider has not had acknowledged of an active grant is signed by it
\* and follows what the grantee holds (managed-activation.ts importGrants,
\* managed-snapshot.ts).
THEOREM SuccessorsFit == MoveSpec => []SuccessorFits
<1>1. ASSUME Inv, GrantInv  PROVE  SuccessorFits
  <2> SUFFICES ASSUME NEW p \in Providers, Writable(p), home = p, grant[p].status = "active"
               PROVE  /\ ~grant[p].blocked
                      /\ grant[p].acked <= held
                      /\ \A n \in (grant[p].acked + 1)..grant[p].rev : <<n, p>> \in signed
    BY DEF SuccessorFits
  <2>1. Current(p) /\ ~Fenced(p)  BY <1>1, WritableIsCurrent
  <2>2. CASE custody = "managed"
    <3>1. Fits(p)  BY <1>1, <2>1, <2>2 DEF GrantInv, FitInv
    <3> QED  BY <3>1 DEF Fits
  <2>3. CASE custody = "portable"
    <3>1. StillGrant  BY <1>1, <2>3 DEF GrantInv
    <3>2. PICK r : r = [NoGrant EXCEPT !.rev = 1]  OBVIOUS
    <3>3. r = [rev |-> 1, acked |-> 0, status |-> "active", blocked |-> FALSE]  BY <3>2 DEF NoGrant
    <3>4. r.blocked = FALSE  BY <3>3
    <3>5. NoGrant.blocked = FALSE  BY DEF NoGrant
    <3>6. r.rev = 1 /\ r.acked = 0 /\ NoGrant.rev = 0 /\ NoGrant.acked = 0  BY <3>3 DEF NoGrant
    <3>7. grant[p] = IF p = First THEN r ELSE NoGrant  BY <3>1, <3>2 DEF StillGrant
    <3>8. ~grant[p].blocked  BY <3>4, <3>5, <3>7
    <3>9. grant[p].acked = 0 /\ grant[p].rev = IF p = First THEN 1 ELSE 0  BY <3>6, <3>7
    <3>10. \A n \in (grant[p].acked + 1)..grant[p].rev : n = 1 /\ p = First  BY <3>9
    <3> QED  BY <3>1, <3>8, <3>9, <3>10 DEF StillGrant
  <2> QED  BY <1>1, <2>2, <2>3 DEF GrantInv, GrantTypes
<1> QED  BY <1>1, Invariance, GrantInvariance, PTL
=============================================================================
