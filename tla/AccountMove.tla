----------------------------- MODULE AccountMove -----------------------------
(***************************************************************************)
(* An account's move under either kind of custody.  The account's custody  *)
(* is settled before the move and fixed during it: an owner who holds the  *)
(* identity key moves through Transfer, an account whose provider holds it *)
(* through ManagedTransfer, which adds the grants that change signer.      *)
(***************************************************************************)
EXTENDS ManagedTransfer

VARIABLE custody    \* who holds the account's identity key

moveVars == <<allVars, custody>>

MoveInit == ManagedInit /\ custody \in {"portable", "managed"}

(* The portable routes serve accounts under self custody only.             *)
Portable == custody = "portable" /\ Next /\ UNCHANGED <<managedVars, custody>>

Managed == custody = "managed" /\ ManagedNext /\ UNCHANGED custody

MoveNext == Portable \/ Managed

(* The completion the client repeats, by the kind of custody.              *)
MoveFinishes(t) ==
    \/ custody = "portable" /\ Finish(t) /\ UNCHANGED <<managedVars, custody>>
    \/ custody = "managed" /\ Complete(t) /\ UNCHANGED custody

MoveUndone(t) == Undo(t) /\ UNCHANGED <<managedVars, custody>>

MoveSafety == MoveInit /\ [][MoveNext]_moveVars

(* The owner's client repeats a completion, or a cancellation, that was    *)
(* once begun until it is answered.                                        *)
MoveSpec ==
    /\ MoveSafety
    /\ \A t \in Transfers : WF_moveVars(MoveFinishes(t)) /\ WF_moveVars(MoveUndone(t))
==============================================================================
