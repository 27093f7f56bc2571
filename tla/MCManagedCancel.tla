-------------------------- MODULE MCManagedCancel ---------------------------
(* Instances of ManagedCancel for TLC.                                       *)
EXTENDS ManagedCancel

CONSTANTS t1

\* Two jobs of one session and a user who cancels.
OneThread == [x \in Calls \cup Users |-> t1]
=============================================================================
