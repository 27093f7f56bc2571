---------------------------- MODULE MCJobManager ----------------------------
(***************************************************************************)
(* Instances of JobManager for TLC.                                        *)
(***************************************************************************)
EXTENDS JobManager

CONSTANTS s1, s2, own

\* Every message and turn in one session.
OneThread == [t \in Turns |-> s1]

\* The second message goes to another session.
TwoThreads == [t \in Turns |-> IF t = 2 THEN s2 ELSE s1]
=============================================================================
