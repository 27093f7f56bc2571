------------------------------- MODULE Outbox -------------------------------
(***************************************************************************)
(* What the completion outbox promises, whatever handlers, repeated        *)
(* notifies, crashes and busy transactions it is made of.  A completion is *)
(* tried a bounded number of times, one try after the other.  A try that   *)
(* was neither confirmed nor refused is never repeated.  A message exists  *)
(* in Discord for some try, and only a message that exists is confirmed.   *)
(* (docs/completion-notifications.md)                                      *)
(***************************************************************************)
EXTENDS Naturals

CONSTANTS Events,  \* notify events
          Limit    \* retry_attempts

VARIABLES
    entry,   \* where each completion stands
    tries,   \* how often it was tried
    copies   \* how many messages Discord has for it

Init == /\ entry = [e \in Events |-> "none"]
        /\ tries = [e \in Events |-> 0]
        /\ copies = [e \in Events |-> 0]

Record(e) == /\ entry[e] = "none"
             /\ entry' = [entry EXCEPT ![e] = "open"]
             /\ UNCHANGED <<tries, copies>>

Try(e) == /\ entry[e] = "open" /\ tries[e] < Limit
          /\ entry' = [entry EXCEPT ![e] = "trying"]
          /\ tries' = [tries EXCEPT ![e] = @ + 1]
          /\ UNCHANGED copies

\* Discord takes the message of this try.
Land(e) == /\ entry[e] = "trying" /\ copies[e] < tries[e]
           /\ copies' = [copies EXCEPT ![e] = @ + 1]
           /\ UNCHANGED <<entry, tries>>

Confirm(e) == /\ entry[e] = "trying" /\ copies[e] > 0
              /\ entry' = [entry EXCEPT ![e] = "delivered"]
              /\ UNCHANGED <<tries, copies>>

\* The try is known, or believed, to have failed.
Reopen(e) == /\ entry[e] = "trying"
             /\ entry' = [entry EXCEPT ![e] = "open"]
             /\ UNCHANGED <<tries, copies>>

Next == \E e \in Events : \/ Record(e) \/ Try(e) \/ Land(e)
                          \/ Confirm(e) \/ Reopen(e)

Spec == Init /\ [][Next]_<<entry, tries, copies>>
=============================================================================
