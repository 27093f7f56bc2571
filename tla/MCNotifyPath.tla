---------------------------- MODULE MCNotifyPath ----------------------------
(***************************************************************************)
(* The way of a turn's end from Codex to Discord, for TLC: the senders and *)
(* the server (NotifyBridge), the Discord thread of the session            *)
(* (SessionMapping), the completion in it (Delivery).  Each stage is       *)
(* called by the one before it and calls back nothing, and they share no   *)
(* variable: a behaviour of this instance is one of one stage, `part`,     *)
(* with the others at rest.                                                *)
(***************************************************************************)
EXTENDS NotifyBridge, SessionMapping, Delivery

CONSTANTS e1, e2, e3, c1, c2, c3, c4, s1, w1, w2

VARIABLE part

\* Two of four connections overlap with the same event; or one payload is bad.
MCContents ==
    {[c \in Senders |-> IF c \in {c1, c2} THEN e1 ELSE IF c = c3 THEN e2 ELSE x] : x \in {e3, Bad}}

\* Three turns of one session, the last of them in another directory.
MCSessionOf == [e \in Turns |-> s1]
MCCwdOf == [e \in Turns |-> IF e = e3 THEN w2 ELSE w1]

pathVars == <<part, bridgeVars, mappingVars, deliveryVars>>

PathInit ==
    /\ part \in {"bridge", "mapping", "delivery"}
    /\ BridgeInit /\ MappingInit /\ DeliveryInit
    /\ part # "bridge" => content[c4] = Bad
    /\ part # "mapping" => disabled = {}

PathNext ==
    \/ part = "bridge" /\ BridgeNext /\ UNCHANGED <<part, mappingVars, deliveryVars>>
    \/ part = "mapping" /\ MappingNext /\ UNCHANGED <<part, bridgeVars, deliveryVars>>
    \/ part = "delivery" /\ DeliveryNext /\ UNCHANGED <<part, bridgeVars, mappingVars>>

\* Nothing that has to happen is enabled in a stage at rest.
PathSpec == /\ PathInit /\ [][PathNext]_pathVars
            /\ BridgeFairness /\ MappingFairness /\ DeliveryFairness

-----------------------------------------------------------------------------
\* The types of the three stages.
PathTypeOK == BridgeTypeOK /\ MappingTypeOK /\ DeliveryTypeOK

\* Nothing on the way hangs: senders end, so do connections without a sender, and
\* everybody who waits for the lock of a session is served.
NothingHangs == SendersEnd /\ LockServed
=============================================================================
