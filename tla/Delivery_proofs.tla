--------------------------- MODULE Delivery_proofs ---------------------------
(***************************************************************************)
(* The completion outbox, for every set of events and connections, every   *)
(* budget of attempts and every number of crashes and busy transactions:   *)
(* what a message in Discord says about the row and the row about the      *)
(* messages, and that Delivery implements Outbox.                          *)
(***************************************************************************)
EXTENDS Delivery, TLAPS

\* One handler at a time is inside the lock of an event.
OneHolder == \A e \in Completions, c, d \in Connections :
    copy[e][c] \in Inside /\ copy[e][d] \in Inside => c = d

\* What the row of an event knows of its messages.  Each was tried; of an interrupted
\* delivery nobody knows whether the last one exists.
RowKnows(e) ==
    /\ posted[e] <= row[e].attempts
    /\ row[e].status \in {"ABSENT", "PENDING", "FAILED"} => posted[e] = lost[e]
    /\ row[e].status = "SENDING" => posted[e] \in {lost[e], lost[e] + 1}
    /\ row[e].status = "SENT" => posted[e] = lost[e] + 1

\* What a handler knows of the row of its event.
CopyKnows(e, c) ==
    /\ copy[e][c] \in {"pipeline", "lock"} => row[e].status # "ABSENT"
    /\ copy[e][c] = "sending" => /\ row[e].status = "SENDING"
                                 /\ posted[e] = lost[e] /\ posted[e] < row[e].attempts
    /\ copy[e][c] = "posted" => row[e].status = "SENDING" /\ posted[e] = lost[e] + 1
    /\ copy[e][c] = "backoff" => row[e].status = "FAILED"

\* The inductive invariant.
IInv == /\ DeliveryTypeOK
        /\ OneHolder
        /\ \A e \in Completions : RowKnows(e)
        /\ \A e \in Completions, c \in Connections : CopyKnows(e, c)

-----------------------------------------------------------------------------
LEMMA InitInv == DeliveryInit => IInv
  <1> SUFFICES ASSUME DeliveryInit PROVE IInv
    OBVIOUS
  <1>1. \A e \in Completions, c \in Connections : copy[e][c] = "none"
    BY DEF DeliveryInit
  <1>2. DeliveryTypeOK
    BY DeliveryAssumption DEF DeliveryInit, DeliveryTypeOK, Status, CopyState
  <1>3. OneHolder
    BY <1>1 DEF OneHolder, Inside
  <1>4. \A e \in Completions : RowKnows(e)
    BY DEF DeliveryInit, RowKnows
  <1>5. \A e \in Completions, c \in Connections : CopyKnows(e, c)
    BY <1>1 DEF CopyKnows
  <1> QED BY <1>2, <1>3, <1>4, <1>5 DEF IInv

-----------------------------------------------------------------------------
(* A step of one handler c, about its event e.                              *)

Same(e) == row'[e] = row[e] /\ posted'[e] = posted[e] /\ lost'[e] = lost[e]

\* No other handler is inside the lock.
Alone(e, c) == \A d \in Connections : copy[e][d] \in Inside => d = c

\* The step writes nothing but its copy and, alone, what belongs to its event.
Touches(e, c) ==
    /\ DeliveryTypeOK'
    /\ \A f \in Completions \ {e} : /\ row'[f] = row[f] /\ copy'[f] = copy[f]
                                    /\ posted'[f] = posted[f] /\ lost'[f] = lost[f]
    /\ \A d \in Connections \ {c} : copy'[e][d] = copy[e][d]
    /\ copy'[e][c] \in Inside => Alone(e, c)
    /\ Same(e) \/ (Alone(e, c) /\ row'[e].status # "ABSENT")

LEMMA HandlerStep ==
  ASSUME IInv, NEW e \in Completions, NEW c \in Connections, Touches(e, c),
         RowKnows(e)', CopyKnows(e, c)'
  PROVE  IInv'
  <1>1. DeliveryTypeOK'
    BY DEF Touches
  <1>2. OneHolder'
    BY DEF IInv, OneHolder, Touches, Alone
  <1>3. \A f \in Completions : RowKnows(f)'
    BY DEF IInv, RowKnows, Touches
  <1>4. ASSUME NEW f \in Completions, NEW d \in Connections
        PROVE  CopyKnows(f, d)'
    <2>1. CASE f # e
      BY <2>1, <1>4 DEF IInv, CopyKnows, Touches
    <2>2. CASE f = e /\ d # c
      <3>1. copy'[e][d] = copy[e][d] /\ CopyKnows(e, d)
        BY <2>2 DEF IInv, Touches
      <3>2. CASE Same(e)
        BY <3>1, <3>2, <2>2 DEF CopyKnows, Same
      <3>3. CASE Alone(e, c) /\ row'[e].status # "ABSENT"
        <4>1. copy[e][d] \notin Inside
          BY <3>3, <2>2 DEF Alone
        <4> QED BY <4>1, <3>1, <3>3, <2>2 DEF CopyKnows, Inside
      <3> QED BY <3>2, <3>3 DEF Touches
    <2> QED BY <2>1, <2>2
  <1> QED BY <1>1, <1>2, <1>3, <1>4 DEF IInv

-----------------------------------------------------------------------------
(* The actions.                                                             *)

LEMMA MovesFacts ==
  ASSUME DeliveryTypeOK, NEW e \in Completions, NEW c \in Connections, NEW pc \in CopyState,
         Moves(e, c, pc)
  PROVE  /\ copy' \in [Completions -> [Connections -> CopyState]]
         /\ copy'[e][c] = pc
         /\ \A f \in Completions \ {e} : copy'[f] = copy[f]
         /\ \A d \in Connections \ {c} : copy'[e][d] = copy[e][d]
  BY DEF DeliveryTypeOK, Moves

LEMMA TroubleFacts == ASSUME DeliveryTypeOK, Trouble PROVE troubles' \in 0..MaxTroubles
  BY DeliveryAssumption DEF DeliveryTypeOK, Trouble

LEMMA ArriveInv ==
  ASSUME IInv, NEW e \in Completions, NEW c \in Connections, Arrive(e, c)
  PROVE  IInv'
  <1> USE DEF IInv, DeliveryTypeOK
  <1>1. Moves(e, c, "pipeline") /\ "pipeline" \in CopyState /\ copy[e][c] = "none"
    BY DEF Arrive, CopyState
  <1>2. row' \in [Completions -> [status : Status, attempts : Nat]]
        /\ UNCHANGED <<posted, lost, remembered, up, troubles>>
    BY DEF Arrive, SetRow, Status
  <1>3. CASE row[e].status = "ABSENT"
    <2>1. row'[e] = [row[e] EXCEPT !.status = "PENDING"]
          /\ \A f \in Completions \ {e} : row'[f] = row[f]
      BY <1>3 DEF Arrive, SetRow
    <2>2. \A d \in Connections : copy[e][d] \notin Inside
      BY <1>3 DEF CopyKnows, Inside
    <2>3. Touches(e, c)
      BY <1>1, <1>2, <2>1, <2>2, MovesFacts DEF Touches, Alone, Inside
    <2>4. RowKnows(e)' /\ CopyKnows(e, c)'
      BY <1>1, <1>2, <1>3, <2>1, MovesFacts DEF RowKnows, CopyKnows
    <2> QED BY <2>3, <2>4, HandlerStep
  <1>4. CASE row[e].status # "ABSENT"
    <2>1. row' = row
      BY <1>4 DEF Arrive
    <2>2. Touches(e, c)
      BY <1>1, <1>2, <2>1, MovesFacts DEF Touches, Same, Inside
    <2>3. RowKnows(e)' /\ CopyKnows(e, c)'
      BY <1>1, <1>2, <1>4, <2>1, MovesFacts DEF RowKnows, CopyKnows
    <2> QED BY <2>2, <2>3, HandlerStep
  <1> QED BY <1>3, <1>4

\* A handler that ends, and writes no row, or one that waits for the lock.
LEMMA QuietInv ==
  ASSUME IInv, NEW e \in Completions, NEW c \in Connections,
         NEW pc \in CopyState \ (Inside \cup {"pipeline"}),
         pc = "lock" => copy[e][c] = "pipeline",
         Moves(e, c, pc), row' = row, posted' = posted, lost' \in [Completions -> Nat],
         lost' = lost \/ (/\ copy[e][c] = "posted"
                          /\ lost' = [lost EXCEPT ![e] = @ + 1]),
         remembered' \subseteq Completions, up' \in BOOLEAN, troubles' \in 0..MaxTroubles
  PROVE  IInv'
  <1> USE DEF IInv, DeliveryTypeOK
  <1>1. CASE lost' = lost
    <2>1. Touches(e, c)
      BY <1>1, MovesFacts DEF Touches, Same
    <2>2. RowKnows(e)' /\ CopyKnows(e, c)'
      BY <1>1, MovesFacts DEF RowKnows, CopyKnows, Inside
    <2> QED BY <2>1, <2>2, HandlerStep
  <1>2. CASE copy[e][c] = "posted" /\ lost' = [lost EXCEPT ![e] = @ + 1]
    <2>1. Alone(e, c) /\ row[e].status = "SENDING" /\ posted[e] = lost[e] + 1
      BY <1>2 DEF OneHolder, Alone, CopyKnows, Inside
    <2>2. Touches(e, c)
      BY <1>2, <2>1, MovesFacts DEF Touches
    <2>3. RowKnows(e)' /\ CopyKnows(e, c)'
      BY <1>2, <2>1, MovesFacts DEF RowKnows, CopyKnows, Inside
    <2> QED BY <2>2, <2>3, HandlerStep
  <1> QED BY <1>1, <1>2

LEMMA AttemptInv ==
  ASSUME IInv, NEW e \in Completions, NEW c \in Connections, Alone(e, c),
         row[e].status \in {"PENDING", "FAILED"}, Attempt(e, c), UNCHANGED <<up, posted, lost>>
  PROVE  IInv'
  <1> USE DEF IInv, DeliveryTypeOK
  <1>1. CASE /\ row' = [row EXCEPT ![e] = BeginDelivery(@)]
             /\ Moves(e, c, "sending")
             /\ UNCHANGED <<remembered, troubles>>
    <2>1. row'[e] = [status |-> "SENDING", attempts |-> row[e].attempts + 1]
          /\ row' \in [Completions -> [status : Status, attempts : Nat]]
          /\ \A f \in Completions \ {e} : row'[f] = row[f]
      BY <1>1 DEF BeginDelivery, Status
    <2>2. "sending" \in CopyState
      BY DEF CopyState
    <2>3. Touches(e, c)
      BY <1>1, <2>1, <2>2, MovesFacts DEF Touches
    <2>4. RowKnows(e)' /\ CopyKnows(e, c)'
      BY <1>1, <2>1, <2>2, MovesFacts DEF RowKnows, CopyKnows
    <2> QED BY <2>3, <2>4, HandlerStep
  <1>2. CASE Raise(e, c) /\ UNCHANGED row /\ troubles' \in 0..MaxTroubles
    BY <1>2, QuietInv DEF Raise, CopyState, Inside
  <1> QED BY <1>1, <1>2, DeliveryAssumption DEF Attempt, Trouble

LEMMA DeliverableInv ==
  ASSUME IInv, NEW e \in Completions, NEW c \in Connections, Holders(e) = {},
         copy[e][c] \in {"pipeline", "lock"}, Deliverable(e, c)
  PROVE  IInv'
  <1>1. CASE Settled(row[e])
    BY <1>1, QuietInv DEF Deliverable, Return, CopyState, Inside, IInv, DeliveryTypeOK
  <1>2. CASE ~Settled(row[e])
    <2>1. row[e].status \in {"PENDING", "FAILED"}
      BY <1>2 DEF IInv, CopyKnows, Settled, DeliveryTypeOK, Status
    <2>2. Alone(e, c)
      BY DEF Holders, Alone
    <2> QED BY <1>2, <2>1, <2>2, AttemptInv DEF Deliverable
  <1> QED BY <1>1, <1>2

LEMMA DeliverInv ==
  ASSUME IInv, NEW e \in Completions, NEW c \in Connections,
         Deliver(e, c) \/ AcquireEvent(e, c)
  PROVE  IInv'
  <1>1. CASE copy[e][c] = "pipeline" /\ EventFree(e) /\ Deliverable(e, c)
    BY <1>1, DeliverableInv DEF EventFree
  <1>2. CASE /\ copy[e][c] = "pipeline" /\ Moves(e, c, "lock")
             /\ UNCHANGED <<row, remembered, up, posted, lost, troubles>>
    BY <1>2, QuietInv DEF CopyState, Inside, IInv, DeliveryTypeOK
  <1>3. CASE AcquireEvent(e, c)
    BY <1>3, DeliverableInv DEF AcquireEvent
  <1> QED BY <1>1, <1>2, <1>3 DEF Deliver

LEMMA PostsInv ==
  ASSUME IInv, NEW e \in Completions, NEW c \in Connections, Posts(e, c)
  PROVE  IInv'
  <1> USE DEF IInv, DeliveryTypeOK
  <1>1. Alone(e, c) /\ CopyKnows(e, c) /\ copy[e][c] = "sending"
    BY DEF OneHolder, Alone, Posts, Inside
  <1>2. Moves(e, c, "posted") /\ "posted" \in CopyState
    BY DEF Posts, CopyState
  <1>3. Touches(e, c)
    BY <1>1, <1>2, MovesFacts DEF Touches, Posts, CopyKnows
  <1>4. RowKnows(e)' /\ CopyKnows(e, c)'
    BY <1>1, <1>2, MovesFacts DEF RowKnows, CopyKnows, Posts
  <1> QED BY <1>3, <1>4, HandlerStep

LEMMA ConfirmedInv ==
  ASSUME IInv, NEW e \in Completions, NEW c \in Connections, Confirmed(e, c)
  PROVE  IInv'
  <1> USE DEF IInv, DeliveryTypeOK
  <1>1. Alone(e, c) /\ CopyKnows(e, c) /\ copy[e][c] = "posted"
    BY DEF OneHolder, Alone, Confirmed, Inside
  <1>2. CASE MarkSent(e) /\ Return(e, c) /\ UNCHANGED troubles
    <2>1. row'[e] = [row[e] EXCEPT !.status = "SENT"]
          /\ row' \in [Completions -> [status : Status, attempts : Nat]]
          /\ \A f \in Completions \ {e} : row'[f] = row[f]
      BY <1>2 DEF MarkSent, SetRow, Status
    <2>2. Moves(e, c, "returned") /\ "returned" \in CopyState
      BY <1>2 DEF Return, CopyState
    <2>3. Touches(e, c)
      BY <1>1, <1>2, <2>1, <2>2, MovesFacts DEF Touches, Confirmed, Return
    <2>4. RowKnows(e)' /\ CopyKnows(e, c)'
      BY <1>1, <2>1, <2>2, MovesFacts DEF RowKnows, CopyKnows, Confirmed
    <2> QED BY <2>3, <2>4, HandlerStep
  <1>3. CASE Trouble /\ Raise(e, c) /\ UNCHANGED row
    <2>1. "raised" \in CopyState \ (Inside \cup {"pipeline"}) /\ Moves(e, c, "raised")
      BY <1>3 DEF Raise, CopyState, Inside
    <2>2. UNCHANGED <<row, remembered, up, posted, lost>>
      BY <1>3 DEF Raise, Confirmed
    <2> QED BY <1>3, <2>1, <2>2, TroubleFacts, QuietInv
  <1> QED BY <1>2, <1>3 DEF Confirmed

LEMMA SendFailsInv ==
  ASSUME IInv, NEW e \in Completions, NEW c \in Connections, SendFails(e, c)
  PROVE  IInv'
  <1> USE DEF IInv, DeliveryTypeOK
  <1>1. Alone(e, c) /\ CopyKnows(e, c) /\ copy[e][c] \in {"sending", "posted"}
    BY DEF OneHolder, Alone, SendFails, Inside
  <1>2. /\ lost' \in [Completions -> Nat]
        /\ \A f \in Completions \ {e} : lost'[f] = lost[f]
        /\ lost'[e] = posted[e] /\ UNCHANGED <<up, posted>>
    BY <1>1 DEF SendFails, CopyKnows
  <1>3. CASE MarkFailed(e) /\ UNCHANGED <<troubles, remembered>>
             /\ (Moves(e, c, "backoff") \/ Moves(e, c, "raised"))
    <2>1. row'[e] = [row[e] EXCEPT !.status = "FAILED"]
          /\ row' \in [Completions -> [status : Status, attempts : Nat]]
          /\ \A f \in Completions \ {e} : row'[f] = row[f]
      BY <1>3 DEF MarkFailed, SetRow, Status
    <2>2. PICK pc \in CopyState : Moves(e, c, pc) /\ pc \in {"backoff", "raised"}
      BY <1>3 DEF CopyState
    <2>3. Touches(e, c)
      BY <1>1, <1>2, <1>3, <2>1, <2>2, MovesFacts DEF Touches
    <2>4. RowKnows(e)' /\ CopyKnows(e, c)'
      BY <1>1, <1>2, <2>1, <2>2, MovesFacts DEF RowKnows, CopyKnows
    <2> QED BY <2>3, <2>4, HandlerStep
  <1>4. CASE Trouble /\ Raise(e, c) /\ UNCHANGED row
    <2>1. "raised" \in CopyState \ (Inside \cup {"pipeline"}) /\ Moves(e, c, "raised")
      BY <1>4 DEF Raise, CopyState, Inside
    <2>2. lost' = lost \/ (copy[e][c] = "posted" /\ lost' = [lost EXCEPT ![e] = @ + 1])
      BY DEF SendFails
    <2>3. remembered' = remembered /\ troubles' \in 0..MaxTroubles
      BY <1>4, TroubleFacts DEF Raise
    <2> QED BY <1>2, <1>4, <2>1, <2>2, <2>3, QuietInv
  <1> QED BY <1>3, <1>4 DEF SendFails, Raise

LEMMA RetryInv ==
  ASSUME IInv, NEW e \in Completions, NEW c \in Connections, Retry(e, c)
  PROVE  IInv'
  <1>1. Alone(e, c) /\ row[e].status = "FAILED"
    BY DEF IInv, OneHolder, Alone, CopyKnows, Retry, Inside
  <1> QED BY <1>1, AttemptInv DEF Retry

LEMMA DuplicateInv ==
  ASSUME IInv, NEW e \in Completions, NEW c \in Connections, Duplicate(e, c)
  PROVE  IInv'
  <1>1. "returned" \in CopyState \ (Inside \cup {"pipeline"}) /\ Moves(e, c, "returned")
    BY DEF Duplicate, CopyState, Inside
  <1>2. UNCHANGED <<row, remembered, up, posted, lost, troubles>>
    BY DEF Duplicate
  <1> QED BY <1>1, <1>2, QuietInv DEF IInv, DeliveryTypeOK

LEMMA DiesInv == ASSUME IInv, Dies PROVE IInv'
  <1> USE DEF IInv
  <1>1. DeliveryTypeOK'
    <2>1. \A pc \in CopyState : Lost(pc) \in CopyState
      BY DEF Lost, CopyState
    <2>2. copy' \in [Completions -> [Connections -> CopyState]]
      BY <2>1 DEF DeliveryTypeOK, Dies
    <2>3. troubles' \in 0..MaxTroubles
      BY TroubleFacts DEF Dies
    <2>4. UNCHANGED <<row, posted, lost>> /\ remembered' = {} /\ up' = FALSE
      BY DEF Dies
    <2> QED BY <2>2, <2>3, <2>4 DEF DeliveryTypeOK
  <1>2. \A e \in Completions, c \in Connections :
            copy'[e][c] \in {"none", "returned", "raised", "lost"}
    BY DEF Dies, Lost
  <1>3. OneHolder' /\ \A e \in Completions, c \in Connections : CopyKnows(e, c)'
    BY <1>2 DEF OneHolder, CopyKnows, Inside
  <1>4. \A e \in Completions : RowKnows(e)'
    BY DEF RowKnows, Dies
  <1> QED BY <1>1, <1>3, <1>4

LEMMA IInvStep == IInv /\ [DeliveryNext]_deliveryVars => IInv'
  <1> SUFFICES ASSUME IInv, [DeliveryNext]_deliveryVars PROVE IInv'
    OBVIOUS
  <1>1. ASSUME NEW e \in Completions, NEW c \in Connections,
               Arrive(e, c) \/ Duplicate(e, c) \/ Handle(e, c) \/ Posts(e, c)
        PROVE  IInv'
    BY <1>1, ArriveInv, DuplicateInv, DeliverInv, ConfirmedInv, SendFailsInv, RetryInv, PostsInv
       DEF Handle
  <1>2. CASE Restart
    BY <1>2 DEF Restart, IInv, DeliveryTypeOK, OneHolder, RowKnows, CopyKnows
  <1>3. CASE UNCHANGED deliveryVars
    BY <1>3 DEF deliveryVars, IInv, DeliveryTypeOK, OneHolder, RowKnows, CopyKnows
  <1> QED BY <1>1, <1>2, <1>3, DiesInv DEF DeliveryNext, NothingComes

LEMMA Inductive == DeliverySpec => []IInv
  BY InitInv, IInvStep, PTL DEF DeliverySpec

-----------------------------------------------------------------------------
(* Theorems.                                                                *)

\* A completion is shown twice only if the answer to its first message was lost, and
\* SENT and PENDING or FAILED can be believed, through retries, repeated notifies,
\* crashes and busy transactions (CompletionNotifier.deliver).
THEOREM AnswersDecide == DeliverySpec => []DuplicateNeedsLostAnswer
  <1>1. IInv => DuplicateNeedsLostAnswer
    BY DEF IInv, DeliveryTypeOK, DuplicateNeedsLostAnswer, RowKnows, Status
  <1> QED BY <1>1, Inductive, PTL

\* A delivery that was sent, or interrupted between its two transactions, is never sent
\* again: no later notify and no later start of the service touches it.
THEOREM SettledForEver == DeliverySpec => SettledStaysSettled
  <1> DEFINE Closed(e) == row[e].status = "SENT" \/ (row[e].status = "SENDING" /\ Holders(e) = {})
             A == \A e \in Completions : Closed(e) => row'[e] = row[e] /\ posted'[e] = posted[e]
  <1>1. IInv /\ [DeliveryNext]_deliveryVars => [A]_deliveryVars
    <2> SUFFICES ASSUME IInv, DeliveryNext, NEW e \in Completions, Closed(e)
                 PROVE  row'[e] = row[e] /\ posted'[e] = posted[e]
      OBVIOUS
    <2>1. \A c \in Connections : copy[e][c] \notin Inside
      BY DEF IInv, CopyKnows, Holders, Inside
    <2>2. ASSUME NEW f \in Completions, NEW c \in Connections,
                 Arrive(f, c) \/ Duplicate(f, c) \/ Handle(f, c) \/ Posts(f, c)
          PROVE  row'[e] = row[e] /\ posted'[e] = posted[e]
      <3>1. CASE Arrive(f, c) \/ Duplicate(f, c)
        BY <3>1 DEF Arrive, Duplicate, SetRow, IInv, DeliveryTypeOK
      <3>2. CASE Deliver(f, c) \/ AcquireEvent(f, c)
        BY <3>2 DEF Deliver, AcquireEvent, Deliverable, Settled, Attempt, IInv, DeliveryTypeOK
      <3>3. CASE Confirmed(f, c) \/ SendFails(f, c) \/ Retry(f, c) \/ Posts(f, c)
        <4>1. copy[f][c] \in Inside /\ f # e
          BY <3>3, <2>1 DEF Confirmed, SendFails, Retry, Posts, Inside
        <4> QED BY <3>3, <4>1 DEF Confirmed, SendFails, Retry, Posts, MarkSent, MarkFailed,
                                  SetRow, Attempt, IInv, DeliveryTypeOK
      <3> QED BY <2>2, <3>1, <3>2, <3>3 DEF Handle
    <2>3. CASE Dies \/ Restart \/ NothingComes
      BY <2>3 DEF Dies, Restart, NothingComes, deliveryVars
    <2> QED BY <2>2, <2>3 DEF DeliveryNext
  <1> QED BY <1>1, Inductive, PTL DEF DeliverySpec, SettledStaysSettled

-----------------------------------------------------------------------------
(* The refinement.                                                          *)

Entry == [e \in Completions |-> EntryOf(row[e].status)]
Tries == [e \in Completions |-> row[e].attempts]

\* What the state of one event is to Outbox.
Shows(e, entry, tries, copies) ==
    EntryOf(row[e].status) = entry /\ row[e].attempts = tries /\ posted[e] = copies

\* A step about one event is a step of Outbox if it is one for that event.
LEMMA StepOfOne ==
  ASSUME DeliveryTypeOK, DeliveryTypeOK', NEW e \in Completions,
         \A f \in Completions \ {e} : row'[f] = row[f] /\ posted'[f] = posted[f]
  PROVE  /\ Entry' = [Entry EXCEPT ![e] = EntryOf(row'[e].status)]
         /\ Tries' = [Tries EXCEPT ![e] = row'[e].attempts]
         /\ posted' = [posted EXCEPT ![e] = posted'[e]]
  BY DEF Entry, Tries, DeliveryTypeOK

LEMMA InitRefines == DeliveryInit => Outbox!Init
  BY DEF DeliveryInit, Outbox!Init, EntryOf

LEMMA RecordRefines ==
  ASSUME IInv, IInv', NEW e \in Completions, NEW c \in Connections, Arrive(e, c)
  PROVE  [Outbox!Next]_<<Entry, Tries, posted>>
  <1>1. CASE row[e].status = "ABSENT"
    <2>1. row'[e] = [row[e] EXCEPT !.status = "PENDING"] /\ posted' = posted
          /\ \A f \in Completions \ {e} : row'[f] = row[f]
      BY <1>1 DEF Arrive, SetRow, IInv, DeliveryTypeOK
    <2>2. Entry[e] = "none" /\ EntryOf(row'[e].status) = "open" /\ row'[e].attempts = row[e].attempts
      BY <1>1, <2>1 DEF Entry, EntryOf, IInv, DeliveryTypeOK
    <2>3. Entry' = [Entry EXCEPT ![e] = "open"] /\ Tries' = Tries
      BY <2>1, <2>2, StepOfOne DEF IInv, Tries
    <2>4. Outbox!Record(e)
      BY <2>1, <2>2, <2>3 DEF Outbox!Record, Entry, Tries
    <2> QED BY <2>4 DEF Outbox!Next
  <1>2. CASE row[e].status # "ABSENT"
    BY <1>2 DEF Arrive, Entry, Tries
  <1> QED BY <1>1, <1>2

LEMMA AttemptRefines ==
  ASSUME IInv, IInv', NEW e \in Completions, NEW c \in Connections,
         row[e].status \in {"PENDING", "FAILED"}, Attempt(e, c), posted' = posted
  PROVE  [Outbox!Next]_<<Entry, Tries, posted>>
  <1>1. CASE row' = row
    BY <1>1 DEF Entry, Tries
  <1>2. CASE HasBudget(row[e]) /\ row' = [row EXCEPT ![e] = BeginDelivery(@)]
    <2>1. row'[e] = [status |-> "SENDING", attempts |-> row[e].attempts + 1]
          /\ \A f \in Completions \ {e} : row'[f] = row[f]
      BY <1>2 DEF BeginDelivery, IInv, DeliveryTypeOK
    <2>2. /\ Entry[e] = "open" /\ EntryOf(row'[e].status) = "trying"
          /\ Tries[e] = row[e].attempts /\ row[e].attempts < RetryAttempts
      BY <1>2, <2>1 DEF Entry, EntryOf, Tries, HasBudget
    <2>3. Entry' = [Entry EXCEPT ![e] = "trying"] /\ Tries' = [Tries EXCEPT ![e] = @ + 1]
      BY <2>1, <2>2, StepOfOne DEF IInv
    <2>4. Outbox!Try(e)
      BY <2>2, <2>3 DEF Outbox!Try, Entry, Tries
    <2> QED BY <2>4 DEF Outbox!Next
  <1> QED BY <1>1, <1>2 DEF Attempt

LEMMA DeliverRefines ==
  ASSUME IInv, IInv', NEW e \in Completions, NEW c \in Connections,
         Deliver(e, c) \/ AcquireEvent(e, c) \/ Retry(e, c)
  PROVE  [Outbox!Next]_<<Entry, Tries, posted>>
  <1>1. CASE row' = row /\ posted' = posted
    BY <1>1 DEF Entry, Tries
  <1>2. CASE copy[e][c] \in {"pipeline", "lock"} /\ ~Settled(row[e]) /\ Attempt(e, c)
             /\ posted' = posted
    <2>1. row[e].status \in {"PENDING", "FAILED"}
      BY <1>2 DEF IInv, CopyKnows, Settled, DeliveryTypeOK, Status
    <2> QED BY <1>2, <2>1, AttemptRefines
  <1>3. CASE Retry(e, c)
    BY <1>3, AttemptRefines DEF Retry, IInv, CopyKnows
  <1> QED BY <1>1, <1>2, <1>3 DEF Deliver, AcquireEvent, Deliverable

LEMMA PostsRefines ==
  ASSUME IInv, IInv', NEW e \in Completions, NEW c \in Connections, Posts(e, c)
  PROVE  [Outbox!Next]_<<Entry, Tries, posted>>
  <1>1. Entry[e] = "trying" /\ posted[e] < Tries[e]
    BY DEF Posts, IInv, CopyKnows, Entry, EntryOf, Tries
  <1>2. row' = row /\ posted' = [posted EXCEPT ![e] = @ + 1]
    BY DEF Posts
  <1>3. Outbox!Land(e)
    BY <1>1, <1>2 DEF Outbox!Land, Entry, Tries
  <1> QED BY <1>3 DEF Outbox!Next

LEMMA ConfirmedRefines ==
  ASSUME IInv, IInv', NEW e \in Completions, NEW c \in Connections, Confirmed(e, c)
  PROVE  [Outbox!Next]_<<Entry, Tries, posted>>
  <1>1. posted' = posted /\ row[e].status = "SENDING" /\ posted[e] = lost[e] + 1
    BY DEF Confirmed, IInv, CopyKnows
  <1>2. CASE row' = row
    BY <1>1, <1>2 DEF Entry, Tries
  <1>3. CASE MarkSent(e)
    <2>1. row'[e] = [row[e] EXCEPT !.status = "SENT"]
          /\ \A f \in Completions \ {e} : row'[f] = row[f]
      BY <1>3 DEF MarkSent, SetRow, IInv, DeliveryTypeOK
    <2>2. /\ Entry[e] = "trying" /\ posted[e] > 0
          /\ EntryOf(row'[e].status) = "delivered" /\ row'[e].attempts = row[e].attempts
      BY <1>1, <2>1 DEF Entry, EntryOf, IInv, DeliveryTypeOK
    <2>3. Entry' = [Entry EXCEPT ![e] = "delivered"] /\ Tries' = Tries
      BY <1>1, <2>1, <2>2, StepOfOne DEF IInv, Tries
    <2>4. Outbox!Confirm(e)
      BY <1>1, <2>2, <2>3 DEF Outbox!Confirm, Entry, Tries
    <2> QED BY <2>4 DEF Outbox!Next
  <1> QED BY <1>2, <1>3 DEF Confirmed

LEMMA SendFailsRefines ==
  ASSUME IInv, IInv', NEW e \in Completions, NEW c \in Connections, SendFails(e, c)
  PROVE  [Outbox!Next]_<<Entry, Tries, posted>>
  <1>1. posted' = posted /\ row[e].status = "SENDING"
    BY DEF SendFails, IInv, CopyKnows
  <1>2. CASE row' = row
    BY <1>1, <1>2 DEF Entry, Tries
  <1>3. CASE MarkFailed(e)
    <2>1. row'[e] = [row[e] EXCEPT !.status = "FAILED"]
          /\ \A f \in Completions \ {e} : row'[f] = row[f]
      BY <1>3 DEF MarkFailed, SetRow, IInv, DeliveryTypeOK
    <2>2. /\ Entry[e] = "trying"
          /\ EntryOf(row'[e].status) = "open" /\ row'[e].attempts = row[e].attempts
      BY <1>1, <2>1 DEF Entry, EntryOf, IInv, DeliveryTypeOK
    <2>3. Entry' = [Entry EXCEPT ![e] = "open"] /\ Tries' = Tries
      BY <1>1, <2>1, <2>2, StepOfOne DEF IInv, Tries
    <2>4. Outbox!Reopen(e)
      BY <1>1, <2>2, <2>3 DEF Outbox!Reopen, Entry, Tries
    <2> QED BY <2>4 DEF Outbox!Next
  <1> QED BY <1>2, <1>3 DEF SendFails

LEMMA StepRefines ==
  IInv /\ IInv' /\ [DeliveryNext]_deliveryVars => [Outbox!Next]_<<Entry, Tries, posted>>
  <1> SUFFICES ASSUME IInv, IInv', [DeliveryNext]_deliveryVars
               PROVE  [Outbox!Next]_<<Entry, Tries, posted>>
    OBVIOUS
  <1>1. ASSUME NEW e \in Completions, NEW c \in Connections,
               Arrive(e, c) \/ Duplicate(e, c) \/ Handle(e, c) \/ Posts(e, c)
        PROVE  [Outbox!Next]_<<Entry, Tries, posted>>
    <2>1. CASE Duplicate(e, c)
      BY <2>1 DEF Duplicate, Entry, Tries
    <2> QED BY <1>1, <2>1, RecordRefines, DeliverRefines, PostsRefines, ConfirmedRefines,
               SendFailsRefines DEF Handle
  <1>2. CASE Dies \/ Restart \/ UNCHANGED deliveryVars
    BY <1>2 DEF Dies, Restart, deliveryVars, Entry, Tries
  <1> QED BY <1>1, <1>2 DEF DeliveryNext, NothingComes

\* The promise of the outbox: a completion is tried a bounded number of times, one try
\* after the other, and a try that was neither confirmed nor refused is never repeated,
\* whatever handlers, repeated notifies, crashes and busy transactions it is made of.
THEOREM OutboxImplemented == DeliverySpec => ImplementsOutbox
  <1>1. IInv /\ IInv' /\ [DeliveryNext]_deliveryVars =>
            [Outbox!Next]_<<[e \in Completions |-> EntryOf(row[e].status)],
                            [e \in Completions |-> row[e].attempts], posted>>
    BY StepRefines DEF Entry, Tries
  <1> QED BY <1>1, InitRefines, Inductive, PTL DEF DeliverySpec, ImplementsOutbox, Outbox!Spec
=============================================================================
