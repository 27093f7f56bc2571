------------------------------ MODULE Delivery ------------------------------
(***************************************************************************)
(* The completion outbox: CompletionNotifier.deliver, the delivery rows it *)
(* claims and closes, and Discord on the other side                        *)
(* (src/codex_dispatch/completion_notifier.py; get_, begin_ and mark_      *)
(* discord_delivery of database.py).  A copy of an event is one connection *)
(* that brought its notify and passed the duplicate check of the server.   *)
(*                                                                         *)
(* deliver holds the lock of its event across every await, so an action is *)
(* one of its stretches between two awaits.  The row is committed before   *)
(* the request is sent and after it was answered: a crash, or a busy       *)
(* database, can fall between.  The waiters of a lock are interchangeable  *)
(* copies: their order is left out.                                        *)
(***************************************************************************)
EXTENDS Naturals, FiniteSets

CONSTANTS
    Completions,    \* notify events of mapped sessions
    Connections,    \* connections that may bring the notify of one event
    RetryAttempts,  \* retry_attempts
    MaxTroubles     \* bound: crashes and busy transactions in a behaviour

ASSUME DeliveryAssumption == RetryAttempts \in Nat \ {0} /\ MaxTroubles \in Nat

VARIABLES
    row,         \* discord_deliveries: status and attempts
    copy,        \* the coroutine that handles copy c of event e
    remembered,  \* NotifyServer._seen
    up,          \* the service runs
    posted,      \* external: messages in the Discord thread for event e
    lost,        \* ghost: messages that were posted but answered with an exception
    troubles     \* ghost: faults so far

deliveryVars == <<row, copy, remembered, up, posted, lost, troubles>>

Status == {"ABSENT", "PENDING", "SENDING", "SENT", "FAILED"}
\* "sending": Discord has not decided; "posted": the answer is on its way;
\* "raised": the exception ends the handler; "lost": cancelled with the process.
CopyState == {"none", "pipeline", "lock", "sending", "posted", "backoff",
              "returned", "raised", "lost"}
Inside == {"sending", "posted", "backoff"}

\* The coroutines inside deliver's critical section for e.
Holders(e) == {c \in Connections : copy[e][c] \in Inside}

DeliveryTypeOK == /\ row \in [Completions -> [status : Status, attempts : Nat]]
                  /\ copy \in [Completions -> [Connections -> CopyState]]
                  /\ remembered \subseteq Completions
                  /\ up \in BOOLEAN
                  /\ posted \in [Completions -> Nat]
                  /\ lost \in [Completions -> Nat]
                  /\ troubles \in 0..MaxTroubles

DeliveryInit == /\ row = [e \in Completions |-> [status |-> "ABSENT", attempts |-> 0]]
                /\ copy = [e \in Completions |-> [c \in Connections |-> "none"]]
                /\ remembered = {}
                /\ up = TRUE
                /\ posted = [e \in Completions |-> 0]
                /\ lost = [e \in Completions |-> 0]
                /\ troubles = 0

Trouble == troubles < MaxTroubles /\ troubles' = troubles + 1

SetRow(e, s) == row' = [row EXCEPT ![e].status = s]
Moves(e, c, pc) == copy' = [copy EXCEPT ![e][c] = pc]

-----------------------------------------------------------------------------
(* The transactions on a delivery row.                                      *)

\* begin_discord_delivery
BeginDelivery(r) == IF r.status \in {"PENDING", "FAILED"}
                    THEN [status |-> "SENDING", attempts |-> r.attempts + 1]
                    ELSE r

\* mutant: a failed attempt is not counted
MarkFailedUncounted(e) ==
    row' = [row EXCEPT ![e] = [status |-> "FAILED", attempts |-> @.attempts - 1]]

\* mark_discord_delivery_failed of a row that is SENDING
MarkFailed(e) == SetRow(e, "FAILED")

\* mark_discord_delivery_sent of a row that is SENDING
MarkSent(e) == SetRow(e, "SENT")

-----------------------------------------------------------------------------
(* deliver.                                                                 *)

\* The notify is registered with its delivery row (register_notify) and goes on
\* through the pipeline to deliver.
Arrive(e, c) ==
    /\ up /\ e \notin remembered /\ copy[e][c] = "none"
    /\ Moves(e, c, "pipeline")
    /\ IF row[e].status = "ABSENT" THEN SetRow(e, "PENDING") ELSE UNCHANGED row
    /\ UNCHANGED <<remembered, up, posted, lost, troubles>>

\* A remembered event is acknowledged at once.
Duplicate(e, c) == /\ up /\ e \in remembered /\ copy[e][c] = "none"
                   /\ Moves(e, c, "returned")
                   /\ UNCHANGED <<row, remembered, up, posted, lost, troubles>>

\* The handler returns and the server remembers the event.
Return(e, c) == /\ Moves(e, c, "returned")
                /\ remembered' = remembered \cup {e}

\* An exception leaves deliver: the event is not remembered.
Raise(e, c) == /\ Moves(e, c, "raised")
               /\ UNCHANGED remembered

\* mutant: the first look at the row is believed to be enough
SettledIfSent(r) == r.status = "SENT"

\* Nothing is sent for a row that is confirmed, or that was interrupted.
Settled(r) == r.status \in {"SENT", "SENDING"}

\* mutant: the last attempt is not made
HasSpareBudget(r) == r.attempts + 1 < RetryAttempts

HasBudget(r) == r.attempts < RetryAttempts

\* The head of the loop: claim the row and send, or give up.  Only the holder of
\* the lock writes the row, so begin finds it PENDING or FAILED.
Attempt(e, c) ==
    \/ /\ HasBudget(row[e])
       /\ row' = [row EXCEPT ![e] = BeginDelivery(@)]
       /\ Moves(e, c, "sending")
       /\ UNCHANGED <<remembered, troubles>>
    \/ /\ HasBudget(row[e]) /\ Trouble     \* begin finds the database busy
       /\ Raise(e, c) /\ UNCHANGED row
    \/ /\ ~HasBudget(row[e])
       /\ Raise(e, c) /\ UNCHANGED <<row, troubles>>

Deliverable(e, c) ==
    /\ \/ Settled(row[e]) /\ Return(e, c) /\ UNCHANGED <<row, troubles>>
       \/ ~Settled(row[e]) /\ Attempt(e, c)
    /\ UNCHANGED <<up, posted, lost>>

EventFree(e) == Holders(e) = {} /\ \A c \in Connections : copy[e][c] # "lock"

Deliver(e, c) ==
    /\ copy[e][c] = "pipeline"
    /\ \/ EventFree(e) /\ Deliverable(e, c)
       \/ /\ ~EventFree(e) /\ Moves(e, c, "lock")
          /\ UNCHANGED <<row, remembered, up, posted, lost, troubles>>

AcquireEvent(e, c) == /\ copy[e][c] = "lock" /\ Holders(e) = {}
                      /\ Deliverable(e, c)

\* external: the message is in the thread, its answer not yet here.
Posts(e, c) == /\ copy[e][c] = "sending"
               /\ posted' = [posted EXCEPT ![e] = @ + 1]
               /\ Moves(e, c, "posted")
               /\ UNCHANGED <<row, remembered, up, lost, troubles>>

\* send_text has returned the id of the message.
Confirmed(e, c) ==
    /\ copy[e][c] = "posted"
    /\ \/ MarkSent(e) /\ Return(e, c) /\ UNCHANGED troubles
       \/ Trouble /\ Raise(e, c) /\ UNCHANGED row    \* busy: the row stays SENDING
    /\ UNCHANGED <<up, posted, lost>>

\* send_text has raised: a refusal, or the answer to a posted message was lost.
SendFails(e, c) ==
    /\ copy[e][c] \in {"sending", "posted"}
    /\ lost' = IF copy[e][c] = "posted" THEN [lost EXCEPT ![e] = @ + 1] ELSE lost
    /\ \/ /\ MarkFailed(e) /\ UNCHANGED troubles
          /\ IF HasBudget(row[e]) THEN Moves(e, c, "backoff") /\ UNCHANGED remembered
             ELSE Raise(e, c)
       \/ Trouble /\ Raise(e, c) /\ UNCHANGED row    \* busy: the row stays SENDING
    /\ UNCHANGED <<up, posted>>

\* The back-off delay is over.
Retry(e, c) == /\ copy[e][c] = "backoff"
               /\ Attempt(e, c)
               /\ UNCHANGED <<up, posted, lost>>

-----------------------------------------------------------------------------
(* The process dies, or is stopped: server.close() cancels the handlers.    *)

Lost(pc) == IF pc \in {"none", "returned", "raised"} THEN pc ELSE "lost"

Dies == /\ up /\ Trouble
        /\ up' = FALSE
        /\ copy' = [e \in Completions |-> [c \in Connections |-> Lost(copy[e][c])]]
        /\ remembered' = {}
        /\ UNCHANGED <<row, posted, lost>>

\* mutant: start-up sweeps the deliveries it finds open
RestartSweeping ==
    /\ ~up /\ up' = TRUE
    /\ row' = [e \in Completions |-> IF row[e].status = "SENDING"
                                     THEN [row[e] EXCEPT !.status = "PENDING"] ELSE row[e]]
    /\ UNCHANGED <<copy, remembered, posted, lost, troubles>>

\* Start-up looks at no delivery row.
Restart == ~up /\ up' = TRUE /\ UNCHANGED <<row, copy, remembered, posted, lost, troubles>>

\* Nothing more comes.
NothingComes == /\ up
                /\ \A e \in Completions, c \in Connections :
                       copy[e][c] \in {"returned", "raised", "lost"}
                /\ UNCHANGED deliveryVars

Handle(e, c) ==
    Deliver(e, c) \/ AcquireEvent(e, c) \/ Confirmed(e, c) \/ SendFails(e, c) \/ Retry(e, c)

DeliveryNext == \/ \E e \in Completions, c \in Connections :
                      Arrive(e, c) \/ Duplicate(e, c) \/ Handle(e, c) \/ Posts(e, c)
                \/ Dies \/ Restart \/ NothingComes

DeliverySpec == DeliveryInit /\ [][DeliveryNext]_deliveryVars

\* Tasks run when they are ready and every request to Discord ends one way or the
\* other (discord.py puts a timeout on it); no notify has to come or to be repeated.
DeliveryFairness == \A e \in Completions, c \in Connections : WF_deliveryVars(Handle(e, c))

-----------------------------------------------------------------------------
(* Properties.                                                              *)

\* Discord shows a completion a second time only if it lost the answer to the
\* first: neither copies of the notify, nor crashes, nor retries repeat it.  And
\* the row can be believed: SENT is recorded of messages Discord has, a row that is
\* open holds only posts whose answer was lost.
DuplicateNeedsLostAnswer == \A e \in Completions :
    /\ posted[e] <= 1 + lost[e]
    /\ row[e].status = "SENT" => posted[e] > lost[e]
    /\ row[e].status \in {"PENDING", "FAILED"} => posted[e] = lost[e]

\* A delivery that was sent, or was interrupted between its two transactions, is left
\* alone for ever, by repeated notifies and by every later start of the service.
SettledStaysSettled ==
    [][\A e \in Completions :
           row[e].status = "SENT" \/ (row[e].status = "SENDING" /\ Holders(e) = {})
           => row'[e] = row[e] /\ posted'[e] = posted[e]]_deliveryVars

\* Everything above, as one sequential sender with a budget.
EntryOf(status) == CASE status = "ABSENT" -> "none"
                     [] status = "SENDING" -> "trying"
                     [] status = "SENT" -> "delivered"
                     [] OTHER -> "open"

Outbox == INSTANCE Outbox WITH
    Events <- Completions,
    Limit <- RetryAttempts,
    entry <- [e \in Completions |-> EntryOf(row[e].status)],
    tries <- [e \in Completions |-> row[e].attempts],
    copies <- posted

ImplementsOutbox == Outbox!Spec

\* Without a crash or a busy database every registered completion is delivered or
\* has used up its budget; and no handler waits for the lock of its event for ever.
Settles == <>[](\A e \in Completions :
    /\ \/ row[e].status \in {"ABSENT", "SENT"}
       \/ row[e].status = "FAILED" /\ row[e].attempts = RetryAttempts
       \/ troubles > 0
    /\ \A c \in Connections : copy[e][c] # "lock")

\* docs/completion-notifications.md:5 and the docstring of CompletionNotifier:
\* each completion is delivered to its thread once.  (Does not hold: README, 5.)
DeliveredOnce == \A e \in Completions : posted[e] <= 1
=============================================================================
