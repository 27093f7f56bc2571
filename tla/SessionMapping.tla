--------------------------- MODULE SessionMapping ---------------------------
(***************************************************************************)
(* How a Codex session gets its Discord thread: SessionManager.handle_     *)
(* notify with the transactions register_notify and set_discord_thread     *)
(* (src/codex_dispatch/session_manager.py, database.py), and Discord.      *)
(*                                                                         *)
(* Several notifies of one session may be under way: events of different   *)
(* turns, and repeated notifies of one event.  Registration is one         *)
(* transaction; the thread is created under a lock of the session, which   *)
(* is held across the request; the alert in the control channel is sent    *)
(* after the lock was released.  A handler that has returned here may      *)
(* still fail later in the pipeline, so its event may be notified again.   *)
(***************************************************************************)
EXTENDS Naturals, FiniteSets

CONSTANTS
    Sessions,    \* Codex thread ids
    Workspaces,  \* resolved working directories
    Turns,       \* turns that end, an event each
    Copies,      \* notifies of one event
    SessionOf,   \* the session an event belongs to
    CwdOf,       \* the directory its notify names
    Disabled,    \* bound: workspaces the owner may have disabled before
    MaxFaults    \* bound: crashes and busy transactions in a behaviour

NoWorkspace == "none"

ASSUME MappingAssumption ==
    /\ NoWorkspace \notin Workspaces
    /\ SessionOf \in [Turns -> Sessions]
    /\ CwdOf \in [Turns -> Workspaces]
    /\ Disabled \subseteq Workspaces
    /\ MaxFaults \in Nat

VARIABLES
    disabled,    \* workspaces the owner has registered and then disabled
    workspaces,  \* rows of workspaces
    bound,       \* sessions.workspace_id of registered sessions
    thread,      \* sessions.discord_thread_id, 0 for NULL
    events,      \* rows of notify_events
    deliveries,  \* rows of discord_deliveries
    handler,     \* handle_notify of copy c of event e
    inserted,    \* its registration.event_inserted
    queue,       \* for each that waits for its session's asyncio.Lock, those ahead of it
    made,        \* external: how many Discord threads were made for a session
    alerts,      \* external: alerts about event e in the control channel
    orphans,     \* ghost: threads that were made but never mapped
    faults       \* ghost

db == <<disabled, workspaces, bound, thread, events, deliveries>>
tasks == <<handler, inserted, queue>>
discord == <<made, alerts, orphans>>
mappingVars == <<db, tasks, discord, faults>>

Handlers == Turns \X Copies
S(h) == SessionOf[h[1]]

\* "creating": Discord has not decided; "created": the answer is on its way.
HandlerState == {"none", "lock", "creating", "created", "alert", "returned", "raised", "lost"}

MappingTypeOK == /\ disabled \subseteq Disabled
                 /\ workspaces \subseteq Workspaces
                 /\ bound \in [Sessions -> Workspaces \cup {NoWorkspace}]
                 /\ thread \in [Sessions -> Nat]
                 /\ events \subseteq Turns /\ deliveries \subseteq Turns
                 /\ handler \in [Handlers -> HandlerState]
                 /\ inserted \in [Handlers -> BOOLEAN]
                 /\ DOMAIN queue \subseteq Handlers
                 /\ queue \in [DOMAIN queue -> SUBSET Handlers]
                 /\ made \in [Sessions -> Nat] /\ orphans \in [Sessions -> Nat]
                 /\ alerts \in [Turns -> Nat]
                 /\ faults \in 0..MaxFaults

MappingInit == /\ disabled \in SUBSET Disabled
               /\ workspaces = disabled
               /\ bound = [s \in Sessions |-> NoWorkspace]
               /\ thread = [s \in Sessions |-> 0]
               /\ events = {} /\ deliveries = {}
               /\ handler = [h \in Handlers |-> "none"]
               /\ inserted = [h \in Handlers |-> FALSE]
               /\ queue = [h \in {} |-> {}]
               /\ made = [s \in Sessions |-> 0] /\ orphans = [s \in Sessions |-> 0]
               /\ alerts = [e \in Turns |-> 0]
               /\ faults = 0

Fault == faults < MaxFaults /\ faults' = faults + 1
Goto(h, pc) == handler' = [handler EXCEPT ![h] = pc]

-----------------------------------------------------------------------------
(* register_notify: one transaction.                                        *)

\* The transaction is rolled back: disabled workspace, or another one than before.
Refused(e) == \/ CwdOf[e] \in disabled
              \/ bound[SessionOf[e]] \notin {NoWorkspace, CwdOf[e]}

\* mutant: the workspace is committed before the session is looked at
RollbackKeepsWorkspace(e) == /\ workspaces' = workspaces \cup {CwdOf[e]}
                             /\ UNCHANGED <<disabled, bound, thread, events, deliveries>>

Rollback(e) == UNCHANGED db

Register(e) == /\ workspaces' = workspaces \cup {CwdOf[e]}
               /\ bound' = [bound EXCEPT ![SessionOf[e]] = CwdOf[e]]
               /\ events' = events \cup {e} /\ deliveries' = deliveries \cup {e}
               /\ UNCHANGED <<disabled, thread>>

Unmapped(s) == thread[s] = 0

\* set_discord_thread, for the thread that was made last.
SetThread(s) == thread' = IF Unmapped(s) THEN [thread EXCEPT ![s] = made[s]] ELSE thread

-----------------------------------------------------------------------------
(* handle_notify.                                                           *)

Creating(s) == {h \in Handlers : S(h) = s /\ handler[h] \in {"creating", "created"}}

\* mutant: the handlers of a session do not wait for each other
LockIgnored(s) == TRUE

\* asyncio.Lock is free for a newcomer: not held and nobody queued before it.
Waiters(s) == {h \in DOMAIN queue : S(h) = s}
LockFree(s) == Creating(s) = {} /\ Waiters(s) = {}

Wait(h) == queue' = [w \in DOMAIN queue \cup {h} |->
                        IF w = h THEN Waiters(S(h)) ELSE queue[w]]

Alerts(ins, newMapping) == ins \/ newMapping

\* Inside the lock; the session row is read again.
Section(h, ins) ==
    IF Unmapped(S(h)) THEN Goto(h, "creating")
    ELSE Goto(h, IF Alerts(ins, FALSE) THEN "alert" ELSE "returned")

\* A notify comes, is registered, and goes on until it waits for something.
HandleNotify(h) ==
    LET e == h[1]
        ins == e \notin events
    IN /\ handler[h] = "none"
       /\ UNCHANGED <<discord, faults>>
       /\ \/ Refused(e) /\ Rollback(e) /\ Goto(h, "raised") /\ UNCHANGED <<inserted, queue>>
          \/ /\ ~Refused(e) /\ Register(e)
             /\ inserted' = [inserted EXCEPT ![h] = ins]
             /\ \/ LockFree(S(h)) /\ Section(h, ins) /\ UNCHANGED queue
                \/ ~LockFree(S(h)) /\ Goto(h, "lock") /\ Wait(h)

\* mutant: the last waiter is woken
IsLast(h) == h \in DOMAIN queue /\ \A w \in DOMAIN queue : h \notin queue[w]

IsFirst(h) == h \in DOMAIN queue /\ queue[h] = {}

Leave(h) == queue' = [w \in DOMAIN queue \ {h} |-> queue[w] \ {h}]

\* mutant: the lock is passed on only while the session has no thread
AcquireUnmapped(h) ==
    /\ IsFirst(h) /\ Creating(S(h)) = {} /\ thread[S(h)] = 0
    /\ Leave(h)
    /\ Section(h, inserted[h])
    /\ UNCHANGED <<db, inserted, discord, faults>>

Acquire(h) ==
    /\ IsFirst(h) /\ Creating(S(h)) = {}
    /\ Leave(h)
    /\ Section(h, inserted[h])
    /\ UNCHANGED <<db, inserted, discord, faults>>

\* external: Discord makes the thread.
MakesThread(h) == /\ handler[h] = "creating"
                  /\ made' = [made EXCEPT ![S(h)] = @ + 1]
                  /\ Goto(h, "created")
                  /\ UNCHANGED <<db, inserted, queue, alerts, orphans, faults>>

Orphan(s) == orphans' = [orphans EXCEPT ![s] = @ + 1]

\* create_thread returns and the mapping is committed, unless the database is busy.
ThreadCreated(h) ==
    /\ handler[h] = "created"
    /\ UNCHANGED <<disabled, workspaces, bound, events, deliveries, inserted, queue, made, alerts>>
    /\ \/ /\ SetThread(S(h)) /\ UNCHANGED <<orphans, faults>>
          /\ Goto(h, IF Alerts(inserted[h], TRUE) THEN "alert" ELSE "returned")
       \/ Fault /\ Goto(h, "raised") /\ Orphan(S(h)) /\ UNCHANGED thread

\* create_thread raises: refused, or made without the answer coming back.
CreateFails(h) ==
    /\ \/ handler[h] = "creating" /\ UNCHANGED orphans
       \/ handler[h] = "created" /\ Orphan(S(h))
    /\ Goto(h, "raised")
    /\ UNCHANGED <<db, inserted, queue, made, alerts, faults>>

\* The alert is best effort: posted or not, handle_notify returns.
AlertEnds(h) == /\ handler[h] = "alert"
                /\ \/ alerts' = [alerts EXCEPT ![h[1]] = @ + 1]
                   \/ UNCHANGED alerts
                /\ Goto(h, "returned")
                /\ UNCHANGED <<db, inserted, queue, made, orphans, faults>>

-----------------------------------------------------------------------------
(* The process dies or is stopped.  It may start again at once: start-up    *)
(* neither reads nor writes the tables of this module.                      *)

Crash ==
    /\ Fault
    /\ handler' = [h \in Handlers |->
                    IF handler[h] \in {"none", "returned", "raised"} THEN handler[h] ELSE "lost"]
    /\ queue' = [h \in {} |-> {}]
    /\ orphans' = [s \in Sessions |->
                    orphans[s] + Cardinality({h \in Creating(s) : handler[h] = "created"})]
    /\ UNCHANGED <<db, inserted, made, alerts>>

Ended == {"returned", "raised", "lost"}
Idle == (\A h \in Handlers : handler[h] \in Ended) /\ UNCHANGED mappingVars

Progress(h) == Acquire(h) \/ ThreadCreated(h) \/ CreateFails(h) \/ AlertEnds(h)

MappingNext == \/ \E h \in Handlers : HandleNotify(h) \/ Progress(h) \/ MakesThread(h)
               \/ Crash \/ Idle

MappingSpec == MappingInit /\ [][MappingNext]_mappingVars

\* Tasks run when they are ready; every request to Discord ends.
MappingFairness == \A h \in Handlers : WF_mappingVars(Progress(h))

-----------------------------------------------------------------------------
(* Properties.                                                              *)

\* Every Discord thread made for a session is the one it is mapped to, one whose
\* making was cut short by a fault, or just about to be mapped.  With no fault
\* and no lost answer there is exactly one, however many notifies race.
EveryThreadAccountedFor == \A s \in Sessions :
    made[s] = orphans[s] + (IF thread[s] # 0 THEN 1 ELSE 0)
              + Cardinality({h \in Creating(s) : handler[h] = "created"})

\* Registration is all or nothing: a refused notify leaves no workspace behind, an
\* event has its session and its delivery row.
RegistrationIsAtomic ==
    /\ workspaces = disabled \cup ({bound[s] : s \in Sessions} \ {NoWorkspace})
    /\ deliveries = events
    /\ \A e \in events : bound[SessionOf[e]] = CwdOf[e]

\* The owner is alerted at most once about a turn, although a repeated notify that
\* makes the thread alerts too.
AlertedAtMostOnce == \A e \in Turns : alerts[e] <= 1

\* Nobody waits for the lock of a session for ever: in the end nobody waits.
LockServed == <>[](\A h \in Handlers : handler[h] # "lock")
=============================================================================
