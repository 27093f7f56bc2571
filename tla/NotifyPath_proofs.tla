-------------------------- MODULE NotifyPath_proofs --------------------------
(***************************************************************************)
(* The notify bridge and the session mapping, for every number of senders, *)
(* events, sessions, copies of a notify and crashes, and every size of the *)
(* server's memory; and their composition with the delivery (MCNotifyPath).*)
(***************************************************************************)
EXTENDS MCNotifyPath, Delivery_proofs, FiniteSetTheorems, TLAPS

-----------------------------------------------------------------------------
(* The mapping of sessions to threads.                                      *)

\* Created(s): Discord has made a thread whose answer is on its way.
Created(s) == {h \in Creating(s) : handler[h] = "created"}

Busy == {"creating", "created"}

\* The session's lock: one handler at a time is inside, and it found no thread.
LockOK ==
    /\ \A h, g \in Handlers : handler[h] \in Busy /\ handler[g] \in Busy /\ S(h) = S(g) => h = g
    /\ \A h \in Handlers : /\ handler[h] \in Busy => thread[S(h)] = 0
                           /\ handler[h] = "created" => made[S(h)] > 0
                           /\ h \in DOMAIN queue <=> handler[h] = "lock"

\* What is registered and who has registered it first.
RegisteredOK ==
    /\ RegistrationIsAtomic
    /\ \A h \in Handlers : /\ handler[h] \notin {"none", "raised"} => h[1] \in events
                           /\ inserted[h] => h[1] \in events /\ handler[h] # "none"
    /\ \A h, g \in Handlers : inserted[h] /\ inserted[g] /\ h[1] = g[1] => h = g
    /\ \A e \in Turns : alerts[e] # 0 => e \in events

\* The notify that inserted an event is ahead of every other notify of it, until it
\* has the lock; so none of them has alerted before.
FirstIsFirst ==
    \A h, g \in Handlers :
        inserted[h] /\ handler[h] = "lock" /\ g[1] = h[1] /\ g # h =>
            /\ handler[g] \in {"none", "lock", "raised"}
            /\ handler[g] = "lock" => h \in queue[g]

AlertsOK ==
    /\ AlertedAtMostOnce
    /\ \A h \in Handlers :
          /\ handler[h] = "alert" => alerts[h[1]] = 0 /\ thread[S(h)] # 0
          /\ inserted[h] /\ handler[h] = "lock" => alerts[h[1]] = 0
    /\ \A h, g \in Handlers : handler[h] = "alert" /\ handler[g] = "alert" /\ h[1] = g[1] => h = g
    /\ \A e \in Turns : alerts[e] # 0 => thread[SessionOf[e]] # 0

One(s) == IF \E h \in Handlers : S(h) = s /\ handler[h] = "created" THEN 1 ELSE 0

ThreadsOK == \A s \in Sessions :
    made[s] = orphans[s] + (IF thread[s] # 0 THEN 1 ELSE 0) + One(s)

MappingInv == /\ MappingTypeOK /\ LockOK /\ RegisteredOK
              /\ FirstIsFirst /\ AlertsOK /\ ThreadsOK

LEMMA HandlerFacts ==
  ASSUME NEW h \in Handlers
  PROVE  h[1] \in Turns /\ S(h) \in Sessions /\ S(h) = SessionOf[h[1]]
  BY MappingAssumption DEF Handlers, S

LEMMA MappingInitInv == MappingInit => MappingInv
  <1> SUFFICES ASSUME MappingInit PROVE MappingInv
    OBVIOUS
  <1> USE DEF MappingInit
  <1>1. MappingTypeOK
    BY MappingAssumption DEF MappingTypeOK, HandlerState
  <1>2. LockOK
    BY DEF LockOK, Busy
  <1>3. RegisteredOK
    BY DEF RegisteredOK, RegistrationIsAtomic
  <1>4. FirstIsFirst /\ AlertsOK
    BY DEF FirstIsFirst, AlertsOK, AlertedAtMostOnce
  <1>5. ThreadsOK
    BY DEF ThreadsOK, One
  <1> QED BY <1>1, <1>2, <1>3, <1>4, <1>5 DEF MappingInv

\* A refused notify leaves the database as it was.
LEMMA RefusedInv ==
  ASSUME MappingInv, NEW h \in Handlers, handler[h] = "none", Rollback(h[1]),
         Goto(h, "raised"), UNCHANGED <<inserted, queue, discord, faults>>
  PROVE  MappingInv'
  <1> USE DEF Rollback, db, discord, Goto
  <1>1. handler' = [handler EXCEPT ![h] = "raised"] /\ handler \in [Handlers -> HandlerState]
    BY DEF MappingInv, MappingTypeOK
  <1>2. MappingTypeOK'
    BY <1>1 DEF MappingInv, MappingTypeOK, HandlerState
  <1>3. LockOK'
    BY <1>1 DEF MappingInv, LockOK, Busy, S
  <1>4. RegisteredOK'
    BY <1>1 DEF MappingInv, RegisteredOK, RegistrationIsAtomic
  <1>5. FirstIsFirst'
    BY <1>1 DEF MappingInv, FirstIsFirst
  <1>6. AlertsOK'
    BY <1>1 DEF MappingInv, AlertsOK, AlertedAtMostOnce, S
  <1>7. ThreadsOK'
    <2>1. \A s \in Sessions : One(s)' = One(s)
      BY <1>1 DEF One, S
    <2> QED BY <2>1 DEF MappingInv, ThreadsOK
  <1> QED BY <1>2, <1>3, <1>4, <1>5, <1>6, <1>7 DEF MappingInv

\* The transaction register_notify keeps the tables consistent, whatever else happens in
\* the same step.
LEMMA RegisterFacts ==
  ASSUME MappingInv, NEW e \in Turns, ~Refused(e), Register(e)
  PROVE  /\ RegistrationIsAtomic' /\ events' = events \cup {e} /\ thread' = thread
         /\ disabled' \subseteq Disabled /\ workspaces' \subseteq Workspaces
         /\ bound' \in [Sessions -> Workspaces \cup {NoWorkspace}]
         /\ events' \subseteq Turns /\ deliveries' \subseteq Turns
  <1> DEFINE s0 == SessionOf[e]
  <1>1. s0 \in Sessions /\ CwdOf[e] \in Workspaces /\ CwdOf[e] # NoWorkspace
    BY MappingAssumption
  <1>2. /\ bound \in [Sessions -> Workspaces \cup {NoWorkspace}]
        /\ bound' = [bound EXCEPT ![s0] = CwdOf[e]]
        /\ workspaces' = workspaces \cup {CwdOf[e]} /\ disabled' = disabled
        /\ events' = events \cup {e} /\ deliveries' = deliveries \cup {e} /\ thread' = thread
    BY DEF MappingInv, MappingTypeOK, Register
  <1>3. bound[s0] \in {NoWorkspace, CwdOf[e]}
    BY DEF Refused
  <1>4. workspaces = disabled \cup ({bound[s] : s \in Sessions} \ {NoWorkspace})
        /\ deliveries = events /\ \A f \in events : bound[SessionOf[f]] = CwdOf[f]
    BY DEF MappingInv, RegisteredOK, RegistrationIsAtomic
  <1>5. {bound'[s] : s \in Sessions} \ {NoWorkspace}
           = ({bound[s] : s \in Sessions} \ {NoWorkspace}) \cup {CwdOf[e]}
    <2>1. \A w : w \in {bound'[s] : s \in Sessions} <=> \E s \in Sessions : w = bound'[s]
      OBVIOUS
    <2>2. \A w : w \in {bound[s] : s \in Sessions} <=> \E s \in Sessions : w = bound[s]
      OBVIOUS
    <2>3. bound'[s0] = CwdOf[e] /\ \A s \in Sessions \ {s0} : bound'[s] = bound[s]
      BY <1>1, <1>2
    <2>4. ASSUME NEW w, w # NoWorkspace
          PROVE  (\E s \in Sessions : w = bound'[s])
                    <=> (\E s \in Sessions : w = bound[s]) \/ w = CwdOf[e]
      BY <1>1, <1>3, <2>3, <2>4
    <2> QED BY <1>1, <2>1, <2>2, <2>4
  <1>6. workspaces' = disabled' \cup ({bound'[s] : s \in Sessions} \ {NoWorkspace})
    BY <1>2, <1>4, <1>5
  <1>7. \A f \in events' : bound'[SessionOf[f]] = CwdOf[f]
    <2>1. events \subseteq Turns
      BY DEF MappingInv, MappingTypeOK
    <2> QED BY <1>1, <1>2, <1>3, <1>4, <2>1, MappingAssumption
  <1>8. RegistrationIsAtomic'
    BY <1>2, <1>4, <1>6, <1>7 DEF RegistrationIsAtomic
  <1>9. bound' \in [Sessions -> Workspaces \cup {NoWorkspace}]
    BY <1>1, <1>2
  <1> QED BY <1>1, <1>2, <1>8, <1>9 DEF MappingInv, MappingTypeOK

\* A handler enters the section: at once, or as the first of those who wait.
LEMMA SectionInv ==
  ASSUME MappingInv, NEW h \in Handlers, NEW ins \in BOOLEAN, Section(h, ins),
         Creating(S(h)) = {}, inserted' = [inserted EXCEPT ![h] = ins],
         RegistrationIsAtomic', events' = events \cup {h[1]}, UNCHANGED <<thread, discord, faults>>,
         disabled' \subseteq Disabled, workspaces' \subseteq Workspaces,
         bound' \in [Sessions -> Workspaces \cup {NoWorkspace}],
         events' \subseteq Turns, deliveries' \subseteq Turns,
         \/ /\ handler[h] = "none" /\ ins = (h[1] \notin events)
            /\ Waiters(S(h)) = {} /\ UNCHANGED queue
         \/ handler[h] = "lock" /\ ins = inserted[h] /\ IsFirst(h) /\ Leave(h)
  PROVE  MappingInv'
  <1> DEFINE pc == IF Unmapped(S(h)) THEN "creating" ELSE IF ins THEN "alert" ELSE "returned"
  <1>1. handler' = [handler EXCEPT ![h] = pc] /\ UNCHANGED <<thread, made, alerts, orphans, faults>>
    BY DEF Section, Goto, Alerts, discord
  <1>2. /\ pc \in {"creating", "alert", "returned"} /\ (pc = "creating" <=> thread[S(h)] = 0)
        /\ pc = "alert" => ins
    BY DEF Unmapped
  <1>3. h[1] \in Turns /\ S(h) \in Sessions /\ \A g \in Handlers : S(g) = SessionOf[g[1]]
    BY HandlerFacts DEF S
  <1> HIDE DEF pc
  <1>4. /\ handler \in [Handlers -> HandlerState] /\ inserted \in [Handlers -> BOOLEAN]
        /\ DOMAIN queue \subseteq Handlers /\ queue \in [DOMAIN queue -> SUBSET Handlers]
    BY DEF MappingInv, MappingTypeOK
  <1>5. /\ DOMAIN queue' = DOMAIN queue \ {h} /\ queue' \in [DOMAIN queue' -> SUBSET Handlers]
        /\ \A w \in DOMAIN queue' : queue'[w] = queue[w] \/ queue'[w] = queue[w] \ {h}
    <2>1. CASE handler[h] = "none" /\ UNCHANGED queue
      BY <1>4, <2>1 DEF MappingInv, LockOK
    <2>2. CASE Leave(h)
      BY <1>4, <2>2 DEF Leave
    <2> QED BY <2>1, <2>2
  \* Nobody else of this session is inside, and nobody of this event is ahead of h.
  <1>6. \A g \in Handlers : S(g) = S(h) => handler[g] \notin Busy
    BY DEF Creating, Busy
  <1>7. \A g \in Handlers : g # h /\ g[1] = h[1] /\ inserted[g] /\ handler[g] = "lock" => FALSE
    <2> SUFFICES ASSUME NEW g \in Handlers, g # h, g[1] = h[1], inserted[g], handler[g] = "lock"
                 PROVE  FALSE
      OBVIOUS
    <2>1. g \in DOMAIN queue /\ S(g) = S(h)
      BY <1>3 DEF MappingInv, LockOK
    <2>2. handler[h] = "lock" => g \in queue[h]
      BY DEF MappingInv, FirstIsFirst
    <2> QED BY <2>1, <2>2 DEF IsFirst, Waiters
  \* The one that is to alert finds that nobody has.
  <1>8. ins => \A g \in Handlers : g[1] = h[1] => handler[g] # "alert"
    <2>1. CASE handler[h] = "none" /\ ins = (h[1] \notin events)
      BY <2>1 DEF MappingInv, RegisteredOK
    <2>2. CASE handler[h] = "lock" /\ ins = inserted[h]
      BY <2>2 DEF MappingInv, FirstIsFirst
    <2> QED BY <2>1, <2>2
  <1>9. ins => alerts[h[1]] = 0
    BY <1>3 DEF MappingInv, RegisteredOK, AlertsOK
  <1>10. MappingTypeOK'
    BY <1>1, <1>2, <1>4, <1>5 DEF MappingInv, MappingTypeOK, HandlerState
  <1>11. LockOK'
    <2>1. \A g \in Handlers : handler'[g] = IF g = h THEN pc ELSE handler[g]
      BY <1>1, <1>4
    <2>2. \A g, k \in Handlers : handler'[g] \in Busy /\ handler'[k] \in Busy /\ S(g) = S(k) => g = k
      BY <1>6, <2>1 DEF MappingInv, LockOK
    <2>3. \A g \in Handlers : /\ handler'[g] \in Busy => thread[S(g)] = 0
                              /\ handler'[g] = "created" => made[S(g)] > 0
                              /\ g \in DOMAIN queue' <=> handler'[g] = "lock"
      BY <1>2, <1>5, <2>1 DEF MappingInv, LockOK, Busy
    <2> QED BY <1>1, <2>2, <2>3 DEF LockOK, S
  <1>12. RegisteredOK'
    <2>1. \A g \in Handlers : /\ handler'[g] = IF g = h THEN pc ELSE handler[g]
                              /\ inserted'[g] = IF g = h THEN ins ELSE inserted[g]
      BY <1>1, <1>4
    <2>2. \A g \in Handlers : /\ handler'[g] \notin {"none", "raised"} => g[1] \in events'
                              /\ inserted'[g] => g[1] \in events' /\ handler'[g] # "none"
      BY <1>2, <2>1 DEF MappingInv, RegisteredOK
    <2>3. \A g \in Handlers : g # h /\ g[1] = h[1] /\ inserted[g] => ~ins
      BY DEF MappingInv, RegisteredOK
    <2>4. \A g, k \in Handlers : inserted'[g] /\ inserted'[k] /\ g[1] = k[1] => g = k
      BY <2>1, <2>3 DEF MappingInv, RegisteredOK
    <2> QED BY <1>1, <2>2, <2>4 DEF MappingInv, RegisteredOK
  <1>13. FirstIsFirst'
    <2> SUFFICES ASSUME NEW g \in Handlers, NEW k \in Handlers, inserted'[g],
                        handler'[g] = "lock", k[1] = g[1], k # g
                 PROVE  /\ handler'[k] \in {"none", "lock", "raised"}
                        /\ handler'[k] = "lock" => g \in queue'[k]
      BY DEF FirstIsFirst
    <2>1. g # h /\ inserted[g] /\ handler[g] = "lock" /\ k # h
      BY <1>1, <1>2, <1>4, <1>7
    <2>2. /\ handler[k] \in {"none", "lock", "raised"}
          /\ handler[k] = "lock" => g \in queue[k] /\ k \in DOMAIN queue
      BY <2>1 DEF MappingInv, FirstIsFirst, LockOK
    <2> QED BY <1>1, <1>4, <1>5, <2>1, <2>2
  <1>14. AlertsOK'
    <2>1. \A g \in Handlers : /\ handler'[g] = IF g = h THEN pc ELSE handler[g]
                              /\ inserted'[g] = IF g = h THEN ins ELSE inserted[g]
      BY <1>1, <1>4
    <2>2. \A g \in Handlers : /\ handler'[g] = "alert" => alerts[g[1]] = 0 /\ thread[S(g)] # 0
                              /\ inserted'[g] /\ handler'[g] = "lock" => alerts[g[1]] = 0
      BY <1>2, <1>9, <2>1 DEF MappingInv, AlertsOK
    <2>3. \A g, k \in Handlers : handler'[g] = "alert" /\ handler'[k] = "alert" /\ g[1] = k[1] => g = k
      BY <1>2, <1>8, <2>1 DEF MappingInv, AlertsOK
    <2> QED BY <1>1, <2>2, <2>3 DEF MappingInv, AlertsOK, AlertedAtMostOnce, S
  <1>15. ThreadsOK'
    <2>1. \A g \in Handlers : handler'[g] = "created" <=> handler[g] = "created"
      BY <1>1, <1>2, <1>4, <1>6 DEF Busy
    <2>2. \A s \in Sessions : One(s)' = One(s)
      BY <2>1 DEF One, S
    <2> QED BY <1>1, <2>2 DEF MappingInv, ThreadsOK
  <1> QED BY <1>10, <1>11, <1>12, <1>13, <1>14, <1>15 DEF MappingInv

\* A registered notify waits behind those that wait or are inside.
LEMMA WaitsInv ==
  ASSUME MappingInv, NEW h \in Handlers, NEW ins \in BOOLEAN, handler[h] = "none",
         ins = (h[1] \notin events), Goto(h, "lock"), Wait(h),
         inserted' = [inserted EXCEPT ![h] = ins],
         RegistrationIsAtomic', events' = events \cup {h[1]}, UNCHANGED <<thread, discord, faults>>,
         disabled' \subseteq Disabled, workspaces' \subseteq Workspaces,
         bound' \in [Sessions -> Workspaces \cup {NoWorkspace}],
         events' \subseteq Turns, deliveries' \subseteq Turns
  PROVE  MappingInv'
  <1>1. UNCHANGED <<thread, made, alerts, orphans, faults>>
    BY DEF discord
  <1>2. h[1] \in Turns /\ S(h) \in Sessions /\ \A g \in Handlers : S(g) = SessionOf[g[1]]
    BY HandlerFacts DEF S
  <1>3. /\ handler \in [Handlers -> HandlerState] /\ inserted \in [Handlers -> BOOLEAN]
        /\ DOMAIN queue \subseteq Handlers /\ queue \in [DOMAIN queue -> SUBSET Handlers]
    BY DEF MappingInv, MappingTypeOK
  <1>4. \A g \in Handlers : /\ handler'[g] = IF g = h THEN "lock" ELSE handler[g]
                            /\ inserted'[g] = IF g = h THEN ins ELSE inserted[g]
    BY <1>3 DEF Goto
  <1>5. /\ DOMAIN queue' = DOMAIN queue \cup {h} /\ queue'[h] = Waiters(S(h))
        /\ \A w \in DOMAIN queue \ {h} : queue'[w] = queue[w]
        /\ queue' \in [DOMAIN queue' -> SUBSET Handlers]
    BY <1>3 DEF Wait, Waiters
  <1>6. ins => \A g \in Handlers : g[1] = h[1] => handler[g] \in {"none", "raised"} /\ ~inserted[g]
    BY DEF MappingInv, RegisteredOK
  <1>7. MappingTypeOK'
    BY <1>1, <1>3, <1>5 DEF MappingInv, MappingTypeOK, HandlerState, Goto
  <1>8. LockOK'
    <2>1. \A g, k \in Handlers : handler'[g] \in Busy /\ handler'[k] \in Busy /\ S(g) = S(k) => g = k
      BY <1>4 DEF MappingInv, LockOK, Busy
    <2>2. \A g \in Handlers : /\ handler'[g] \in Busy => thread[S(g)] = 0
                              /\ handler'[g] = "created" => made[S(g)] > 0
                              /\ g \in DOMAIN queue' <=> handler'[g] = "lock"
      BY <1>4, <1>5 DEF MappingInv, LockOK, Busy
    <2> QED BY <1>1, <2>1, <2>2 DEF LockOK, S
  <1>9. RegisteredOK'
    <2>1. \A g \in Handlers : /\ handler'[g] \notin {"none", "raised"} => g[1] \in events'
                              /\ inserted'[g] => g[1] \in events' /\ handler'[g] # "none"
      BY <1>4 DEF MappingInv, RegisteredOK
    <2>2. \A g, k \in Handlers : inserted'[g] /\ inserted'[k] /\ g[1] = k[1] => g = k
      BY <1>4, <1>6 DEF MappingInv, RegisteredOK
    <2> QED BY <1>1, <2>1, <2>2 DEF MappingInv, RegisteredOK
  <1>10. FirstIsFirst'
    <2> SUFFICES ASSUME NEW g \in Handlers, NEW k \in Handlers, inserted'[g],
                        handler'[g] = "lock", k[1] = g[1], k # g
                 PROVE  /\ handler'[k] \in {"none", "lock", "raised"}
                        /\ handler'[k] = "lock" => g \in queue'[k]
      BY DEF FirstIsFirst
    <2>1. CASE g = h
      BY <1>4, <1>6, <2>1
    <2>2. CASE g # h /\ k = h
      <3>1. g \in DOMAIN queue /\ S(g) = S(h)
        BY <1>2, <1>4, <2>2 DEF MappingInv, LockOK
      <3> QED BY <1>4, <1>5, <2>2, <3>1 DEF Waiters
    <2>3. CASE g # h /\ k # h
      <3>1. /\ handler[k] \in {"none", "lock", "raised"}
            /\ handler[k] = "lock" => g \in queue[k] /\ k \in DOMAIN queue
        BY <1>4, <2>3 DEF MappingInv, FirstIsFirst, LockOK
      <3> QED BY <1>4, <1>5, <2>3, <3>1
    <2> QED BY <2>1, <2>2, <2>3
  <1>11. AlertsOK'
    <2>1. ins => alerts[h[1]] = 0
      BY <1>2 DEF MappingInv, RegisteredOK
    <2>2. \A g \in Handlers : /\ handler'[g] = "alert" => alerts[g[1]] = 0 /\ thread[S(g)] # 0
                              /\ inserted'[g] /\ handler'[g] = "lock" => alerts[g[1]] = 0
      BY <1>4, <2>1 DEF MappingInv, AlertsOK
    <2>3. \A g, k \in Handlers : handler'[g] = "alert" /\ handler'[k] = "alert" /\ g[1] = k[1] => g = k
      BY <1>4 DEF MappingInv, AlertsOK
    <2> QED BY <1>1, <2>2, <2>3 DEF MappingInv, AlertsOK, AlertedAtMostOnce, S
  <1>12. ThreadsOK'
    <2>1. \A s \in Sessions : One(s)' = One(s)
      BY <1>4 DEF One, S
    <2> QED BY <1>1, <2>1 DEF MappingInv, ThreadsOK
  <1> QED BY <1>7, <1>8, <1>9, <1>10, <1>11, <1>12 DEF MappingInv

LEMMA HandleNotifyInv ==
  ASSUME MappingInv, NEW h \in Handlers, HandleNotify(h)
  PROVE  MappingInv'
  <1> DEFINE ins == h[1] \notin events
  <1>1. handler[h] = "none" /\ UNCHANGED <<discord, faults>> /\ ins \in BOOLEAN /\ h[1] \in Turns
    BY HandlerFacts DEF HandleNotify
  <1>2. CASE Refused(h[1]) /\ Rollback(h[1]) /\ Goto(h, "raised") /\ UNCHANGED <<inserted, queue>>
    BY <1>1, <1>2, RefusedInv
  <1>3. CASE /\ ~Refused(h[1]) /\ Register(h[1]) /\ inserted' = [inserted EXCEPT ![h] = ins]
             /\ \/ LockFree(S(h)) /\ Section(h, ins) /\ UNCHANGED queue
                \/ ~LockFree(S(h)) /\ Goto(h, "lock") /\ Wait(h)
    <2>1. /\ RegistrationIsAtomic' /\ events' = events \cup {h[1]} /\ thread' = thread
          /\ disabled' \subseteq Disabled /\ workspaces' \subseteq Workspaces
          /\ bound' \in [Sessions -> Workspaces \cup {NoWorkspace}]
          /\ events' \subseteq Turns /\ deliveries' \subseteq Turns
      BY <1>1, <1>3, RegisterFacts
    <2>2. CASE LockFree(S(h)) /\ Section(h, ins) /\ UNCHANGED queue
      <3>1. Creating(S(h)) = {} /\ Waiters(S(h)) = {}
        BY <2>2 DEF LockFree
      <3> HIDE DEF ins
      <3> QED BY <1>1, <1>3, <2>1, <2>2, <3>1, SectionInv DEF ins
    <2>3. CASE ~LockFree(S(h)) /\ Goto(h, "lock") /\ Wait(h)
      <3> HIDE DEF ins
      <3> QED BY <1>1, <1>3, <2>1, <2>3, WaitsInv DEF ins
    <2> QED BY <1>3, <2>2, <2>3
  <1> QED BY <1>2, <1>3 DEF HandleNotify

LEMMA AcquireInv ==
  ASSUME MappingInv, NEW h \in Handlers, Acquire(h)
  PROVE  MappingInv'
  <1>1. /\ handler[h] = "lock" /\ h[1] \in events /\ h[1] \in Turns
        /\ inserted \in [Handlers -> BOOLEAN] /\ inserted[h] \in BOOLEAN
    BY HandlerFacts DEF Acquire, IsFirst, MappingInv, MappingTypeOK, LockOK, RegisteredOK
  <1>2. UNCHANGED <<disabled, workspaces, bound, thread, events, deliveries, inserted>>
    BY DEF Acquire, db
  <1>3. /\ RegistrationIsAtomic' /\ events' = events \cup {h[1]}
        /\ inserted' = [inserted EXCEPT ![h] = inserted[h]]
    BY <1>1, <1>2 DEF MappingInv, RegisteredOK, RegistrationIsAtomic
  <1>4. /\ disabled' \subseteq Disabled /\ workspaces' \subseteq Workspaces
        /\ bound' \in [Sessions -> Workspaces \cup {NoWorkspace}]
        /\ events' \subseteq Turns /\ deliveries' \subseteq Turns
    BY <1>2 DEF MappingInv, MappingTypeOK
  <1> QED BY <1>1, <1>2, <1>3, <1>4, SectionInv DEF Acquire

\* A handler that is inside, or that alerts, goes on: who is registered first and who
\* waits is not touched.
LEMMA MoveFacts ==
  ASSUME MappingInv, NEW h \in Handlers, NEW pc \in HandlerState \ {"none", "lock"},
         handler[h] \in Busy \cup {"alert"}, Goto(h, pc),
         UNCHANGED <<disabled, workspaces, bound, events, deliveries, inserted, queue>>,
         \A e \in Turns : alerts'[e] # 0 => alerts[e] # 0 \/ e = h[1]
  PROVE  /\ handler' \in [Handlers -> HandlerState]
         /\ \A g \in Handlers : handler'[g] = IF g = h THEN pc ELSE handler[g]
         /\ \A g \in Handlers : g \in DOMAIN queue' <=> handler'[g] = "lock"
         /\ RegisteredOK' /\ FirstIsFirst'
  <1>1. handler' = [handler EXCEPT ![h] = pc] /\ handler \in [Handlers -> HandlerState]
    BY DEF Goto, MappingInv, MappingTypeOK
  <1>2. handler' \in [Handlers -> HandlerState]
        /\ \A g \in Handlers : handler'[g] = IF g = h THEN pc ELSE handler[g]
    BY <1>1
  <1> HIDE DEF Goto
  <1>3. \A g \in Handlers : g \in DOMAIN queue' <=> handler'[g] = "lock"
    BY <1>2 DEF MappingInv, LockOK, Busy
  <1>4. h[1] \in events
    BY DEF MappingInv, RegisteredOK, Busy
  <1>5. RegisteredOK'
    <2>1. \A g \in Handlers : /\ handler'[g] \notin {"none", "raised"} => g[1] \in events
                              /\ inserted[g] => g[1] \in events /\ handler'[g] # "none"
      BY <1>2, <1>4 DEF MappingInv, RegisteredOK
    <2>2. \A e \in Turns : alerts'[e] # 0 => e \in events
      BY <1>4 DEF MappingInv, RegisteredOK
    <2> QED BY <2>1, <2>2 DEF MappingInv, RegisteredOK, RegistrationIsAtomic
  <1>6. FirstIsFirst'
    <2> SUFFICES ASSUME NEW g \in Handlers, NEW k \in Handlers, inserted[g],
                        handler'[g] = "lock", k[1] = g[1], k # g
                 PROVE  /\ handler'[k] \in {"none", "lock", "raised"}
                        /\ handler'[k] = "lock" => g \in queue[k]
      BY DEF FirstIsFirst
    <2>1. g # h /\ handler[g] = "lock"
      BY <1>2
    <2>2. /\ handler[k] \in {"none", "lock", "raised"}
          /\ handler[k] = "lock" => g \in queue[k]
      BY <2>1 DEF MappingInv, FirstIsFirst
    <2> QED BY <1>2, <2>2 DEF Busy
  <1> QED BY <1>2, <1>3, <1>5, <1>6

LEMMA MakesThreadInv ==
  ASSUME MappingInv, NEW h \in Handlers, MakesThread(h)
  PROVE  MappingInv'
  <1>1. /\ UNCHANGED <<disabled, workspaces, bound, thread, events, deliveries, inserted, queue,
                       alerts, orphans, faults>>
        /\ handler[h] = "creating" /\ made' = [made EXCEPT ![S(h)] = @ + 1] /\ Goto(h, "created")
        /\ made \in [Sessions -> Nat]
    BY DEF MakesThread, db, MappingInv, MappingTypeOK
  <1>2. S(h) \in Sessions /\ \A g \in Handlers : S(g) = SessionOf[g[1]]
    BY HandlerFacts DEF S
  <1>3. /\ handler' \in [Handlers -> HandlerState]
        /\ \A g \in Handlers : handler'[g] = IF g = h THEN "created" ELSE handler[g]
        /\ \A g \in Handlers : g \in DOMAIN queue' <=> handler'[g] = "lock"
        /\ RegisteredOK' /\ FirstIsFirst'
    BY <1>1, MoveFacts DEF HandlerState, Busy
  <1>4. MappingTypeOK'
    BY <1>1, <1>2, <1>3 DEF MappingInv, MappingTypeOK
  <1>5. LockOK'
    <2>1. \A g, k \in Handlers : handler'[g] \in Busy /\ handler'[k] \in Busy /\ S(g) = S(k) => g = k
      BY <1>1, <1>3 DEF MappingInv, LockOK, Busy
    <2>2. \A g \in Handlers : handler'[g] \in Busy => thread[S(g)] = 0
      BY <1>1, <1>3 DEF MappingInv, LockOK, Busy
    <2>3. \A g \in Handlers : handler'[g] = "created" => made'[S(g)] > 0
      BY <1>1, <1>2, <1>3, HandlerFacts DEF MappingInv, LockOK
    <2> QED BY <1>1, <1>3, <2>1, <2>2, <2>3 DEF LockOK, S
  <1>6. AlertsOK'
    <2>1. \A g \in Handlers : handler'[g] \in {"alert", "lock"} => handler[g] = handler'[g]
      BY <1>3
    <2> QED BY <1>1, <2>1 DEF MappingInv, AlertsOK, AlertedAtMostOnce, S
  <1>7. ThreadsOK'
    <2>1. ASSUME NEW s \in Sessions, s # S(h) PROVE One(s)' = One(s)
      BY <1>3, <2>1 DEF One, S
    <2>2. One(S(h)) = 0
      BY <1>1 DEF MappingInv, LockOK, One, Busy
    <2>3. ASSUME NEW s \in Sessions, s = S(h) PROVE One(s)' = 1
      BY <1>3, <2>3 DEF One, S
    <2>4. ASSUME NEW s \in Sessions
          PROVE  made'[s] = orphans[s] + (IF thread[s] # 0 THEN 1 ELSE 0) + One(s)'
      <3>1. /\ made[s] = orphans[s] + (IF thread[s] # 0 THEN 1 ELSE 0) + One(s)
            /\ made[s] \in Nat /\ orphans[s] \in Nat
        BY DEF MappingInv, ThreadsOK, MappingTypeOK
      <3>2. CASE s = S(h)
        BY <1>1, <2>2, <2>3, <3>1, <3>2
      <3>3. CASE s # S(h)
        BY <1>1, <2>1, <3>1, <3>3
      <3> QED BY <3>2, <3>3
    <2> QED BY <1>1, <2>4 DEF ThreadsOK
  <1> QED BY <1>3, <1>4, <1>5, <1>6, <1>7 DEF MappingInv

\* The thread is mapped: the handler alerts, and it is the only one that may.
LEMMA MappedInv ==
  ASSUME MappingInv, NEW h \in Handlers, handler[h] = "created", SetThread(S(h)),
         Goto(h, "alert"),
         UNCHANGED <<disabled, workspaces, bound, events, deliveries, inserted, queue, discord, faults>>
  PROVE  MappingInv'
  <1>1. S(h) \in Sessions /\ h[1] \in Turns /\ \A g \in Handlers : S(g) = SessionOf[g[1]]
    BY HandlerFacts DEF S
  <1>2. /\ UNCHANGED <<made, alerts, orphans, faults>> /\ thread[S(h)] = 0
        /\ thread' = [thread EXCEPT ![S(h)] = made[S(h)]] /\ made[S(h)] \in Nat \ {0}
        /\ thread \in [Sessions -> Nat] /\ made \in [Sessions -> Nat]
    BY <1>1 DEF discord, SetThread, Unmapped, MappingInv, MappingTypeOK, LockOK, Busy
  <1>3. /\ handler' \in [Handlers -> HandlerState]
        /\ \A g \in Handlers : handler'[g] = IF g = h THEN "alert" ELSE handler[g]
        /\ \A g \in Handlers : g \in DOMAIN queue' <=> handler'[g] = "lock"
        /\ RegisteredOK' /\ FirstIsFirst'
    BY <1>2, MoveFacts DEF HandlerState, Busy
  <1>4. MappingTypeOK'
    BY <1>2, <1>3 DEF MappingInv, MappingTypeOK
  <1>5. LockOK'
    <2>1. \A g, k \in Handlers : handler'[g] \in Busy /\ handler'[k] \in Busy /\ S(g) = S(k) => g = k
      BY <1>3 DEF MappingInv, LockOK, Busy
    <2>2. \A g \in Handlers : handler'[g] \in Busy => g # h /\ S(g) # S(h) /\ handler'[g] = handler[g]
      BY <1>3 DEF MappingInv, LockOK, Busy
    <2>3. \A g \in Handlers : handler'[g] \in Busy => thread'[S(g)] = 0
      BY <1>2, <2>2, HandlerFacts DEF MappingInv, LockOK
    <2>4. \A g \in Handlers : handler'[g] = "created" => made[S(g)] > 0
      BY <1>3 DEF MappingInv, LockOK
    <2> QED BY <1>2, <1>3, <2>1, <2>3, <2>4 DEF LockOK, S
  <1>6. AlertsOK'
    <2>1. \A g \in Handlers : g[1] = h[1] => handler[g] # "alert"
      BY <1>1, <1>2 DEF MappingInv, AlertsOK
    <2>2. alerts[h[1]] = 0
      BY <1>1, <1>2 DEF MappingInv, AlertsOK
    <2>3. \A s \in Sessions : thread[s] # 0 \/ s = S(h) => thread'[s] # 0
      BY <1>2
    <2>4. \A g \in Handlers : /\ handler'[g] = "alert" => alerts[g[1]] = 0 /\ thread'[S(g)] # 0
                              /\ inserted[g] /\ handler'[g] = "lock" => alerts[g[1]] = 0
      BY <1>3, <2>2, <2>3, HandlerFacts DEF MappingInv, AlertsOK
    <2>5. \A g, k \in Handlers : handler'[g] = "alert" /\ handler'[k] = "alert" /\ g[1] = k[1] => g = k
      BY <1>3, <2>1 DEF MappingInv, AlertsOK
    <2>6. \A e \in Turns : alerts[e] # 0 => thread'[SessionOf[e]] # 0
      BY <2>3, MappingAssumption DEF MappingInv, AlertsOK
    <2> QED BY <1>2, <2>4, <2>5, <2>6 DEF MappingInv, AlertsOK, AlertedAtMostOnce, S
  <1>7. ThreadsOK'
    <2>1. ASSUME NEW s \in Sessions, s # S(h) PROVE One(s)' = One(s)
      BY <1>3, <2>1 DEF One, S
    <2>2. One(S(h)) = 1
      BY DEF One
    <2>3. ASSUME NEW s \in Sessions, s = S(h) PROVE One(s)' = 0
      <3>1. \A g \in Handlers : S(g) = s => handler'[g] # "created"
        BY <1>3, <2>3 DEF MappingInv, LockOK, Busy
      <3> QED BY <3>1 DEF One, S
    <2>4. ASSUME NEW s \in Sessions
          PROVE  made[s] = orphans[s] + (IF thread'[s] # 0 THEN 1 ELSE 0) + One(s)'
      <3>1. /\ made[s] = orphans[s] + (IF thread[s] # 0 THEN 1 ELSE 0) + One(s)
            /\ made[s] \in Nat /\ orphans[s] \in Nat
        BY DEF MappingInv, ThreadsOK, MappingTypeOK
      <3>2. CASE s = S(h)
        BY <1>2, <2>2, <2>3, <3>1, <3>2
      <3>3. CASE s # S(h)
        BY <1>2, <2>1, <3>1, <3>3
      <3> QED BY <3>2, <3>3
    <2> QED BY <1>2, <2>4 DEF ThreadsOK
  <1> QED BY <1>3, <1>4, <1>5, <1>6, <1>7 DEF MappingInv

\* A thread that was made is lost when its answer is, or the mapping is not committed.
LEMMA RaisedInv ==
  ASSUME MappingInv, NEW h \in Handlers, Goto(h, "raised"),
         \/ handler[h] = "creating" /\ UNCHANGED orphans
         \/ handler[h] = "created" /\ Orphan(S(h)),
         UNCHANGED <<disabled, workspaces, bound, thread, events, deliveries, inserted, queue,
                     made, alerts>>,
         faults' \in 0..MaxFaults
  PROVE  MappingInv'
  <1>1. S(h) \in Sessions /\ orphans \in [Sessions -> Nat]
    BY HandlerFacts DEF MappingInv, MappingTypeOK
  <1>2. /\ handler' \in [Handlers -> HandlerState]
        /\ \A g \in Handlers : handler'[g] = IF g = h THEN "raised" ELSE handler[g]
        /\ \A g \in Handlers : g \in DOMAIN queue' <=> handler'[g] = "lock"
        /\ RegisteredOK' /\ FirstIsFirst'
    BY MoveFacts DEF HandlerState, Busy
  <1>3. orphans' \in [Sessions -> Nat]
    BY <1>1 DEF Orphan
  <1>4. MappingTypeOK'
    BY <1>2, <1>3 DEF MappingInv, MappingTypeOK
  <1>5. LockOK'
    <2>1. \A g \in Handlers : handler'[g] \in Busy => handler'[g] = handler[g]
      BY <1>2 DEF Busy
    <2>2. \A g \in Handlers : handler'[g] = "created" => handler[g] = "created"
      BY <1>2
    <2> QED BY <1>2, <2>1, <2>2 DEF MappingInv, LockOK, S
  <1>6. AlertsOK'
    <2>1. \A g \in Handlers : handler'[g] \in {"alert", "lock"} => handler[g] = handler'[g]
      BY <1>2
    <2> QED BY <2>1 DEF MappingInv, AlertsOK, AlertedAtMostOnce, S
  <1>7. ThreadsOK'
    <2>1. ASSUME NEW s \in Sessions, s # S(h) PROVE One(s)' = One(s)
      BY <1>2, <2>1 DEF One, S
    <2>2. One(S(h)) = IF handler[h] = "created" THEN 1 ELSE 0
      BY DEF MappingInv, LockOK, Busy, One
    <2>3. ASSUME NEW s \in Sessions, s = S(h) PROVE One(s)' = 0
      <3>1. \A g \in Handlers : S(g) = s => handler'[g] # "created"
        BY <1>2, <2>3 DEF MappingInv, LockOK, Busy
      <3> QED BY <3>1 DEF One, S
    <2>4. ASSUME NEW s \in Sessions
          PROVE  made[s] = orphans'[s] + (IF thread[s] # 0 THEN 1 ELSE 0) + One(s)'
      <3>1. /\ made[s] = orphans[s] + (IF thread[s] # 0 THEN 1 ELSE 0) + One(s)
            /\ made[s] \in Nat /\ orphans[s] \in Nat
        BY DEF MappingInv, ThreadsOK, MappingTypeOK
      <3>2. CASE s = S(h)
        <4>1. CASE handler[h] = "creating" /\ UNCHANGED orphans
          BY <2>2, <2>3, <3>1, <3>2, <4>1
        <4>2. CASE handler[h] = "created" /\ Orphan(S(h))
          <5>1. orphans'[s] = orphans[s] + 1
            BY <1>1, <3>2, <4>2 DEF Orphan
          <5> QED BY <2>2, <2>3, <3>1, <3>2, <4>2, <5>1
        <4> QED BY <4>1, <4>2
      <3>3. CASE s # S(h)
        <4>1. orphans'[s] = orphans[s]
          BY <1>1, <3>3 DEF Orphan
        <4> QED BY <2>1, <3>1, <3>3, <4>1
      <3> QED BY <3>2, <3>3
    <2> QED BY <2>4 DEF ThreadsOK
  <1> QED BY <1>2, <1>4, <1>5, <1>6, <1>7 DEF MappingInv

LEMMA ThreadCreatedInv ==
  ASSUME MappingInv, NEW h \in Handlers, ThreadCreated(h)
  PROVE  MappingInv'
  <1>1. /\ handler[h] = "created"
        /\ UNCHANGED <<disabled, workspaces, bound, events, deliveries, inserted, queue, made, alerts>>
    BY DEF ThreadCreated
  <1>2. CASE SetThread(S(h)) /\ UNCHANGED <<orphans, faults>> /\ Goto(h, "alert")
    BY <1>1, <1>2, MappedInv DEF discord
  <1>3. CASE Fault /\ Goto(h, "raised") /\ Orphan(S(h)) /\ UNCHANGED thread
    <2>1. faults' \in 0..MaxFaults
      BY <1>3, MappingAssumption DEF Fault, MappingInv, MappingTypeOK
    <2> QED BY <1>1, <1>3, <2>1, RaisedInv
  <1> QED BY <1>2, <1>3 DEF ThreadCreated, Alerts

LEMMA CreateFailsInv ==
  ASSUME MappingInv, NEW h \in Handlers, CreateFails(h)
  PROVE  MappingInv'
  <1>1. faults' \in 0..MaxFaults
    BY DEF CreateFails, MappingInv, MappingTypeOK
  <1> QED BY <1>1, RaisedInv DEF CreateFails, db

LEMMA AlertEndsInv ==
  ASSUME MappingInv, NEW h \in Handlers, AlertEnds(h)
  PROVE  MappingInv'
  <1>1. /\ UNCHANGED <<disabled, workspaces, bound, thread, events, deliveries, inserted, queue,
                       made, orphans, faults>>
        /\ handler[h] = "alert" /\ Goto(h, "returned")
        /\ alerts' = [alerts EXCEPT ![h[1]] = @ + 1] \/ alerts' = alerts
        /\ alerts \in [Turns -> Nat] /\ h[1] \in Turns
    BY HandlerFacts DEF AlertEnds, db, MappingInv, MappingTypeOK
  <1>2. /\ alerts[h[1]] = 0 /\ alerts'[h[1]] \in {0, 1} /\ alerts' \in [Turns -> Nat]
        /\ \A e \in Turns : e # h[1] => alerts'[e] = alerts[e]
        /\ \A e \in Turns : alerts'[e] # 0 => alerts[e] # 0 \/ e = h[1]
    BY <1>1 DEF MappingInv, AlertsOK
  <1>3. /\ handler' \in [Handlers -> HandlerState]
        /\ \A g \in Handlers : handler'[g] = IF g = h THEN "returned" ELSE handler[g]
        /\ \A g \in Handlers : g \in DOMAIN queue' <=> handler'[g] = "lock"
        /\ RegisteredOK' /\ FirstIsFirst'
    BY <1>1, <1>2, MoveFacts DEF HandlerState
  <1>4. MappingTypeOK'
    BY <1>1, <1>2, <1>3 DEF MappingInv, MappingTypeOK
  <1>5. LockOK'
    <2>1. \A g \in Handlers : handler'[g] \in Busy => handler'[g] = handler[g]
      BY <1>3 DEF Busy
    <2>2. \A g \in Handlers : handler'[g] = "created" => handler[g] = "created"
      BY <1>3
    <2> QED BY <1>1, <1>3, <2>1, <2>2 DEF MappingInv, LockOK, S
  <1>6. AlertsOK'
    <2>1. \A g \in Handlers : handler'[g] \in {"alert", "lock"} => handler[g] = handler'[g] /\ g # h
      BY <1>3
    <2>2. \A g \in Handlers : handler[g] = "alert" /\ g # h => g[1] # h[1]
      BY <1>1 DEF MappingInv, AlertsOK
    <2>3. \A g \in Handlers : inserted[g] /\ handler[g] = "lock" => g[1] # h[1]
      BY <1>1 DEF MappingInv, FirstIsFirst
    <2>4. \A g \in Handlers : /\ handler'[g] = "alert" => alerts'[g[1]] = 0 /\ thread[S(g)] # 0
                              /\ inserted[g] /\ handler'[g] = "lock" => alerts'[g[1]] = 0
      BY <1>2, <2>1, <2>2, <2>3, HandlerFacts DEF MappingInv, AlertsOK
    <2>5. \A e \in Turns : alerts'[e] # 0 => thread[SessionOf[e]] # 0
      BY <1>1, <1>2, HandlerFacts DEF MappingInv, AlertsOK
    <2>6. \A e \in Turns : alerts'[e] <= 1
      BY <1>1, <1>2 DEF MappingInv, AlertsOK, AlertedAtMostOnce
    <2> QED BY <1>1, <2>1, <2>4, <2>5, <2>6 DEF MappingInv, AlertsOK, AlertedAtMostOnce, S
  <1>7. ThreadsOK'
    <2>1. \A g \in Handlers : handler'[g] = "created" <=> handler[g] = "created"
      BY <1>1, <1>3
    <2>2. \A s \in Sessions : One(s)' = One(s)
      BY <2>1 DEF One, S
    <2> QED BY <1>1, <2>2 DEF MappingInv, ThreadsOK
  <1> QED BY <1>3, <1>4, <1>5, <1>6, <1>7 DEF MappingInv

\* How many threads of a session are made and not yet mapped.
LEMMA CreatedCounts ==
  ASSUME MappingInv, NEW s \in Sessions
  PROVE  Cardinality({h \in Creating(s) : handler[h] = "created"}) = One(s)
  <1> DEFINE C == {h \in Creating(s) : handler[h] = "created"}
  <1>1. CASE \E h \in Handlers : S(h) = s /\ handler[h] = "created"
    <2>1. PICK h \in Handlers : S(h) = s /\ handler[h] = "created"
      BY <1>1
    <2>2. C = {h}
      BY <2>1 DEF MappingInv, LockOK, Creating, Busy
    <2> QED BY <1>1, <2>2, FS_Singleton DEF One
  <1>2. CASE ~ \E h \in Handlers : S(h) = s /\ handler[h] = "created"
    <2>1. C = {}
      BY <1>2 DEF Creating
    <2> QED BY <1>2, <2>1, FS_EmptySet DEF One
  <1> QED BY <1>1, <1>2

LEMMA CrashInv ==
  ASSUME MappingInv, Crash
  PROVE  MappingInv'
  <1>1. /\ UNCHANGED <<disabled, workspaces, bound, thread, events, deliveries, inserted, made, alerts>>
        /\ \A h \in Handlers : handler'[h] = IF handler[h] \in {"none", "returned", "raised"}
                                             THEN handler[h] ELSE "lost"
        /\ queue' = [h \in {} |-> {}]
    BY DEF Crash, db
  <1>2. \A s \in Sessions : orphans'[s] = orphans[s] + One(s)
    BY CreatedCounts DEF Crash
  <1>3. MappingTypeOK'
    <2>1. handler' \in [Handlers -> HandlerState]
      BY DEF Crash, MappingInv, MappingTypeOK, HandlerState
    <2>2. orphans' \in [Sessions -> Nat]
      <3>1. \A s \in Sessions : orphans[s] + One(s) \in Nat
        BY DEF MappingInv, MappingTypeOK, One
      <3>2. orphans' = [s \in Sessions |-> orphans[s] + One(s)]
        BY CreatedCounts DEF Crash
      <3> QED BY <3>1, <3>2
    <2>3. faults' \in 0..MaxFaults
      BY MappingAssumption DEF Crash, Fault, MappingInv, MappingTypeOK
    <2> QED BY <1>1, <2>1, <2>2, <2>3 DEF MappingInv, MappingTypeOK
  <1>4. LockOK'
    BY <1>1 DEF LockOK, Busy
  <1>5. RegisteredOK'
    BY <1>1 DEF MappingInv, RegisteredOK, RegistrationIsAtomic
  <1>6. FirstIsFirst'
    BY <1>1 DEF FirstIsFirst
  <1>7. AlertsOK'
    BY <1>1 DEF MappingInv, AlertsOK, AlertedAtMostOnce
  <1>8. ThreadsOK'
    <2>1. \A s \in Sessions : One(s)' = 0
      BY <1>1 DEF One
    <2>2. \A s \in Sessions : orphans[s] \in Nat /\ One(s) \in Nat
      BY DEF MappingInv, MappingTypeOK, One
    <2> QED BY <1>1, <1>2, <2>1, <2>2 DEF MappingInv, ThreadsOK
  <1> QED BY <1>3, <1>4, <1>5, <1>6, <1>7, <1>8 DEF MappingInv

LEMMA MappingInductive == MappingSpec => []MappingInv
  <1>1. ASSUME MappingInv, [MappingNext]_mappingVars PROVE MappingInv'
    <2>1. CASE UNCHANGED mappingVars
      <3>1. UNCHANGED <<disabled, workspaces, bound, thread, events, deliveries, handler, inserted,
                        queue, made, alerts, orphans, faults>>
        BY <2>1 DEF mappingVars, db, tasks, discord
      <3> QED BY <1>1, <3>1 DEF MappingInv, MappingTypeOK, LockOK, RegisteredOK,
              RegistrationIsAtomic, FirstIsFirst, AlertsOK, AlertedAtMostOnce, ThreadsOK, One, S
    <2> QED BY <1>1, <2>1, HandleNotifyInv, AcquireInv, MakesThreadInv, ThreadCreatedInv,
            CreateFailsInv, AlertEndsInv, CrashInv DEF MappingNext, Progress, Idle
  <1> QED BY <1>1, MappingInitInv, PTL DEF MappingSpec

\* session_manager.py handle_notify under the session lock: every thread made in Discord
\* for a session is its thread, about to be, or lost by a fault.  No race makes two.
THEOREM OneThread == MappingSpec => []EveryThreadAccountedFor
  <1>1. MappingInv => EveryThreadAccountedFor
    BY CreatedCounts DEF MappingInv, ThreadsOK, EveryThreadAccountedFor
  <1> QED BY <1>1, MappingInductive, PTL

\* database.py register_notify: a refused notify leaves nothing behind, an accepted one
\* leaves the workspace, the session, the event and its delivery.
THEOREM RegisteredWhole == MappingSpec => []RegistrationIsAtomic
  <1>1. MappingInv => RegistrationIsAtomic
    BY DEF MappingInv, RegisteredOK
  <1> QED BY <1>1, MappingInductive, PTL

\* session_manager.py handle_notify: the owner is alerted at most once about a turn, in
\* whatever order its notifies arrive, wait, fail and are repeated.  It needs the order
\* in which the lock is given.
THEOREM OneAlert == MappingSpec => []AlertedAtMostOnce
  <1>1. MappingInv => AlertedAtMostOnce
    BY DEF MappingInv, AlertsOK
  <1> QED BY <1>1, MappingInductive, PTL

-----------------------------------------------------------------------------
(* The memory of the bridge.                                                *)

\* _remember: event e comes to the end, and the one at p makes room for it: e itself, or the
\* oldest, or nobody when p is the place behind the last.
Renewed(s, e, p) ==
    LET n == IF p <= Len(seen) THEN Len(seen) ELSE Len(seen) + 1 IN
    /\ s \in Seq(Events) /\ Len(s) = n /\ n \in 1..DedupeLimit /\ s[n] = e
    /\ \A j \in 1..n - 1 : s[j] = IF j < p THEN seen[j] ELSE seen[j + 1]
    /\ \A i \in 1..Len(seen) : seen[i] = e => i = p
    /\ p <= Len(seen) => seen[p] = e \/ (p = 1 /\ Len(seen) = DedupeLimit)

LEMMA RemoveAtFacts ==
  ASSUME NEW s \in Seq(Events), NEW p \in 1..Len(s)
  PROVE  /\ RemoveAt(s, p) \in Seq(Events) /\ Len(RemoveAt(s, p)) = Len(s) - 1
         /\ \A j \in 1..Len(s) - 1 : RemoveAt(s, p)[j] = IF j < p THEN s[j] ELSE s[j + 1]
  <1> DEFINE a == SubSeq(s, 1, p - 1)
             b == SubSeq(s, p + 1, Len(s))
  <1>1. a \in Seq(Events) /\ Len(a) = p - 1 /\ \A j \in 1..p - 1 : a[j] = s[j]
    OBVIOUS
  <1>2. b \in Seq(Events) /\ Len(b) = Len(s) - p /\ \A j \in 1..Len(s) - p : b[j] = s[p + j]
    <2>1. b \in Seq(Events)
      <3>1. \A k \in p + 1..Len(s) : s[k] \in Events
        OBVIOUS
      <3> QED BY <3>1
    <2>2. Len(b) = Len(s) - p
      OBVIOUS
    <2>3. ASSUME NEW j \in 1..Len(s) - p PROVE b[j] = s[p + j]
      OBVIOUS
    <2> QED BY <2>1, <2>2, <2>3
  <1>3. RemoveAt(s, p) = a \o b
    BY DEF RemoveAt
  <1> HIDE DEF a, b
  <1>4. a \o b \in Seq(Events) /\ Len(a \o b) = Len(s) - 1
    <2>1. a \in Seq(Events) /\ b \in Seq(Events)
      BY <1>1, <1>2
    <2>2. a \o b \in Seq(Events) /\ Len(a \o b) = Len(a) + Len(b)
      BY <2>1
    <2> QED BY <1>1, <1>2, <2>2
  <1>5. ASSUME NEW j \in 1..Len(s) - 1 PROVE (a \o b)[j] = IF j < p THEN s[j] ELSE s[j + 1]
    <2>1. (a \o b)[j] = IF j <= Len(a) THEN a[j] ELSE b[j - Len(a)]
      BY <1>1, <1>2
    <2>2. CASE j < p
      BY <1>1, <2>1, <2>2
    <2>3. CASE ~(j < p)
      BY <1>1, <1>2, <2>1, <2>3
    <2> QED BY <2>2, <2>3
  <1> QED BY <1>3, <1>4, <1>5

LEMMA AppendFacts ==
  ASSUME NEW s \in Seq(Events), NEW e \in Events
  PROVE  /\ Append(s, e) \in Seq(Events) /\ Len(Append(s, e)) = Len(s) + 1
         /\ Append(s, e)[Len(s) + 1] = e
         /\ \A j \in 1..Len(s) : Append(s, e)[j] = s[j]
  OBVIOUS

LEMMA RememberFacts ==
  ASSUME seen \in Seq(Events), Len(seen) <= DedupeLimit, IsInjective(seen), NEW e \in Events
  PROVE  \E p \in 1..Len(seen) + 1 : Renewed(Remember(e), e, p)
  <1> DEFINE L == Len(seen)
             s == Append(Without(e), e)
  <1>1. L \in Nat /\ L <= DedupeLimit /\ DedupeLimit \in Nat \ {0} /\ DOMAIN seen = 1..L
    BY BridgeAssumption
  <1>2. \A i, j \in 1..L : seen[i] = seen[j] => i = j
    BY <1>1 DEF IsInjective
  <1>3. Remember(e) = IF Len(s) > DedupeLimit THEN Tail(s) ELSE s
    BY DEF Remember
  <1>4. CASE e \in ToSet(seen)
    <2> DEFINE p == CHOOSE i \in DOMAIN seen : seen[i] = e
    <2>1. p \in 1..L /\ seen[p] = e
      <3>1. \E i \in DOMAIN seen : seen[i] = e
        BY <1>4 DEF ToSet
      <3> QED BY <1>1, <3>1
    <2>2. Without(e) = RemoveAt(seen, p)
      BY <1>4 DEF Without
    <2> HIDE DEF p
    <2>3. /\ Without(e) \in Seq(Events) /\ Len(Without(e)) = L - 1
          /\ \A j \in 1..L - 1 : Without(e)[j] = IF j < p THEN seen[j] ELSE seen[j + 1]
      BY <2>1, <2>2, RemoveAtFacts
    <2>4. /\ s \in Seq(Events) /\ Len(s) = L /\ s[L] = e
          /\ \A j \in 1..L - 1 : s[j] = Without(e)[j]
      <3>1. (L - 1) + 1 = L
        BY <1>1
      <3> QED BY <2>3, <3>1, AppendFacts
    <2>5. Remember(e) = s
      BY <1>1, <1>3, <2>4
    <2> HIDE DEF s
    <2>6. Renewed(s, e, p)
      <3>1. p <= Len(seen) /\ L \in 1..DedupeLimit
        BY <1>1, <2>1
      <3>2. \A i \in 1..L : seen[i] = e => i = p
        BY <1>2, <2>1
      <3>3. \A j \in 1..L - 1 : s[j] = IF j < p THEN seen[j] ELSE seen[j + 1]
        BY <2>3, <2>4
      <3> QED BY <2>1, <2>4, <3>1, <3>2, <3>3 DEF Renewed
    <2>7. p \in 1..L + 1
      BY <1>1, <2>1
    <2> QED BY <2>5, <2>6, <2>7
  <1>5. CASE e \notin ToSet(seen)
    <2>1. \A i \in 1..L : seen[i] # e
      BY <1>1, <1>5 DEF ToSet
    <2>2. s = Append(seen, e)
      BY <1>5 DEF Without
    <2>3. /\ s \in Seq(Events) /\ Len(s) = L + 1 /\ s[L + 1] = e
          /\ \A j \in 1..L : s[j] = seen[j]
      BY <1>1, <2>2
    <2> HIDE DEF s
    <2>4. CASE L < DedupeLimit
      <3>1. Remember(e) = s
        BY <1>1, <1>3, <2>3, <2>4
      <3>2. L + 1 \in 1..L + 1 /\ ~(L + 1 <= L) /\ L + 1 \in 1..DedupeLimit
        BY <1>1, <2>4
      <3>3. \A j \in 1..(L + 1) - 1 : s[j] = IF j < L + 1 THEN seen[j] ELSE seen[j + 1]
        BY <1>1, <2>3
      <3>4. Renewed(s, e, L + 1)
        BY <2>1, <2>3, <3>2, <3>3 DEF Renewed
      <3> QED BY <3>1, <3>2, <3>4
    <2>5. CASE L = DedupeLimit
      <3>1. Remember(e) = Tail(s)
        BY <1>1, <1>3, <2>3, <2>5
      <3>2. /\ Tail(s) \in Seq(Events) /\ Len(Tail(s)) = L
            /\ \A j \in 1..L : Tail(s)[j] = s[j + 1]
        BY <1>1, <2>3
      <3>3. L \in 1..DedupeLimit /\ 1 <= L /\ 1 \in 1..L + 1
        BY <1>1, <2>5
      <3>4. Tail(s)[L] = e /\ \A j \in 1..L - 1 : Tail(s)[j] = IF j < 1 THEN seen[j] ELSE seen[j + 1]
        BY <1>1, <2>3, <3>2, <3>3
      <3>5. Renewed(Tail(s), e, 1)
        BY <2>1, <2>5, <3>2, <3>3, <3>4 DEF Renewed
      <3>6. Renewed(Remember(e), e, 1)
        BY <3>1, <3>5
      <3> QED BY <3>3, <3>6
    <2>6. L < DedupeLimit \/ L = DedupeLimit
      <3> HIDE DEF L
      <3> QED BY ONLY <1>1
    <2> QED BY <2>4, <2>5, <2>6
  <1> QED BY <1>4, <1>5

-----------------------------------------------------------------------------
(* The bridge.                                                              *)

\* An answer that says so, and a remembered event, have a handler that has returned.
AnswersOK ==
    /\ ToSet(seen) \subseteq handled
    /\ \A c \in Senders : \/ answer[c] \in {"ACK", "DUPLICATE"} \/ sender[c] = "ok"
                             => content[c] \in handled
    /\ \A c \in Senders : task[c] = "handling" => content[c] \in Events

\* Those behind an event in the memory came after it.  An event is forgotten only
\* because the memory is full, and all that is in it came later.
MemoryOK ==
    /\ ToSet(seen) \subseteq DOMAIN since
    /\ \A e \in DOMAIN since : IsFiniteSet(since[e])
    /\ \A i, j \in 1..Len(seen) : i < j => seen[j] \in since[seen[i]]
    /\ \A e \in DOMAIN since \ ToSet(seen) :
          Len(seen) = DedupeLimit /\ ToSet(seen) \subseteq since[e]

BridgeInv == BridgeTypeOK /\ AnswersOK /\ MemoryOK

LEMMA MembersOf ==
  ASSUME NEW s \in Seq(Events), NEW x
  PROVE  x \in ToSet(s) <=> \E i \in 1..Len(s) : s[i] = x
  BY DEF ToSet

LEMMA BridgeInitInv == BridgeInit => BridgeInv
  <1> SUFFICES ASSUME BridgeInit PROVE BridgeInv
    OBVIOUS
  <1> USE DEF BridgeInit
  <1>1. seen = <<>> /\ DOMAIN since = {} /\ Len(seen) = 0 /\ ToSet(seen) = {}
    BY DEF ToSet
  <1>2. BridgeTypeOK
    BY <1>1, BridgeAssumption DEF BridgeTypeOK, Answers, IsInjective
  <1>3. AnswersOK
    BY <1>1 DEF AnswersOK
  <1>4. MemoryOK
    BY <1>1 DEF MemoryOK
  <1> QED BY <1>2, <1>3, <1>4 DEF BridgeInv

\* Steps that leave the memory alone.
LEMMA OthersInv ==
  ASSUME BridgeInv, NEW c \in Senders,
         Send(c) \/ Receive(c) \/ TimeOut(c) \/ ReadFrame(c) \/ ReadTimeout(c) \/ HandlerRaises(c)
  PROVE  BridgeInv'
  <1>1. UNCHANGED <<server, starts, seen, content, handled, since>>
    BY DEF Send, Receive, TimeOut, ReadFrame, ReadTimeout, HandlerRaises, Forgotten, serverVars,
           ghosts
  <1>2. /\ sender \in [Senders -> {"new", "waiting"} \cup Codes] /\ answer \in [Senders -> Answers]
        /\ task \in [Senders -> {"none", "closed"} \cup Open]
        /\ content \in [Senders -> Events \cup {Bad}] /\ content[c] \in Events \cup {Bad}
    BY DEF BridgeInv, BridgeTypeOK
  <1>3. /\ sender' \in [Senders -> {"new", "waiting"} \cup Codes] /\ answer' \in [Senders -> Answers]
        /\ task' \in [Senders -> {"none", "closed"} \cup Open]
    <2>1. CASE Send(c)
      BY <1>2, <2>1 DEF Send, Codes, Open
    <2>2. CASE Receive(c)
      BY <1>2, <2>2 DEF Receive, ExitCode, Answers, Codes
    <2>3. CASE TimeOut(c)
      BY <1>2, <2>3 DEF TimeOut, Codes
    <2>4. CASE ReadFrame(c) \/ ReadTimeout(c) \/ HandlerRaises(c)
      BY <1>2, <2>4 DEF ReadFrame, ReadTimeout, HandlerRaises, Reply, Answers, Open
    <2> QED BY <2>1, <2>2, <2>3, <2>4
  <1>4. ASSUME NEW x \in Senders
        PROVE  /\ answer'[x] \in {"ACK", "DUPLICATE"} =>
                     answer[x] \in {"ACK", "DUPLICATE"} \/ content[x] \in ToSet(seen)
               /\ sender'[x] = "ok" => sender[x] = "ok" \/ answer[x] \in {"ACK", "DUPLICATE"}
               /\ task'[x] = "handling" => task[x] = "handling" \/ content[x] \in Events
    <2>1. CASE Send(c)
      BY <1>2, <2>1 DEF Send
    <2>2. CASE Receive(c)
      BY <1>2, <2>2 DEF Receive, ExitCode, Answers
    <2>3. CASE TimeOut(c)
      BY <1>2, <2>3 DEF TimeOut
    <2>4. CASE ReadFrame(c) \/ ReadTimeout(c) \/ HandlerRaises(c)
      BY <1>2, <2>4 DEF ReadFrame, ReadTimeout, HandlerRaises, Reply
    <2> QED BY <2>1, <2>2, <2>3, <2>4
  <1>5. BridgeTypeOK'
    BY <1>1, <1>3 DEF BridgeInv, BridgeTypeOK, IsInjective
  <1>6. AnswersOK'
    <2>1. ToSet(seen)' = ToSet(seen)
      BY <1>1 DEF ToSet
    <2> QED BY <1>1, <1>4, <2>1 DEF BridgeInv, AnswersOK
  <1>7. MemoryOK'
    BY <1>1 DEF BridgeInv, MemoryOK, ToSet
  <1> QED BY <1>5, <1>6, <1>7 DEF BridgeInv

\* The server starts, closes and ends.
LEMMA ServerInv ==
  ASSUME BridgeInv, Start \/ Close \/ Exit
  PROVE  BridgeInv'
  <1>1. CASE Start
    <2>1. seen' = <<>> /\ DOMAIN since' = {} /\ Len(seen') = 0 /\ ToSet(seen)' = {}
      BY <1>1 DEF Start, ToSet
    <2>2. UNCHANGED <<content, sender, task, answer, handled>>
      BY <1>1 DEF Start
    <2>3. BridgeTypeOK'
      <3>1. server' \in {"down", "up", "stopping"} /\ starts' \in 0..MaxStarts
        BY <1>1, BridgeAssumption DEF Start, BridgeInv, BridgeTypeOK
      <3>2. seen' \in Seq(Events) /\ Len(seen') <= DedupeLimit /\ IsInjective(seen)'
        BY <2>1, BridgeAssumption DEF IsInjective
      <3> QED BY <2>1, <2>2, <3>1, <3>2 DEF BridgeInv, BridgeTypeOK
    <2>4. AnswersOK'
      BY <2>1, <2>2 DEF BridgeInv, AnswersOK
    <2>5. MemoryOK'
      BY <2>1 DEF MemoryOK
    <2> QED BY <2>3, <2>4, <2>5 DEF BridgeInv
  <1>2. CASE Close \/ Exit
    <2>1. UNCHANGED <<starts, seen, content, sender, handled, since>>
          /\ server' \in {"down", "up", "stopping"}
      BY <1>2 DEF Close, Exit, ghosts
    <2>2. /\ answer \in [Senders -> Answers] /\ task \in [Senders -> {"none", "closed"} \cup Open]
      BY DEF BridgeInv, BridgeTypeOK
    <2>3. /\ answer' \in [Senders -> Answers] /\ task' \in [Senders -> {"none", "closed"} \cup Open]
          /\ \A x \in Senders : /\ answer'[x] = answer[x] \/ answer'[x] = "EOF"
                                /\ task'[x] = "handling" => task[x] = "handling"
      BY <1>2, <2>2 DEF Close, Exit, Answers, Open
    <2>4. BridgeTypeOK'
      BY <2>1, <2>3 DEF BridgeInv, BridgeTypeOK, IsInjective
    <2>5. AnswersOK'
      <3>1. ToSet(seen)' = ToSet(seen)
        BY <2>1 DEF ToSet
      <3> QED BY <2>1, <2>3, <3>1 DEF BridgeInv, AnswersOK
    <2>6. MemoryOK'
      BY <2>1 DEF BridgeInv, MemoryOK, ToSet
    <2> QED BY <2>4, <2>5, <2>6 DEF BridgeInv
  <1> QED BY <1>1, <1>2

\* A handler returns: its event is the latest.
LEMMA HandlerReturnsInv ==
  ASSUME BridgeInv, NEW c \in Senders, HandlerReturns(c)
  PROVE  BridgeInv'
  <1> DEFINE e == content[c]
             L == Len(seen)
             K == Len(seen')
  <1>1. /\ e \in Events /\ seen' = Remember(e) /\ handled' = handled \cup {e}
        /\ since' = [x \in DOMAIN since \cup {e} |-> IF x = e THEN {} ELSE since[x] \cup {e}]
        /\ Reply(c, "ACK") /\ UNCHANGED <<server, starts, content, sender>>
    BY DEF HandlerReturns, BridgeInv, AnswersOK
  <1>2. /\ seen \in Seq(Events) /\ L <= DedupeLimit /\ IsInjective(seen) /\ L \in Nat
        /\ DedupeLimit \in Nat \ {0}
        /\ \A i, j \in 1..L : seen[i] = seen[j] => i = j
    BY BridgeAssumption DEF BridgeInv, BridgeTypeOK, IsInjective
  <1>3. PICK p \in 1..L + 1 : Renewed(seen', e, p)
    BY <1>1, <1>2, RememberFacts
  <1>4. /\ seen' \in Seq(Events) /\ K = (IF p <= L THEN L ELSE L + 1) /\ K \in 1..DedupeLimit
        /\ seen'[K] = e
        /\ \A j \in 1..K - 1 : seen'[j] = IF j < p THEN seen[j] ELSE seen[j + 1]
        /\ \A i \in 1..L : seen[i] = e => i = p
        /\ p <= L => seen[p] = e \/ (p = 1 /\ L = DedupeLimit)
    BY <1>3 DEF Renewed
  <1> HIDE DEF e, K, L
  \* The place in the old memory of what is now at j.
  <1> DEFINE was(j) == IF j < p THEN j ELSE j + 1
  <1>5. \A j \in 1..K - 1 : was(j) \in 1..L /\ was(j) # p /\ seen'[j] = seen[was(j)] /\ seen'[j] # e
    <2> SUFFICES ASSUME NEW j \in 1..K - 1
                 PROVE  was(j) \in 1..L /\ was(j) # p /\ seen'[j] = seen[was(j)] /\ seen'[j] # e
      OBVIOUS
    <2>1. was(j) \in 1..L /\ was(j) # p
      BY <1>2, <1>4
    <2>2. seen'[j] = seen[was(j)]
      BY <1>4
    <2> QED BY <1>4, <2>1, <2>2
  <1>6. \A i, j \in 1..K - 1 : i < j => was(i) < was(j)
    BY <1>2, <1>4
  <1>7. \A x : x \in ToSet(seen') <=> x = e \/ \E j \in 1..K - 1 : seen'[j] = x
    <2>1. \A j \in 1..K : j = K \/ j \in 1..K - 1
      BY <1>4
    <2>2. K \in 1..K /\ \A j \in 1..K - 1 : j \in 1..K
      BY <1>4
    <2>3. \A x : x \in ToSet(seen') <=> \E j \in 1..K : seen'[j] = x
      BY <1>4, MembersOf DEF K
    <2> QED BY <1>4, <2>1, <2>2, <2>3
  <1>8. \A x : x \in ToSet(seen) <=> \E i \in 1..L : seen[i] = x
    BY <1>2, MembersOf DEF L
  <1>9. \A x \in ToSet(seen') : x = e \/ x \in ToSet(seen)
    BY <1>5, <1>7, <1>8
  <1>10. IsInjective(seen')
    <2>1. ASSUME NEW i \in 1..K, NEW j \in 1..K, i < j PROVE seen'[i] # seen'[j]
      <3>1. i \in 1..K - 1
        BY <1>4, <2>1
      <3>2. CASE j = K
        BY <1>4, <1>5, <3>1, <3>2
      <3>3. CASE j \in 1..K - 1
        <4>1. was(i) # was(j) /\ was(i) \in 1..L /\ was(j) \in 1..L
          BY <1>2, <1>5, <1>6, <2>1, <3>1, <3>3
        <4> QED BY <1>2, <1>5, <3>1, <3>3, <4>1
      <3> QED BY <1>4, <3>2, <3>3
    <2>2. DOMAIN seen' = 1..K
      BY <1>4 DEF K
    <2>3. \A i, j \in 1..K : i = j \/ i < j \/ j < i
      BY <1>4
    <2> QED BY <2>1, <2>2, <2>3 DEF IsInjective
  \* What is forgotten was the oldest of a full memory.
  <1>11. ASSUME NEW x \in ToSet(seen), x \notin ToSet(seen')
         PROVE  x = seen[1] /\ p = 1 /\ L = DedupeLimit /\ K = DedupeLimit
    <2>1. PICK i \in 1..L : seen[i] = x
      BY <1>8
    <2>2. x # e
      BY <1>7, <1>11
    <2>3. i = p
      <3>1. CASE i < p
        <4>1. i \in 1..K - 1 /\ seen'[i] = seen[i]
          BY <1>2, <1>4, <3>1
        <4> QED BY <1>7, <1>11, <2>1, <4>1
      <3>2. CASE i > p
        <4>1. i - 1 \in 1..K - 1 /\ ~(i - 1 < p) /\ (i - 1) + 1 = i
          BY <1>2, <1>4, <3>2
        <4>2. seen'[i - 1] = seen[i]
          BY <1>4, <4>1
        <4> QED BY <1>7, <1>11, <2>1, <4>1, <4>2
      <3> QED BY <1>2, <3>1, <3>2
    <2> QED BY <1>2, <1>4, <2>1, <2>2, <2>3
  <1>12. BridgeTypeOK'
    <2>1. answer' \in [Senders -> Answers] /\ task' \in [Senders -> {"none", "closed"} \cup Open]
      BY <1>1 DEF Reply, Answers, BridgeInv, BridgeTypeOK
    <2>2. Len(seen') <= DedupeLimit
      BY <1>2, <1>4 DEF K
    <2>3. handled' \subseteq Events /\ DOMAIN since' \subseteq Events
          /\ \A x \in DOMAIN since' : since'[x] \subseteq Events
      BY <1>1 DEF BridgeInv, BridgeTypeOK
    <2> QED BY <1>1, <1>4, <1>10, <2>1, <2>2, <2>3 DEF BridgeInv, BridgeTypeOK
  <1>13. AnswersOK'
    <2>1. ToSet(seen') \subseteq handled'
      BY <1>1, <1>9 DEF BridgeInv, AnswersOK
    <2>2. ASSUME NEW x \in Senders
          PROVE  /\ answer'[x] \in {"ACK", "DUPLICATE"} \/ sender[x] = "ok" => content[x] \in handled'
                 /\ task'[x] = "handling" => content[x] \in Events
      <3>1. CASE x = c
        BY <1>1, <3>1 DEF Reply, BridgeInv, BridgeTypeOK, e
      <3>2. CASE x # c
        BY <1>1, <3>2 DEF Reply, BridgeInv, BridgeTypeOK, AnswersOK
      <3> QED BY <3>1, <3>2
    <2> QED BY <1>1, <2>1, <2>2 DEF AnswersOK
  <1>14. MemoryOK'
    <2>1. /\ DOMAIN since' = DOMAIN since \cup {e} /\ since'[e] = {}
          /\ \A x \in DOMAIN since \ {e} : since'[x] = since[x] \cup {e}
      BY <1>1
    <2>2. /\ ToSet(seen) \subseteq DOMAIN since /\ \A x \in DOMAIN since : IsFiniteSet(since[x])
          /\ \A i, j \in 1..L : i < j => seen[j] \in since[seen[i]]
          /\ \A x \in DOMAIN since \ ToSet(seen) :
                L = DedupeLimit /\ ToSet(seen) \subseteq since[x]
      BY DEF BridgeInv, MemoryOK, L
    <2>3. ToSet(seen') \subseteq DOMAIN since'
      BY <1>9, <2>1, <2>2
    <2>4. ASSUME NEW x \in DOMAIN since' PROVE IsFiniteSet(since'[x])
      <3>1. CASE x = e
        BY <2>1, <3>1, FS_EmptySet
      <3>2. CASE x # e
        <4>1. IsFiniteSet(since[x] \cup {e})
          BY <2>1, <2>2, <3>2, FS_AddElement
        <4> QED BY <2>1, <3>2, <4>1
      <3> QED BY <3>1, <3>2
    <2>5. ASSUME NEW i \in 1..K, NEW j \in 1..K, i < j PROVE seen'[j] \in since'[seen'[i]]
      <3>1. i \in 1..K - 1
        BY <1>4, <2>5
      <3>2. /\ was(i) \in 1..L /\ seen'[i] = seen[was(i)] /\ seen'[i] # e
            /\ seen'[i] \in DOMAIN since
        BY <1>5, <1>8, <2>2, <3>1
      <3>3. since'[seen'[i]] = since[seen'[i]] \cup {e}
        BY <2>1, <3>2
      <3>4. CASE j = K
        BY <1>4, <3>3, <3>4
      <3>5. CASE j \in 1..K - 1
        <4>1. was(i) < was(j) /\ was(j) \in 1..L /\ seen'[j] = seen[was(j)]
          BY <1>5, <1>6, <2>5, <3>1, <3>5
        <4> QED BY <2>2, <3>2, <3>3, <4>1
      <3> QED BY <1>4, <3>4, <3>5
    <2>6. ASSUME NEW x \in DOMAIN since' \ ToSet(seen')
          PROVE  K = DedupeLimit /\ ToSet(seen') \subseteq since'[x]
      <3>1. x # e /\ x \in DOMAIN since /\ since'[x] = since[x] \cup {e}
        BY <1>7, <2>1, <2>6
      <3>2. CASE x \notin ToSet(seen)
        <4>1. L = DedupeLimit /\ ToSet(seen) \subseteq since[x]
          BY <2>2, <3>1, <3>2
        <4>2. K = DedupeLimit
          BY <1>2, <1>4, <4>1
        <4> QED BY <1>9, <3>1, <4>1, <4>2
      <3>3. CASE x \in ToSet(seen)
        <4>1. x = seen[1] /\ p = 1 /\ L = DedupeLimit /\ K = DedupeLimit
          BY <1>11, <2>6, <3>3
        <4>2. ASSUME NEW y \in ToSet(seen'), y # e PROVE y \in since[x]
          <5>1. PICK j \in 1..K - 1 : seen'[j] = y
            BY <1>7, <4>2
          <5>2. was(j) \in 1..L /\ y = seen[was(j)] /\ 1 < was(j) /\ 1 \in 1..L
            BY <1>2, <1>4, <1>5, <4>1, <5>1
          <5> QED BY <2>2, <4>1, <5>2
        <4> QED BY <3>1, <4>1, <4>2
      <3> QED BY <3>2, <3>3
    <2> QED BY <2>3, <2>4, <2>5, <2>6 DEF MemoryOK, K
  <1> QED BY <1>12, <1>13, <1>14 DEF BridgeInv

LEMMA BridgeInductive == BridgeSpec => []BridgeInv
  <1>1. ASSUME BridgeInv, [BridgeNext]_bridgeVars PROVE BridgeInv'
    <2>1. CASE UNCHANGED bridgeVars
      <3>1. UNCHANGED <<server, starts, seen, content, sender, task, answer, handled, since>>
        BY <2>1 DEF bridgeVars
      <3> QED BY <1>1, <3>1 DEF BridgeInv, BridgeTypeOK, AnswersOK, MemoryOK, ToSet, IsInjective
    <2> QED BY <1>1, <2>1, OthersInv, ServerInv, HandlerReturnsInv
            DEF BridgeNext, Connection, NothingLeft
  <1> QED BY <1>1, BridgeInitInv, PTL DEF BridgeSpec

\* notify_server.py _handle_connection: a sender that was told ACK or DUPLICATE can forget
\* its event, because its handler has returned.
THEOREM AckIsFinal == BridgeSpec => []AckMeansHandled
  <1>1. BridgeInv => AckMeansHandled
    BY DEF BridgeInv, AnswersOK, AckMeansHandled
  <1> QED BY <1>1, BridgeInductive, PTL

LEMMA SizeOfMemory ==
  ASSUME NEW s \in Seq(Events), IsInjective(s)
  PROVE  IsFiniteSet(ToSet(s)) /\ Cardinality(ToSet(s)) = Len(s)
  <1>1. 1 \in Int /\ Len(s) \in Int /\ Len(s) \in Nat
    OBVIOUS
  <1>2. IsFiniteSet(1..Len(s)) /\ Cardinality(1..Len(s)) = Len(s)
    BY <1>1, FS_Interval
  <1>3. s \in Bijection(1..Len(s), ToSet(s))
    <2>1. s \in [1..Len(s) -> ToSet(s)]
      BY DEF ToSet
    <2>2. \A a, b \in 1..Len(s) : s[a] = s[b] => a = b
      BY DEF IsInjective
    <2>3. \A x \in ToSet(s) : \E a \in 1..Len(s) : s[a] = x
      BY DEF ToSet
    <2> QED BY <2>1, <2>2, <2>3 DEF Bijection, Injection, Surjection
  <1> QED BY <1>2, <1>3, FS_Bijection DEF ExistsBijection

\* notify_server.py _remember: the memory is the limit latest events, so that none of them
\* is handled twice, whatever was handled again in between.
THEOREM MemoryIsRecent == BridgeSpec => []SeenIsRecent
  <1>1. BridgeInv => SeenIsRecent
    <2> SUFFICES ASSUME BridgeInv, NEW e \in DOMAIN since, e \notin ToSet(seen),
                        Cardinality(since[e]) < DedupeLimit
                 PROVE  FALSE
      BY DEF SeenIsRecent
    <2>1. /\ Len(seen) = DedupeLimit /\ ToSet(seen) \subseteq since[e] /\ IsFiniteSet(since[e])
          /\ seen \in Seq(Events) /\ IsInjective(seen)
      BY DEF BridgeInv, MemoryOK, BridgeTypeOK
    <2>2. Cardinality(ToSet(seen)) = DedupeLimit
      BY <2>1, SizeOfMemory
    <2>3. Cardinality(ToSet(seen)) <= Cardinality(since[e])
          /\ Cardinality(ToSet(seen)) \in Nat /\ Cardinality(since[e]) \in Nat
      BY <2>1, FS_Subset, FS_CardinalityType
    <2> QED BY <2>2, <2>3, BridgeAssumption
  <1> QED BY <1>1, BridgeInductive, PTL


-----------------------------------------------------------------------------
(* The three stages together.                                               *)

\* Each stage is left alone by the others: a behaviour of the path is one of each of them.
LEMMA StagesRun == PathSpec => BridgeSpec /\ MappingSpec /\ DeliverySpec
  <1>1. PathInit => BridgeInit /\ MappingInit /\ DeliveryInit
    BY DEF PathInit
  <1>2. ASSUME [PathNext]_pathVars
        PROVE  [BridgeNext]_bridgeVars /\ [MappingNext]_mappingVars /\ [DeliveryNext]_deliveryVars
    BY <1>2 DEF PathNext, pathVars
  <1> QED BY <1>1, <1>2, PTL DEF PathSpec, BridgeSpec, MappingSpec, DeliverySpec

\* The types of the senders, the server, the session mapping and the outbox, together.
THEOREM PathTypes == PathSpec => []PathTypeOK
  <1>1. BridgeInv /\ MappingInv /\ IInv => PathTypeOK
    BY DEF BridgeInv, MappingInv, IInv, PathTypeOK
  <1> QED BY <1>1, StagesRun, BridgeInductive, MappingInductive, Inductive, PTL

\* On the whole way from Codex to Discord: a sender that was told so may forget its event, a
\* session has one thread and its owner one alert, and a completion is shown once unless
\* Discord's answer was lost, for ever once it is settled.
THEOREM PathIsSafe ==
    PathSpec => /\ [](AckMeansHandled /\ SeenIsRecent)
                /\ [](EveryThreadAccountedFor /\ RegistrationIsAtomic /\ AlertedAtMostOnce)
                /\ []DuplicateNeedsLostAnswer /\ SettledStaysSettled /\ ImplementsOutbox
  BY StagesRun, AckIsFinal, MemoryIsRecent, OneThread, RegisteredWhole, OneAlert, AnswersDecide,
     SettledForEver, OutboxImplemented, PTL

=============================================================================
