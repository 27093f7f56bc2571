-------------------------- MODULE JobManager_safety --------------------------
(***************************************************************************)
(* The safety of the job queue, for every set of sessions and turns and    *)
(* every bound: IInv is inductive.  The proof has two halves.  What happens *)
(* to the jobs: every step either claims one waiting job in a session that *)
(* has none dispatched, or sets the mode of a session that has no open job, *)
(* or claims nothing.  What happens to the processes: only StartLive and   *)
(* StartManaged start one, for a job claimed and never started.            *)
(* With IInv, every step is one of JobQueue or leaves it alone.            *)
(***************************************************************************)
EXTENDS JobManager_proofs

Claims ==
    \E d \in Db, j \in Jobs :
        /\ NoClaim(db, d) /\ CanBeginDispatch(d, j)
        /\ db' = BeginJobDispatch(d, j)
        /\ Start(j, d.mode[Thread[j]])

SetsMode ==
    /\ \E s \in Sessions, m \in Mode : CanSetMode(db, s) /\ db' = SetSessionMode(db, s, m)
    /\ UNCHANGED <<run, via>>

\* No coroutine is begun for a job that has none.
ClaimsNothing ==
    /\ NoClaim(db, db')
    /\ UNCHANGED via
    /\ \A j \in Jobs : run[j] = "none" => run'[j] = "none"

-----------------------------------------------------------------------------
(* The kinds of steps *)

\* Auto-run claims the oldest waiting job, pauses the queue or does nothing.
LEMMA AutoDispatchCases ==
  ASSUME NEW d \in Db, NEW s \in Sessions, AutoDispatch(d, s)
  PROVE  \/ \E j \in Jobs : /\ CanAutoDispatch(d, s) /\ IsOldest(QueuedJobs(d, s), j)
                            /\ Thread[j] = s /\ d.job[j] = "QUEUED"
                            /\ CanBeginDispatch(d, j)
                            /\ db' = BeginJobDispatch(d, j)
                            /\ Start(j, d.mode[Thread[j]])
                            /\ background' = background \cup {j}
         \/ /\ db' \in {d, SetSessionStatus(SetSessionAutoRun(d, s, FALSE), s, "ERROR")}
            /\ UNCHANGED <<run, via, background>>
  <1>1. CASE \E j \in Jobs : /\ CanAutoDispatch(d, s) /\ IsOldest(QueuedJobs(d, s), j)
                            /\ db' = BeginJobDispatch(d, j)
                            /\ Start(j, d.mode[s])
                            /\ background' = background \cup {j}
    <2>1. PICK j \in Jobs : /\ CanAutoDispatch(d, s) /\ IsOldest(QueuedJobs(d, s), j)
                            /\ db' = BeginJobDispatch(d, j)
                            /\ Start(j, d.mode[s])
                            /\ background' = background \cup {j}
      BY <1>1
    <2>2. Thread[j] = s /\ d.job[j] = "QUEUED"
      BY <2>1 DEF IsOldest, QueuedJobs, JobsIn
    <2>3. CanBeginDispatch(d, j)
      BY <2>1, <2>2 DEF CanAutoDispatch, CanBeginDispatch
    <2> QED BY <2>1, <2>2, <2>3
  <1>2. CASE /\ db' \in {d, SetSessionStatus(SetSessionAutoRun(d, s, FALSE), s, "ERROR")}
             /\ UNCHANGED <<run, via, background>>
    BY <1>2
  <1> QED BY <1>1, <1>2 DEF AutoDispatch

LEMMA AutoDispatchKind ==
  ASSUME TypeOK, NEW d \in Db, NEW s \in Sessions, NoClaim(db, d), AutoDispatch(d, s)
  PROVE  Claims \/ (ClaimsNothing /\ UNCHANGED <<run, via>>)
  <1>1. CASE db' = SetSessionStatus(SetSessionAutoRun(d, s, FALSE), s, "ERROR")
             /\ UNCHANGED <<run, via>>
    BY <1>1, PauseNoClaim, NoClaimTransitive DEF ClaimsNothing
  <1>2. CASE db' = d /\ UNCHANGED <<run, via>>
    BY <1>2 DEF ClaimsNothing
  <1> QED BY <1>1, <1>2, AutoDispatchCases DEF Claims

LEMMA MessageSectionKind ==
  ASSUME TypeOK, NEW d \in Db, NEW k \in Jobs, NoClaim(db, d), MessageSection(k, d)
  PROVE  Claims \/ ClaimsNothing
  <1>1. CASE /\ CanBeginDispatch(d, k) /\ db' = BeginJobDispatch(d, k)
             /\ Start(k, d.mode[Thread[k]])
    BY <1>1 DEF Claims
  <1>2. CASE db' = d /\ UNCHANGED <<run, via>>
    BY <1>2 DEF ClaimsNothing
  <1> QED BY <1>1, <1>2 DEF MessageSection

LEMMA CompletionSectionKind ==
  ASSUME TypeOK, NEW d \in Db, NEW t \in Turns, NEW c \in Copies, NoClaim(db, d),
         CompletionSection(t, c, d)
  PROVE  Claims \/ (ClaimsNothing /\ UNCHANGED <<run, via>>)
  <1> DEFINE e == CompleteDispatchedJob(d, Thread[t])
  <1>1. e \in Db /\ Thread[t] \in Sessions
    BY ThreadType, SessionTransactionTypes
  <1>2. NoClaim(db, e)
    BY <1>1, SessionsNoClaim, NoClaimTransitive
  <1>3. \A f \in {d} \cup HalfCompletion(d, Thread[t]) : NoClaim(db, f)
    BY <1>1, HalfCompletionNoClaim, NoClaimTransitive
  <1> HIDE DEF e
  <1>4. \/ AutoDispatch(e, Thread[t])
        \/ db' \in {d} \cup HalfCompletion(d, Thread[t]) /\ UNCHANGED <<run, via>>
    BY DEF CompletionSection, e
  <1> QED BY <1>1, <1>2, <1>3, <1>4, AutoDispatchKind DEF ClaimsNothing

LEMMA ReachLockKind ==
  ASSUME TypeOK, NEW d \in Db, NEW t \in Turns, NEW c \in Copies, NoClaim(db, d),
         ReachLock(t, c, d)
  PROVE  Claims \/ (ClaimsNothing /\ UNCHANGED <<run, via>>)
  BY CompletionSectionKind DEF ReachLock, ClaimsNothing

\* What a dying handler leaves in the database claims nothing.
LEMMA HalfDoneKind ==
  ASSUME TypeOK, NEW d \in HalfDone
  PROVE  NoClaim(db, d)
  <1>1. db \in Db
    BY DEF TypeOK
  <1>2. \A k \in Jobs : NoClaim(db, CreateJob(db, k))
    BY <1>1, JobsNoClaim
  <1>3. \A s \in Sessions : db.status[s] \notin {"ERROR", "OFFLINE"} =>
                              NoClaim(db, SetSessionAutoRun(db, s, TRUE))
    BY <1>1, SessionsNoClaim
  <1>4. \A t \in Turns : RegisterNotify(db, t) \in Db /\ NoClaim(db, RegisterNotify(db, t))
    BY <1>1, RegisterNotifyType, RegisterNotifyNoClaim
  <1>5. \A t \in Turns : \A e \in HalfCompletion(db, Thread[t]) : NoClaim(db, e)
    BY <1>1, ThreadType, HalfCompletionNoClaim
  <1>6. \A t \in Turns : \A e \in HalfCompletion(RegisterNotify(db, t), Thread[t]) :
                            NoClaim(db, e)
    BY <1>4, ThreadType, HalfCompletionNoClaim, NoClaimTransitive
  <1>7. NoClaim(db, db)
    BY <1>1 DEF NoClaim, Terminal
  <1> QED BY <1>2, <1>3, <1>4, <1>5, <1>6, <1>7, HalfDoneCases

LEMMA DispatchKind ==
  ASSUME TypeOK, NEW j \in Jobs, Dispatches(j)
  PROVE  ClaimsNothing
  <1> USE DEF tasks, runner, codex
  <1>0. db \in Db /\ Thread[j] \in Sessions /\ run \in [Jobs -> RunState]
    BY ThreadType DEF TypeOK
  <1>1. /\ NoClaim(db, db)
        /\ NoClaim(db, CancelDispatchedJob(db, j))
        /\ NoClaim(db, MarkJobFailed(db, j, "ERROR"))
        /\ \A o : NoClaim(db, Failed(j, o))
        /\ NoClaim(db, SetSessionStatus(db, Thread[j], "WAITING"))
    BY <1>0, JobsNoClaim, SessionsNoClaim DEF Failed
  <1>2. run[j] # "none" /\ UNCHANGED via
    BY DEF Dispatches, StartLive, StartManaged, StartRefused, StartRejected, LiveReturns,
           ManagedReturns, ManagedAbandoned
  <1>3. \A i \in Jobs : i # j => run'[i] = run[i]
    BY <1>0 DEF Dispatches, StartLive, StartManaged, StartRefused, StartRejected, LiveReturns,
           ManagedReturns, ManagedAbandoned, Finish
  <1>4. NoClaim(db, db')
    <2>1. CASE StartLive(j) \/ StartManaged(j) \/ ManagedAbandoned(j)
      BY <1>1, <2>1 DEF StartLive, StartManaged, ManagedAbandoned
    <2>2. CASE StartRefused(j) \/ StartRejected(j)
      BY <1>1, <2>2 DEF StartRefused, StartRejected, MarkFailed
    <2>3. CASE LiveReturns(j)
      BY <1>1, <2>3 DEF LiveReturns
    <2>4. CASE ManagedReturns(j)
      <3>1. NoClaim(db, ManagedResult(j))
        BY <1>1 DEF ManagedResult
      <3> QED BY <1>1, <2>4, <3>1 DEF ManagedReturns
    <2> QED BY <2>1, <2>2, <2>3, <2>4 DEF Dispatches
  <1> QED BY <1>2, <1>3, <1>4 DEF ClaimsNothing

LEMMA DieKind ==
  ASSUME TypeOK, NEW d, NoClaim(db, d), Die(d)
  PROVE  ClaimsNothing
  BY DEF TypeOK, Die, ClaimsNothing

LEMMA LifecycleKind ==
  ASSUME TypeOK, Lifecycle
  PROVE  ClaimsNothing
  <1> USE DEF tasks, runner, codex
  <1>0. db \in Db /\ NoClaim(db, db)
    BY DEF TypeOK, NoClaim, Terminal
  <1>1. CASE BeginShutdown
    BY <1>0, <1>1 DEF BeginShutdown, ClaimsNothing
  <1>2. CASE CloseRunner
    BY <1>0, <1>2 DEF CloseRunner, ClaimsNothing
  <1>3. CASE FinishShutdown
    BY <1>0, <1>3, FailJobsNoClaim DEF FinishShutdown, ClaimsNothing
  <1>4. CASE Exit
    BY <1>0, <1>4, DieKind DEF Exit
  <1>5. CASE Crash
    BY <1>5, HalfDoneKind, DieKind DEF Crash
  <1>6. CASE Restart
    BY <1>0, <1>6, RecoverNoClaim DEF Restart, ClaimsNothing
  <1> QED BY <1>1, <1>2, <1>3, <1>4, <1>5, <1>6 DEF Lifecycle

LEMMA StepKind == TypeOK /\ [Next]_vars => Claims \/ SetsMode \/ ClaimsNothing
  <1> SUFFICES ASSUME TypeOK, [Next]_vars PROVE Claims \/ SetsMode \/ ClaimsNothing
    OBVIOUS
  <1> USE DEF tasks, runner, codex
  <1>0. db \in Db /\ NoClaim(db, db)
    BY DEF TypeOK, NoClaim, Terminal
  <1>1. ASSUME NEW k \in Jobs, Messages(k) PROVE Claims \/ ClaimsNothing
    <2>1. CreateJob(db, k) \in Db /\ NoClaim(db, CreateJob(db, k))
      BY <1>0, JobTransactionTypes, JobsNoClaim
    <2>2. CASE HandleMessage(k)
      BY <2>1, <2>2, MessageSectionKind DEF HandleMessage, ClaimsNothing
    <2>3. CASE ReplayMessage(k)
      BY <2>1, <2>3 DEF ReplayMessage, ClaimsNothing
    <2>4. CASE MessageLocked(k)
      BY <1>0, <2>4, MessageSectionKind DEF MessageLocked
    <2>5. CASE FeedbackSent(k)
      BY <1>0, <2>5 DEF FeedbackSent, ClaimsNothing
    <2>6. CASE MessageRefused(k)
      BY <1>0, <2>6, ThreadType, SessionsNoClaim DEF MessageRefused, ClaimsNothing
    <2> QED BY <1>1, <2>2, <2>3, <2>4, <2>5, <2>6 DEF Messages
  <1>2. ASSUME NEW t \in Turns, NEW c \in Copies, Notifies(t, c) PROVE Claims \/ ClaimsNothing
    <2>1. RegisterNotify(db, t) \in Db /\ NoClaim(db, RegisterNotify(db, t))
      BY <1>0, RegisterNotifyType, RegisterNotifyNoClaim
    <2>2. CASE HandleNotify(t, c)
      BY <1>0, <2>1, <2>2, ReachLockKind DEF HandleNotify, ClaimsNothing
    <2>3. CASE AlertSent(t, c)
      BY <1>0, <2>3, ReachLockKind DEF AlertSent
    <2>4. CASE NotifyLocked(t, c)
      BY <1>0, <2>4, CompletionSectionKind DEF NotifyLocked
    <2>5. CASE Delivered(t, c)
      BY <1>0, <2>5 DEF Delivered, ClaimsNothing
    <2> QED BY <1>2, <2>2, <2>3, <2>4, <2>5 DEF Notifies
  <1>3. ASSUME NEW j \in Jobs, Externals(j) PROVE ClaimsNothing
    BY <1>0, <1>3 DEF Externals, PromptTaken, ChildExits, ClaimsNothing
  <1>4. ASSUME NEW t \in Turns, TurnEnds(t) PROVE ClaimsNothing
    BY <1>0, <1>4 DEF TurnEnds, ClaimsNothing
  <1>5. ASSUME NEW j \in Jobs, Cancels(j) PROVE ClaimsNothing
    BY <1>0, <1>5, JobsNoClaim
       DEF Cancels, CancelQueued, CancelManaged, CancelReturns, ClaimsNothing
  <1>6. ASSUME NEW s \in Sessions, SessionCommands(s)
        PROVE  Claims \/ SetsMode \/ ClaimsNothing
    <2>1. CASE AutoOn(s)
      <3>1. SetSessionAutoRun(db, s, TRUE) \in Db /\ NoClaim(db, SetSessionAutoRun(db, s, TRUE))
        BY <1>0, <2>1, SessionTransactionTypes, SessionsNoClaim DEF AutoOn
      <3> QED BY <2>1, <3>1, AutoDispatchKind DEF AutoOn, ClaimsNothing
    <2>2. CASE AutoOff(s)
      BY <1>0, <2>2, SessionsNoClaim DEF AutoOff, ClaimsNothing
    <2>3. CASE ResumeAutoRun(s)
      BY <1>0, <2>3, AutoDispatchKind DEF ResumeAutoRun
    <2>4. ASSUME NEW m \in Modes, SetMode(s, m) PROVE SetsMode
      BY <2>4, ChoiceAssumption DEF SetMode, SetsMode
    <2> QED BY <1>6, <2>1, <2>2, <2>3, <2>4 DEF SessionCommands
  <1>7. CASE UNCHANGED vars
    BY <1>0, <1>7 DEF vars, ClaimsNothing
  <1> QED BY <1>1, <1>2, <1>3, <1>4, <1>5, <1>6, <1>7, DispatchKind, LifecycleKind DEF Next

-----------------------------------------------------------------------------
(* The jobs *)

LEMMA ClaimFacts ==
  ASSUME IInv, NEW d \in Db, NEW j \in Jobs,
         NoClaim(db, d), CanBeginDispatch(d, j), db' = BeginJobDispatch(d, j),
         Start(j, d.mode[Thread[j]])
  PROVE  /\ run[j] = "none" /\ run'[j] = "claimed"
         /\ via'[j] = db.mode[Thread[j]]
         /\ \A i \in Jobs : i # j => run'[i] = run[i] /\ via'[i] = via[i]
         /\ db'.mode = db.mode
         /\ db'.job[j] = "DISPATCHED"
         /\ \A i \in Jobs : i # j => db'.job[i] = d.job[i]
         /\ \A i \in Jobs : Thread[i] = Thread[j] => d.job[i] # "DISPATCHED"
  <1>1. /\ run \in [Jobs -> RunState] /\ via \in [Jobs -> Mode \cup {"NONE"}]
        /\ Thread[j] \in Sessions
    BY ThreadType DEF IInv, TypeOK
  <1>2. db.job[j] \in {Absent, "QUEUED"}
    BY DEF NoClaim, CanBeginDispatch, Terminal
  <1>3. run[j] = "none"
    BY <1>2 DEF IInv, Unclaimed
  <1>4. d.mode = db.mode
    BY DEF NoClaim
  <1>5. /\ db'.mode = d.mode /\ db'.job[j] = "DISPATCHED"
        /\ \A i \in Jobs : i # j => db'.job[i] = d.job[i]
    BY DEF BeginJobDispatch, Db
  <1>6. \A i \in Jobs : Thread[i] = Thread[j] => d.job[i] # "DISPATCHED"
    BY DEF CanBeginDispatch, DispatchedJobs, JobsIn
  <1> QED BY <1>1, <1>3, <1>4, <1>5, <1>6 DEF Start

LEMMA JobsStep ==
  IInv /\ [Next]_vars => Unclaimed' /\ OneDispatched' /\ RunnerMatchesMode'
  <1> SUFFICES ASSUME IInv, [Next]_vars
               PROVE  Unclaimed' /\ OneDispatched' /\ RunnerMatchesMode'
    OBVIOUS
  <1>0. /\ TypeOK /\ Unclaimed /\ OneDispatched /\ RunnerMatchesMode
        /\ db \in Db
    BY DEF IInv, TypeOK
  <1>1. CASE Claims
    <2>1. PICK d \in Db, j \in Jobs : /\ NoClaim(db, d) /\ CanBeginDispatch(d, j)
                                      /\ db' = BeginJobDispatch(d, j)
                                      /\ Start(j, d.mode[Thread[j]])
      BY <1>1 DEF Claims
    <2>2. /\ run[j] = "none" /\ run'[j] = "claimed"
          /\ via'[j] = db.mode[Thread[j]]
          /\ \A i \in Jobs : i # j => run'[i] = run[i] /\ via'[i] = via[i]
          /\ db'.mode = db.mode
          /\ db'.job[j] = "DISPATCHED"
          /\ \A i \in Jobs : i # j => db'.job[i] = d.job[i]
          /\ \A i \in Jobs : Thread[i] = Thread[j] => d.job[i] # "DISPATCHED"
      BY <2>1, ClaimFacts
    <2>3. Unclaimed'
      BY <1>0, <2>1, <2>2 DEF Unclaimed, NoClaim, Terminal, Absent
    <2>4. OneDispatched'
      <3>1. \A i \in Jobs : i # j /\ db'.job[i] = "DISPATCHED" => db.job[i] = "DISPATCHED"
        BY <2>1, <2>2 DEF NoClaim, Terminal
      <3> QED BY <1>0, <2>1, <2>2, <3>1 DEF OneDispatched, DispatchedJobs, JobsIn
    <2>5. RunnerMatchesMode'
      BY <1>0, <2>1, <2>2 DEF RunnerMatchesMode, NoClaim, Terminal
    <2> QED BY <2>3, <2>4, <2>5
  <1>2. CASE SetsMode
    <2>1. PICK s \in Sessions, m \in Mode : CanSetMode(db, s) /\ db' = SetSessionMode(db, s, m)
      BY <1>2 DEF SetsMode
    <2>2. /\ UNCHANGED <<run, via>>
          /\ db'.job = db.job /\ db'.auto = db.auto
          /\ \A r \in Sessions : r # s => db'.mode[r] = db.mode[r] /\ db'.status[r] = db.status[r]
          /\ db'.status[s] = "IDLE"
      BY <1>0, <1>2, <2>1 DEF SetsMode, SetSessionMode, Db
    <2>3. \A j \in Jobs : Thread[j] = s => db.job[j] # "DISPATCHED"
      BY <2>1 DEF CanSetMode, DispatchedJobs, JobsIn
    <2>4. Unclaimed' /\ OneDispatched'
      BY <1>0, <2>2 DEF Unclaimed, OneDispatched, DispatchedJobs, JobsIn
    <2>5. RunnerMatchesMode'
      BY <1>0, <2>2, <2>3, ThreadType DEF RunnerMatchesMode
    <2> QED BY <2>4, <2>5
  <1>3. CASE ClaimsNothing
    <2>1. \A j \in Jobs : db'.job[j] = "DISPATCHED" => db.job[j] = "DISPATCHED"
      BY <1>3 DEF ClaimsNothing, NoClaim, Terminal
    <2>2. Unclaimed'
      BY <1>0, <1>3 DEF Unclaimed, ClaimsNothing, NoClaim, Terminal, Absent
    <2>3. OneDispatched'
      BY <1>0, <2>1 DEF OneDispatched, DispatchedJobs, JobsIn
    <2>4. RunnerMatchesMode'
      BY <1>0, <1>3, <2>1 DEF RunnerMatchesMode, ClaimsNothing, NoClaim
    <2> QED BY <2>2, <2>3, <2>4
  <1> QED BY <1>0, <1>1, <1>2, <1>3, StepKind

\* While the service stays up no coroutine dies.
LEMMA UpStep ==
  ASSUME TypeOK, [Next]_vars, phase' = "up"
  PROVE  \/ phase = "up" /\ \A j \in Jobs : run'[j] = "lost" => run[j] = "lost"
         \/ Restart
  <1> USE DEF tasks, runner, codex
  <1>0. run \in [Jobs -> RunState]
    BY DEF TypeOK
  <1> DEFINE Up == phase = "up" /\ \A j \in Jobs : run'[j] = "lost" => run[j] = "lost"
  <1>1. \A d, s : AutoDispatch(d, s) => \A j \in Jobs : run'[j] = "lost" => run[j] = "lost"
    BY <1>0 DEF AutoDispatch, Start
  <1>2. \A k, d : MessageSection(k, d) => \A j \in Jobs : run'[j] = "lost" => run[j] = "lost"
    BY <1>0 DEF MessageSection, Start
  <1>3. \A t, c, d : CompletionSection(t, c, d) =>
                       \A j \in Jobs : run'[j] = "lost" => run[j] = "lost"
    BY <1>1 DEF CompletionSection
  <1>4. \A t, c, d : ReachLock(t, c, d) => \A j \in Jobs : run'[j] = "lost" => run[j] = "lost"
    BY <1>3 DEF ReachLock
  <1>5. ASSUME NEW k \in Jobs, Messages(k) PROVE Up
    BY <1>2, <1>5 DEF Messages, HandleMessage, ReplayMessage, MessageRefused, MessageLocked,
                         FeedbackSent
  <1>6. ASSUME NEW t \in Turns, NEW c \in Copies, Notifies(t, c) PROVE Up
    BY <1>3, <1>4, <1>6 DEF Notifies, HandleNotify, AlertSent, NotifyLocked, Delivered
  <1>7. ASSUME NEW j \in Jobs, Dispatches(j) PROVE Up
    BY <1>0, <1>7 DEF Dispatches, StartLive, StartManaged, StartRefused, StartRejected,
                      LiveReturns, ManagedReturns, ManagedAbandoned, Finish, ShuttingDown
  <1>8. ASSUME NEW j \in Jobs, Externals(j) PROVE Up
    BY <1>8 DEF Externals, PromptTaken, ChildExits
  <1>9. ASSUME NEW t \in Turns, TurnEnds(t) PROVE Up
    BY <1>9 DEF TurnEnds
  <1>10. ASSUME NEW j \in Jobs, Cancels(j) PROVE Up
    BY <1>10 DEF Cancels, CancelQueued, CancelManaged, CancelReturns
  <1>11. ASSUME NEW s \in Sessions, SessionCommands(s) PROVE Up
    BY <1>1, <1>11 DEF SessionCommands, AutoOn, AutoOff, ResumeAutoRun, SetMode
  <1>12. CASE Lifecycle
    BY <1>12 DEF Lifecycle, BeginShutdown, CloseRunner, FinishShutdown, Exit, Crash, Die
  <1>13. CASE UNCHANGED vars
    BY <1>13 DEF vars
  <1> QED BY <1>5, <1>6, <1>7, <1>8, <1>9, <1>10, <1>11, <1>12, <1>13 DEF Next

LEMMA OrphanStep == IInv /\ [Next]_vars => NoOrphanedManagedJob'
  <1> SUFFICES ASSUME IInv, [Next]_vars, (phase = "up")',
                      NEW j \in Jobs, db'.job[j] = "DISPATCHED", db'.mode[Thread[j]] = "MANAGED"
               PROVE  run'[j] # "lost"
    BY DEF NoOrphanedManagedJob
  <1>0. TypeOK /\ NoOrphanedManagedJob /\ db \in Db
    BY DEF IInv, TypeOK
  <1>1. CASE Restart
    <2>1. db' = RecoverJobSessionState(db)
      BY <1>1 DEF Restart
    <2>2. db'.mode = db.mode
      BY <1>0, <2>1, RecoverNoClaim DEF NoClaim
    <2> QED BY <1>0, <2>1, <2>2, RecoverClosesManaged
  <1>2. CASE phase = "up" /\ \A i \in Jobs : run'[i] = "lost" => run[i] = "lost"
    <2>1. CASE Claims
      <3>1. PICK d \in Db, k \in Jobs : /\ NoClaim(db, d) /\ CanBeginDispatch(d, k)
                                        /\ db' = BeginJobDispatch(d, k)
                                        /\ Start(k, d.mode[Thread[k]])
        BY <2>1 DEF Claims
      <3>2. /\ run'[k] = "claimed" /\ db'.mode = db.mode
            /\ \A i \in Jobs : i # k => db'.job[i] = d.job[i]
        BY <3>1, ClaimFacts
      <3> QED BY <1>0, <1>2, <3>1, <3>2 DEF NoOrphanedManagedJob, NoClaim, Terminal
    <2>2. CASE SetsMode
      <3>1. PICK s \in Sessions, m \in Mode : CanSetMode(db, s) /\ db' = SetSessionMode(db, s, m)
        BY <2>2 DEF SetsMode
      <3>2. /\ db'.job = db.job
            /\ \A r \in Sessions : r # s => db'.mode[r] = db.mode[r]
        BY <1>0, <3>1 DEF SetSessionMode, Db
      <3>3. Thread[j] # s
        BY <3>1, <3>2 DEF CanSetMode, DispatchedJobs, JobsIn
      <3> QED BY <1>0, <1>2, <3>2, <3>3, ThreadType DEF NoOrphanedManagedJob
    <2>3. CASE ClaimsNothing
      BY <1>0, <1>2, <2>3 DEF NoOrphanedManagedJob, ClaimsNothing, NoClaim, Terminal
    <2> QED BY <1>0, <2>1, <2>2, <2>3, StepKind
  <1> QED BY <1>0, <1>1, <1>2, UpStep

-----------------------------------------------------------------------------
(* The processes *)

\* What is left to prove of IInv for a step that may start, end or lose processes.
Processes == Unstarted /\ Tracked /\ SubmitOnce

\* A step that starts no coroutine, ends none and leaves the processes alone.
LEMMA QuietStep ==
  ASSUME IInv, UNCHANGED <<run, via, active, sent>>,
         \A j \in Jobs : /\ proc'[j] = "alive" => proc[j] = "alive"
                         /\ proc[j] = "none" => proc'[j] = "none"
  PROVE  Processes'
  BY DEF IInv, Processes, Unstarted, Tracked, SubmitOnce

\* A claim, or a step of a handler that makes none.
LEMMA HandlerStep ==
  ASSUME IInv, UNCHANGED <<active, proc, sent>>, Claims \/ UNCHANGED <<run, via>>
  PROVE  Processes'
  <1>1. CASE UNCHANGED <<run, via>>
    BY <1>1, QuietStep
  <1>2. CASE Claims
    <2>1. PICK d \in Db, j \in Jobs : /\ NoClaim(db, d) /\ CanBeginDispatch(d, j)
                                      /\ db' = BeginJobDispatch(d, j)
                                      /\ Start(j, d.mode[Thread[j]])
      BY <1>2 DEF Claims
    <2>2. /\ run[j] = "none" /\ run'[j] = "claimed"
          /\ \A i \in Jobs : i # j => run'[i] = run[i] /\ via'[i] = via[i]
      BY <2>1, ClaimFacts
    <2> QED BY <2>2 DEF IInv, Processes, Unstarted, Tracked, SubmitOnce
  <1> QED BY <1>1, <1>2

LEMMA DispatchStep ==
  ASSUME IInv, NEW j \in Jobs, Dispatches(j)
  PROVE  Processes'
  <1> USE DEF runner, codex
  <1>0. /\ run \in [Jobs -> RunState] /\ proc \in [Jobs -> ProcState]
        /\ active \in [Sessions -> Jobs \cup {NoJob}] /\ sent \in [Jobs -> Nat]
        /\ Thread[j] \in Sessions /\ j # NoJob
        /\ Unstarted /\ Tracked /\ SubmitOnce
    BY ThreadType DEF IInv, TypeOK, Jobs, NoJob
  <1>1. CASE StartLive(j)
    <2>1. UNCHANGED <<via, active>> /\ via[j] = "LIVE"
      BY <1>1 DEF StartLive
    <2>2. /\ run[j] = "claimed" /\ run'[j] = "queueing" /\ proc'[j] = "alive"
          /\ sent'[j] = sent[j] + 1
          /\ \A i \in Jobs : i # j => run'[i] = run[i] /\ proc'[i] = proc[i] /\ sent'[i] = sent[i]
      BY <1>0, <1>1 DEF StartLive, Spawn
    <2> QED BY <1>0, <2>1, <2>2 DEF Processes, Unstarted, Tracked, SubmitOnce
  <1>2. CASE StartManaged(j)
    <2>1. UNCHANGED via /\ via[j] = "MANAGED" /\ active[Thread[j]] = NoJob
      BY <1>2 DEF StartManaged, RunnerFree
    <2>2. /\ run[j] = "claimed" /\ run'[j] = "resuming" /\ proc'[j] = "alive"
          /\ sent'[j] = sent[j] + 1 /\ active'[Thread[j]] = j
          /\ \A i \in Jobs : i # j => run'[i] = run[i] /\ proc'[i] = proc[i] /\ sent'[i] = sent[i]
          /\ \A s \in Sessions : s # Thread[j] => active'[s] = active[s]
      BY <1>0, <1>2 DEF StartManaged, Spawn
    <2>3. \A i \in Jobs : Thread[i] = Thread[j] /\ i # j => run[i] # "resuming"
      BY <1>0, <2>1 DEF Tracked, Jobs, NoJob
    <2> QED BY <1>0, <2>1, <2>2, <2>3, ThreadType DEF Processes, Unstarted, Tracked, SubmitOnce
  <1>3. CASE StartRefused(j) \/ StartRejected(j)
    <2>1. /\ UNCHANGED <<via, active, proc, sent>>
          /\ run[j] = "claimed" /\ run'[j] \in {"done", "rejected"}
          /\ \A i \in Jobs : i # j => run'[i] = run[i]
      BY <1>0, <1>3 DEF StartRefused, StartRejected, Finish
    <2> QED BY <1>0, <2>1 DEF Processes, Unstarted, Tracked, SubmitOnce
  <1>4. CASE LiveReturns(j)
    <2>1. /\ UNCHANGED <<via, active, sent>>
          /\ run[j] = "queueing" /\ run'[j] = "done" /\ proc'[j] = "reaped"
          /\ \A i \in Jobs : i # j => run'[i] = run[i] /\ proc'[i] = proc[i]
      BY <1>0, <1>4 DEF LiveReturns, Finish, Reap
    <2> QED BY <1>0, <2>1 DEF Processes, Unstarted, Tracked, SubmitOnce
  <1>5. CASE ManagedReturns(j) \/ ManagedAbandoned(j)
    <2>1. /\ UNCHANGED <<via, sent>>
          /\ run[j] = "resuming" /\ run'[j] \in {"done", "lost"} /\ proc'[j] = "reaped"
          /\ \A i \in Jobs : i # j => run'[i] = run[i] /\ proc'[i] = proc[i]
          /\ \A s \in Sessions : s # Thread[j] => active'[s] = active[s]
      BY <1>0, <1>5 DEF ManagedReturns, ManagedAbandoned, Finish, Reap, Untrack
    <2>2. \A i \in Jobs : Thread[i] = Thread[j] /\ i # j => run[i] # "resuming"
      BY <1>0, <2>1 DEF Tracked
    <2> QED BY <1>0, <2>1, <2>2, ThreadType DEF Processes, Unstarted, Tracked, SubmitOnce
  <1> QED BY <1>1, <1>2, <1>3, <1>4, <1>5 DEF Dispatches

LEMMA ProcessesStep == IInv /\ [Next]_vars => Processes'
  <1> SUFFICES ASSUME IInv, [Next]_vars PROVE Processes'
    OBVIOUS
  <1> USE DEF tasks, runner, codex
  <1>0. TypeOK /\ db \in Db /\ NoClaim(db, db)
    BY DEF IInv, TypeOK, NoClaim, Terminal
  <1>1. ASSUME NEW k \in Jobs, Messages(k) PROVE Processes'
    <2>1. CASE HandleMessage(k) \/ MessageLocked(k)
      <3>1. UNCHANGED <<active, proc, sent>>
        BY <2>1 DEF HandleMessage, MessageLocked
      <3>2. CreateJob(db, k) \in Db /\ NoClaim(db, CreateJob(db, k))
        BY <1>0, JobTransactionTypes, JobsNoClaim
      <3>3. Claims \/ UNCHANGED <<run, via>>
        BY <1>0, <2>1, <3>2 DEF HandleMessage, MessageLocked, MessageSection, Claims
      <3> QED BY <3>1, <3>3, HandlerStep
    <2>2. CASE ReplayMessage(k) \/ MessageRefused(k) \/ FeedbackSent(k)
      BY <2>2, QuietStep DEF ReplayMessage, MessageRefused, FeedbackSent
    <2> QED BY <1>1, <2>1, <2>2 DEF Messages
  <1>2. \A d \in Db, s \in Sessions :
            NoClaim(db, d) /\ AutoDispatch(d, s) => Claims \/ UNCHANGED <<run, via>>
    BY <1>0, AutoDispatchKind
  <1>3. ASSUME NEW t \in Turns, NEW c \in Copies, Notifies(t, c) PROVE Processes'
    <2>1. UNCHANGED <<active, proc, sent>>
      BY <1>3 DEF Notifies, HandleNotify, AlertSent, NotifyLocked, Delivered
    <2>2. /\ RegisterNotify(db, t) \in Db /\ NoClaim(db, RegisterNotify(db, t))
          /\ Thread[t] \in Sessions
      BY <1>0, ThreadType, RegisterNotifyType, RegisterNotifyNoClaim
    <2>3. ASSUME NEW d \in Db, NoClaim(db, d), CompletionSection(t, c, d)
          PROVE  Claims \/ UNCHANGED <<run, via>>
      BY <1>0, <2>3, CompletionSectionKind
    <2>4. ASSUME NEW d \in Db, NoClaim(db, d), ReachLock(t, c, d)
          PROVE  Claims \/ UNCHANGED <<run, via>>
      BY <2>3, <2>4 DEF ReachLock
    <2>5. Claims \/ UNCHANGED <<run, via>>
      BY <1>0, <1>3, <2>2, <2>3, <2>4
         DEF Notifies, HandleNotify, AlertSent, NotifyLocked, Delivered
    <2> QED BY <2>1, <2>5, HandlerStep
  <1>4. ASSUME NEW j \in Jobs, Externals(j) PROVE Processes'
    <2>0. /\ UNCHANGED <<run, via, active, sent>>
          /\ proc' = proc \/ proc[j] = "alive"
          /\ \A i \in Jobs : i # j => proc'[i] = proc[i]
      BY <1>0, <1>4 DEF Externals, PromptTaken, ChildExits, TypeOK
    <2> QED BY <2>0, QuietStep
  <1>5. ASSUME NEW t \in Turns, TurnEnds(t) PROVE Processes'
    BY <1>5, QuietStep DEF TurnEnds
  <1>6. ASSUME NEW j \in Jobs, Cancels(j) PROVE Processes'
    BY <1>6, QuietStep DEF Cancels, CancelQueued, CancelManaged, CancelReturns
  <1>7. ASSUME NEW s \in Sessions, SessionCommands(s) PROVE Processes'
    <2>1. CASE AutoOn(s) \/ ResumeAutoRun(s)
      <3>1. UNCHANGED <<active, proc, sent>>
        BY <2>1 DEF AutoOn, ResumeAutoRun
      <3>2. \/ \E d \in Db : NoClaim(db, d) /\ AutoDispatch(d, s)
            \/ UNCHANGED <<run, via>>
        BY <1>0, <2>1, SessionTransactionTypes, SessionsNoClaim DEF AutoOn, ResumeAutoRun
      <3> QED BY <1>2, <3>1, <3>2, HandlerStep
    <2>2. CASE AutoOff(s) \/ \E m \in Modes : SetMode(s, m)
      BY <2>2, QuietStep DEF AutoOff, SetMode
    <2> QED BY <1>7, <2>1, <2>2 DEF SessionCommands
  <1>8. CASE Lifecycle
    <2>1. CASE BeginShutdown
      <3>1. /\ UNCHANGED <<via, active, proc, sent>>
            /\ \A j \in Jobs : \/ run'[j] = run[j]
                               \/ run[j] \in {"claimed", "queueing"} /\ run'[j] = "lost"
        BY <2>1 DEF BeginShutdown
      <3> QED BY <3>1 DEF IInv, Processes, Unstarted, Tracked, SubmitOnce
    <2>2. CASE CloseRunner \/ FinishShutdown \/ Restart
      BY <2>2, QuietStep DEF CloseRunner, FinishShutdown, Restart
    <2>3. CASE Exit \/ Crash
      <3>1. /\ UNCHANGED <<via, sent>>
            /\ \A j \in Jobs : /\ proc'[j] # "alive" /\ run'[j] # "resuming"
                               /\ proc[j] = "none" => proc'[j] = "none"
                               /\ run'[j] \in {"none", "claimed"} => run'[j] = run[j]
        BY <2>3 DEF Exit, Crash, Die
      <3> QED BY <3>1 DEF IInv, Processes, Unstarted, Tracked, SubmitOnce
    <2> QED BY <1>8, <2>1, <2>2, <2>3 DEF Lifecycle
  <1>9. CASE UNCHANGED vars
    BY <1>9, QuietStep DEF vars
  <1> QED BY <1>1, <1>3, <1>4, <1>5, <1>6, <1>7, <1>8, <1>9, DispatchStep DEF Next

-----------------------------------------------------------------------------
(* The theorems *)

LEMMA InvInit == Init => IInv
  <1> SUFFICES ASSUME Init PROVE IInv
    OBVIOUS
  <1>1. TypeOK
    BY TypeInit
  <1>2. PICK modes \in [Sessions -> Modes] : db = FreshDb(modes)
    BY DEF Init
  <1>3. \A j \in Jobs : db.job[j] = "ABSENT"
    BY <1>2 DEF FreshDb, Absent
  <1>4. Unclaimed /\ Unstarted /\ Tracked /\ SubmitOnce
    BY DEF Init, Unclaimed, Unstarted, Tracked, SubmitOnce
  <1>5. OneDispatched /\ RunnerMatchesMode /\ NoOrphanedManagedJob
    BY <1>3 DEF OneDispatched, DispatchedJobs, JobsIn, RunnerMatchesMode, NoOrphanedManagedJob
  <1> QED BY <1>1, <1>4, <1>5 DEF IInv

LEMMA InvStep == IInv /\ [Next]_vars => IInv'
  <1> SUFFICES ASSUME IInv, [Next]_vars PROVE IInv'
    OBVIOUS
  <1>1. TypeOK'
    BY TypeStep DEF IInv
  <1> QED BY <1>1, JobsStep, OrphanStep, ProcessesStep DEF IInv, Processes

\* Jobs and coroutines, coroutines and processes, processes and the runner's table
\* agree after every step, fault or not.
THEOREM Inductive == Spec => []IInv
  BY InvInit, InvStep, PTL DEF Spec

\* No history of crashes, restarts, reconnections, replays and notifies makes the
\* service hand a prompt to Codex twice.
THEOREM SubmittedOnce == Spec => []SubmitOnce
  <1>1. IInv => SubmitOnce
    BY DEF IInv
  <1> QED BY <1>1, Inductive, PTL

\* The unique index the schema declares on DISPATCHED jobs is never what stops a
\* handler: the guards of the handlers are enough.
THEOREM DispatchedOnce == Spec => []OneDispatched
  <1>1. IInv => OneDispatched
    BY DEF IInv
  <1> QED BY <1>1, Inductive, PTL

\* The mode cannot change under a job that is being carried out.
THEOREM ModeHolds == Spec => []RunnerMatchesMode
  <1>1. IInv => RunnerMatchesMode
    BY DEF IInv
  <1> QED BY <1>1, Inductive, PTL

\* Recovery forgets no MANAGED job whose process is gone.
THEOREM NoOrphans == Spec => []NoOrphanedManagedJob
  <1>1. IInv => NoOrphanedManagedJob
    BY DEF IInv
  <1> QED BY <1>1, Inductive, PTL

\* A thread never has two `codex exec resume` processes: both would be the one the
\* runner tracks for it.
THEOREM OneProcess == Spec => []OneManagedProcess
  <1>1. IInv => OneManagedProcess
    BY DEF IInv, Tracked, OneManagedProcess
  <1> QED BY <1>1, Inductive, PTL

\* The first event to close a job decides: no later one rewrites its status.
THEOREM VerdictStands == Spec => FirstVerdictStands
  <1> DEFINE A == \A j \in Jobs : db.job[j] \in Terminal => db'.job[j] = db.job[j]
  <1>1. TypeOK /\ [Next]_vars => [A]_vars
    <2> SUFFICES ASSUME TypeOK, [Next]_vars, NEW j \in Jobs, db.job[j] \in Terminal
                 PROVE  db'.job[j] = db.job[j]
      OBVIOUS
    <2>1. CASE Claims
      <3>1. PICK d \in Db, k \in Jobs : /\ NoClaim(db, d) /\ CanBeginDispatch(d, k)
                                        /\ db' = BeginJobDispatch(d, k)
        BY <2>1 DEF Claims
      <3>2. d.job[j] = db.job[j]
        BY <3>1 DEF NoClaim, Terminal, Absent
      <3>3. j # k
        BY <3>1, <3>2 DEF CanBeginDispatch, Terminal
      <3> QED BY <3>1, <3>2, <3>3 DEF BeginJobDispatch, Db
    <2>2. CASE SetsMode
      BY <2>2 DEF SetsMode, SetSessionMode, TypeOK, Db
    <2>3. CASE ClaimsNothing
      BY <2>3 DEF ClaimsNothing, NoClaim, Terminal, Absent
    <2> QED BY <2>1, <2>2, <2>3, StepKind
  <1> QED BY <1>1, TypeCorrect, PTL DEF Spec, FirstVerdictStands

\* /cancel of a waiting job is final, whoever holds the lock the job waits for.
THEOREM CancelIsFinal == Spec => CancelledInQueueStaysOut
  <1> DEFINE A == \A j \in Jobs : db.job[j] \in Terminal /\ run[j] = "none" => run'[j] = "none"
  <1>1. IInv /\ [Next]_vars => [A]_vars
    <2> SUFFICES ASSUME IInv, [Next]_vars, NEW j \in Jobs, db.job[j] \in Terminal, run[j] = "none"
                 PROVE  run'[j] = "none"
      OBVIOUS
    <2>1. CASE Claims
      <3>1. PICK d \in Db, k \in Jobs : /\ NoClaim(db, d) /\ CanBeginDispatch(d, k)
                                        /\ db' = BeginJobDispatch(d, k)
                                        /\ Start(k, d.mode[Thread[k]])
        BY <2>1 DEF Claims
      <3>2. j # k
        BY <3>1 DEF NoClaim, CanBeginDispatch, Terminal, Absent
      <3> QED BY <3>1, <3>2, ClaimFacts
    <2>2. CASE SetsMode
      BY <2>2 DEF SetsMode
    <2>3. CASE ClaimsNothing
      BY <2>3 DEF ClaimsNothing
    <2> QED BY <2>1, <2>2, <2>3, StepKind DEF IInv
  <1> QED BY <1>1, Inductive, PTL DEF Spec, CancelledInQueueStaysOut

-----------------------------------------------------------------------------
(* The paused queue *)

\* Only auto-run makes a dispatch a background task, and only where auto-run is on.
LEMMA BackgroundStep ==
  ASSUME TypeOK, [Next]_vars, NEW j \in background' \ background
  PROVE  j \in Jobs /\ db'.auto[Thread[j]]
  <1> USE DEF tasks, runner, codex
  <1> DEFINE Fresh == \A i \in background' \ background : i \in Jobs /\ db'.auto[Thread[i]]
  <1>0. db \in Db /\ \A t \in Turns : Thread[t] \in Sessions
    BY ThreadType DEF TypeOK
  <1>1. \A d \in Db, s \in Sessions : AutoDispatch(d, s) => Fresh
    <2> SUFFICES ASSUME NEW d \in Db, NEW s \in Sessions, AutoDispatch(d, s) PROVE Fresh
      OBVIOUS
    <2>1. CASE \E i \in Jobs : /\ CanAutoDispatch(d, s) /\ Thread[i] = s
                              /\ db' = BeginJobDispatch(d, i)
                              /\ background' = background \cup {i}
      BY <2>1 DEF CanAutoDispatch, BeginJobDispatch, Db
    <2>2. CASE UNCHANGED background
      BY <2>2
    <2> QED BY <2>1, <2>2, AutoDispatchCases
  <1>2. \A t \in Turns, c \in Copies : \A d \in Db : CompletionSection(t, c, d) => Fresh
    BY <1>0, <1>1, SessionTransactionTypes DEF CompletionSection
  <1>3. \A t \in Turns, c \in Copies : \A d \in Db : ReachLock(t, c, d) => Fresh
    BY <1>2 DEF ReachLock
  <1>4. ASSUME NEW k \in Jobs, Messages(k) PROVE Fresh
    BY <1>4 DEF Messages, HandleMessage, ReplayMessage, MessageRefused, MessageLocked, FeedbackSent
  <1>5. ASSUME NEW t \in Turns, NEW c \in Copies, Notifies(t, c) PROVE Fresh
    <2>1. RegisterNotify(db, t) \in Db
      BY <1>0, RegisterNotifyType
    <2> QED BY <1>0, <1>2, <1>3, <1>5, <2>1
           DEF Notifies, HandleNotify, AlertSent, NotifyLocked, Delivered
  <1>6. ASSUME NEW i \in Jobs, Dispatches(i) PROVE Fresh
    BY <1>6 DEF Dispatches, StartLive, StartManaged, StartRefused, StartRejected, LiveReturns,
                ManagedReturns, ManagedAbandoned, Finish
  <1>7. ASSUME NEW i \in Jobs, Externals(i) \/ Cancels(i) PROVE Fresh
    BY <1>7 DEF Externals, PromptTaken, ChildExits, Cancels, CancelQueued, CancelManaged,
                CancelReturns
  <1>8. ASSUME NEW t \in Turns, TurnEnds(t) PROVE Fresh
    BY <1>8 DEF TurnEnds
  <1>9. ASSUME NEW s \in Sessions, SessionCommands(s) PROVE Fresh
    BY <1>0, <1>1, <1>9, SessionTransactionTypes
       DEF SessionCommands, AutoOn, AutoOff, ResumeAutoRun, SetMode
  <1>10. CASE Lifecycle
    BY <1>10 DEF Lifecycle, BeginShutdown, CloseRunner, FinishShutdown, Exit, Crash, Die, Restart
  <1>11. CASE UNCHANGED vars
    BY <1>11 DEF vars
  <1> QED BY <1>4, <1>5, <1>6, <1>7, <1>8, <1>9, <1>10, <1>11 DEF Next

\* A failed or interrupted run pauses its queue, and only /auto on in a session that is
\* well makes auto-run claim again.
THEOREM FailurePauses == Spec => FailurePausesQueue
  <1> DEFINE A == \A s \in Sessions :
                    /\ (\E j \in DispatchedJobs(db, s) : db'.job[j] \in {"FAILED", "CANCELLED"})
                          => ~db'.auto[s]
                    /\ ~db.auto[s] /\ db'.auto[s] => db.status[s] \notin {"ERROR", "OFFLINE"}
                    /\ (\E j \in background' \ background : Thread[j] = s) => db'.auto[s]
  <1>1. TypeOK /\ [Next]_vars => [A]_vars
    <2> SUFFICES ASSUME TypeOK, [Next]_vars PROVE A
      OBVIOUS
    <2>1. CASE Claims
      <3>1. PICK d \in Db, k \in Jobs : /\ NoClaim(db, d) /\ CanBeginDispatch(d, k)
                                        /\ db' = BeginJobDispatch(d, k)
        BY <2>1 DEF Claims
      <3>2. /\ db'.auto = d.auto /\ db'.job[k] = "DISPATCHED"
            /\ \A j \in Jobs : j # k => db'.job[j] = d.job[j]
        BY <3>1 DEF BeginJobDispatch, Db
      <3> QED BY <3>1, <3>2, BackgroundStep DEF NoClaim, DispatchedJobs, JobsIn
    <2>2. CASE SetsMode
      <3>1. db'.job = db.job /\ db'.auto = db.auto
        BY <2>2 DEF SetsMode, SetSessionMode, TypeOK, Db
      <3> QED BY <3>1, BackgroundStep DEF DispatchedJobs, JobsIn
    <2>3. CASE ClaimsNothing
      BY <2>3, BackgroundStep DEF ClaimsNothing, NoClaim, DispatchedJobs, JobsIn
    <2> QED BY <2>1, <2>2, <2>3, StepKind
  <1> QED BY <1>1, TypeCorrect, PTL DEF Spec, FailurePausesQueue

-----------------------------------------------------------------------------
(* The abstract queue: every step maps to one of JobQueue or to none *)

\* What a row's status is to the abstract queue.
Stage(st) == CASE st = Absent       -> "absent"
               [] st = "QUEUED"     -> "waiting"
               [] st = "DISPATCHED" -> "active"
               [] st \in Terminal   -> "ended"

Stages == [j \in Jobs |-> Stage(db.job[j])]

QueueStep == JQ!Next \/ UNCHANGED <<Stages, sent>>

LEMMA StageOf ==
  ASSUME NEW st \in JobStatus \cup {Absent}
  PROVE  /\ Stage(st) = "absent"  <=> st = Absent
         /\ Stage(st) = "waiting" <=> st = "QUEUED"
         /\ Stage(st) = "active"  <=> st = "DISPATCHED"
         /\ Stage(st) = "ended"   <=> st \in Terminal
  BY DEF Stage, JobStatus, Terminal, Absent

\* The rows and the stages of all jobs, before and after a step.
LEMMA StagesOf ==
  ASSUME TypeOK, TypeOK'
  PROVE  /\ \A j \in Jobs : /\ db.job[j] \in JobStatus \cup {Absent}
                            /\ db'.job[j] \in JobStatus \cup {Absent}
                            /\ Stages[j] = Stage(db.job[j]) /\ Stages'[j] = Stage(db'.job[j])
         /\ \A s \in Sessions : /\ JQ!InState(s, "active") = DispatchedJobs(db, s)
                                /\ JQ!InState(s, "waiting") = QueuedJobs(db, s)
  <1>1. \A j \in Jobs : /\ db.job[j] \in JobStatus \cup {Absent}
                        /\ db'.job[j] \in JobStatus \cup {Absent}
    BY DEF TypeOK, Db
  <1>2. \A j \in Jobs : Stages[j] = Stage(db.job[j]) /\ Stages'[j] = Stage(db'.job[j])
    BY DEF Stages
  <1>3. ASSUME NEW s \in Sessions
        PROVE  /\ JQ!InState(s, "active") = DispatchedJobs(db, s)
               /\ JQ!InState(s, "waiting") = QueuedJobs(db, s)
    <2>1. /\ JQ!InState(s, "active") = {j \in Jobs : Thread[j] = s /\ Stages[j] = "active"}
          /\ JQ!InState(s, "waiting") = {j \in Jobs : Thread[j] = s /\ Stages[j] = "waiting"}
      BY DEF JQ!InState, JQ!Jobs, Jobs, Stages, Stage
    <2> QED BY <1>1, <1>2, <2>1, StageOf DEF DispatchedJobs, QueuedJobs, JobsIn
  <1> QED BY <1>1, <1>2, <1>3

\* Two states with the same rows are the same to the abstract queue.
LEMMA SameStages ==
  ASSUME TypeOK, TypeOK', sent' = sent, \A j \in Jobs : db'.job[j] = db.job[j]
  PROVE  QueueStep
  BY DEF QueueStep, Stages

LEMMA AcceptStep ==
  ASSUME TypeOK, TypeOK', sent' = sent, NEW k \in Jobs,
         db.job[k] = Absent, db'.job[k] = "QUEUED",
         \A i \in Jobs : i # k => db'.job[i] = db.job[i]
  PROVE  QueueStep
  <1>1. Stages[k] = "absent" /\ Stages' = [Stages EXCEPT ![k] = "waiting"]
    BY StageOf, StagesOf DEF Stages
  <1>2. JQ!Accept(k)
    BY <1>1 DEF JQ!Accept, Stages, Stage
  <1> QED BY <1>2 DEF QueueStep, JQ!Next, JQ!Jobs, Jobs

LEMMA ClaimStep ==
  ASSUME TypeOK, TypeOK', sent' = sent, NEW j \in Jobs,
         db.job[j] \in {Absent, "QUEUED"}, db'.job[j] = "DISPATCHED",
         DispatchedJobs(db, Thread[j]) = {},
         \A i \in Jobs : i # j => db'.job[i] = db.job[i]
  PROVE  QueueStep
  <1>1. /\ Stages[j] \in {"absent", "waiting"} /\ Stages' = [Stages EXCEPT ![j] = "active"]
        /\ JQ!InState(Thread[j], "active") = {}
    BY StageOf, StagesOf, ThreadType DEF Stages
  <1>2. JQ!Claim(j)
    BY <1>1 DEF JQ!Claim, Stages, Stage
  <1> QED BY <1>2 DEF QueueStep, JQ!Next, JQ!Jobs, Jobs

LEMMA CancelStep ==
  ASSUME TypeOK, TypeOK', sent' = sent, NEW j \in Jobs,
         db.job[j] = "QUEUED", db'.job[j] \in Terminal,
         \A i \in Jobs : i # j => db'.job[i] = db.job[i]
  PROVE  QueueStep
  <1>1. Stages[j] = "waiting" /\ Stages' = [Stages EXCEPT ![j] = "ended"]
    BY StageOf, StagesOf DEF Stages
  <1>2. JQ!Cancel(j)
    BY <1>1 DEF JQ!Cancel, Stages, Stage
  <1> QED BY <1>2 DEF QueueStep, JQ!Next, JQ!Jobs, Jobs

LEMMA EndStep ==
  ASSUME TypeOK, TypeOK', sent' = sent, Closes(db, db')
  PROVE  QueueStep
  <1>1. PICK J \in SUBSET Jobs : J = {j \in Jobs : db'.job[j] # db.job[j]}
    OBVIOUS
  <1>2. CASE J = {}
    BY <1>1, <1>2, SameStages
  <1>3. CASE J # {}
    <2>1. \A j \in J : Stages[j] = "active"
      BY <1>1, StageOf, StagesOf DEF Closes
    <2>2. Stages' = [j \in Jobs |-> IF j \in J THEN "ended" ELSE Stages[j]]
      BY <1>1, StageOf, StagesOf DEF Closes, Stages
    <2>3. JQ!End(J)
      BY <1>3, <2>1, <2>2 DEF JQ!End, JQ!Jobs, Jobs, Stages, Stage
    <2> QED BY <2>3 DEF QueueStep, JQ!Next, JQ!Jobs, Jobs
  <1> QED BY <1>2, <1>3

LEMMA HandOverStep ==
  ASSUME TypeOK, TypeOK', sent' = sent, NEW i \in Jobs, NEW j \in Jobs,
         db.job[i] = "DISPATCHED", db'.job[i] \in Terminal,
         IsOldest(QueuedJobs(db, Thread[i]), j), db'.job[j] = "DISPATCHED",
         \A k \in Jobs : k \notin {i, j} => db'.job[k] = db.job[k]
  PROVE  QueueStep
  <1>1. /\ Stages[i] = "active"
        /\ Stages' = [Stages EXCEPT ![i] = "ended", ![j] = "active"]
    <2>1. i # j
      BY DEF IsOldest, QueuedJobs, JobsIn
    <2>2. Stages[i] = "active" /\ Stages'[i] = "ended" /\ Stages'[j] = "active"
      BY StageOf, StagesOf
    <2>3. \A k \in Jobs : k \notin {i, j} => Stages'[k] = Stages[k]
      BY StagesOf
    <2> QED BY <2>1, <2>2, <2>3 DEF Stages
  <1>2. /\ j \in JQ!InState(Thread[i], "waiting")
        /\ \A k \in JQ!InState(Thread[i], "waiting") : j <= k
    BY StagesOf, ThreadType DEF IsOldest
  <1>3. JQ!HandOver(i, j)
    BY <1>1, <1>2 DEF JQ!HandOver, Stages, Stage
  <1> QED BY <1>3 DEF QueueStep, JQ!Next, JQ!Jobs, Jobs

LEMMA GiveStep ==
  ASSUME TypeOK, TypeOK', NEW j \in Jobs, db' = db,
         db.job[j] \notin {Absent, "QUEUED"},
         sent[j] = 0, sent' = [sent EXCEPT ![j] = 1]
  PROVE  QueueStep
  <1>1. Stages[j] \in {"active", "ended"} /\ Stages' = Stages
    BY StageOf, StagesOf DEF Stages, JobStatus
  <1>2. JQ!Give(j)
    BY <1>1 DEF JQ!Give, Stages, Stage
  <1> QED BY <1>2 DEF QueueStep, JQ!Next, JQ!Jobs, Jobs

-----------------------------------------------------------------------------
(* The steps of the handlers *)

\* The end of a handler whose session has lost its workspace leaves the jobs alone.
LEMMA PauseRows ==
  ASSUME NEW d \in Db, NEW s \in Sessions
  PROVE  SameJobs(d, SetSessionStatus(SetSessionAutoRun(d, s, FALSE), s, "ERROR"))
  <1> DEFINE e == SetSessionAutoRun(d, s, FALSE)
  <1>1. e \in Db /\ SameJobs(d, e)
    BY SessionTransactionTypes, TransactionRows
  <1> HIDE DEF e
  <1>2. SameJobs(e, SetSessionStatus(e, s, "ERROR"))
    BY <1>1, TransactionRows
  <1>3. SameJobs(d, SetSessionStatus(e, s, "ERROR"))
    BY <1>1, <1>2 DEF SameJobs
  <1> QED BY <1>3 DEF e

\* A step that ends with auto-run, after transactions that left the jobs alone.
LEMMA AutoDispatchQueue ==
  ASSUME TypeOK, TypeOK', sent' = sent, NEW d \in Db, NEW s \in Sessions,
         SameJobs(db, d), AutoDispatch(d, s)
  PROVE  QueueStep
  <1>1. CASE db' \in {d, SetSessionStatus(SetSessionAutoRun(d, s, FALSE), s, "ERROR")}
    <2>1. \A j \in Jobs : db'.job[j] = d.job[j]
      BY <1>1, PauseRows DEF SameJobs
    <2> QED BY <2>1, SameStages DEF SameJobs
  <1>2. CASE \E j \in Jobs : /\ CanAutoDispatch(d, s) /\ Thread[j] = s /\ d.job[j] = "QUEUED"
                            /\ db' = BeginJobDispatch(d, j)
    <2>1. PICK j \in Jobs : /\ CanAutoDispatch(d, s) /\ Thread[j] = s /\ d.job[j] = "QUEUED"
                            /\ db' = BeginJobDispatch(d, j)
      BY <1>2
    <2>2. db.job[j] = "QUEUED" /\ DispatchedJobs(db, s) = {}
      BY <2>1 DEF DispatchedJobs, JobsIn, CanAutoDispatch, SameJobs
    <2>3. db'.job[j] = "DISPATCHED" /\ \A i \in Jobs : i # j => db'.job[i] = db.job[i]
      BY <2>1 DEF BeginJobDispatch, Db, SameJobs
    <2> QED BY <2>1, <2>2, <2>3, ClaimStep
  <1> QED BY <1>1, <1>2, AutoDispatchCases

\* A step that closes the session's job and ends with auto-run: a handover, or an end.
LEMMA HandOverQueue ==
  ASSUME TypeOK, TypeOK', OneDispatched, sent' = sent, NEW d \in Db, NEW s \in Sessions,
         SameJobs(db, d), DispatchedJobs(d, s) # {},
         AutoDispatch(CompleteDispatchedJob(d, s), s)
  PROVE  QueueStep
  <1> DEFINE e == CompleteDispatchedJob(d, s)
  <1>1. e \in Db /\ Closes(db, e)
    BY TransactionRows, SessionTransactionTypes DEF Closes, SameJobs
  <1>2. PICK i \in Jobs : Thread[i] = s /\ d.job[i] = "DISPATCHED"
    BY DEF DispatchedJobs, JobsIn
  <1>3. DispatchedJobs(d, s) = {i}
    BY <1>2 DEF OneDispatched, DispatchedJobs, JobsIn, SameJobs
  <1>4. IsOldest({i}, i) /\ \A k \in Jobs : IsOldest({i}, k) => k = i
    BY DEF IsOldest, Jobs
  <1>5. e.job[i] = "COMPLETED" /\ \A k \in Jobs : k # i => e.job[k] = d.job[k]
    BY <1>3, <1>4 DEF CompleteDispatchedJob, Db
  <1> HIDE DEF e
  <1>6. CASE \E j \in Jobs : IsOldest(QueuedJobs(e, s), j) /\ db' = BeginJobDispatch(e, j)
    <2>1. PICK j \in Jobs : IsOldest(QueuedJobs(e, s), j) /\ db' = BeginJobDispatch(e, j)
      BY <1>6
    <2>2. QueuedJobs(e, s) = QueuedJobs(db, s)
      BY <1>2, <1>5 DEF QueuedJobs, JobsIn, SameJobs
    <2>3. j # i /\ db'.job[j] = "DISPATCHED"
          /\ \A k \in Jobs : k # j => db'.job[k] = e.job[k]
      BY <1>1, <1>5, <2>1 DEF BeginJobDispatch, Db, IsOldest, QueuedJobs, JobsIn
    <2> QED BY <1>2, <1>5, <2>1, <2>2, <2>3, HandOverStep DEF SameJobs, Terminal
  <1>7. CASE db' \in {e, SetSessionStatus(SetSessionAutoRun(e, s, FALSE), s, "ERROR")}
    <2>1. SameJobs(e, db')
      BY <1>1, <1>7, PauseRows DEF SameJobs
    <2>2. Closes(db, db')
      BY <1>1, <2>1 DEF Closes, SameJobs
    <2> QED BY <2>2, EndStep
  <1>8. AutoDispatch(e, s)
    BY DEF e
  <1> QED BY <1>1, <1>6, <1>7, <1>8, AutoDispatchCases

\* What handle_completion may have committed closes jobs and claims none.
LEMMA HalfCompletionRows ==
  ASSUME NEW d \in Db, NEW s \in Sessions, NEW e \in HalfCompletion(d, s)
  PROVE  Closes(d, e)
  <1> DEFINE f == CompleteDispatchedJob(d, s)
  <1>1. f \in Db /\ Closes(d, f)
    BY SessionTransactionTypes, TransactionRows
  <1>2. e = f \/ e = SetSessionAutoRun(f, s, FALSE)
    BY DEF HalfCompletion
  <1> HIDE DEF f
  <1>3. SameJobs(f, SetSessionAutoRun(f, s, FALSE))
    BY <1>1, TransactionRows
  <1> QED BY <1>1, <1>2, <1>3 DEF Closes, SameJobs

LEMMA CompletionQueue ==
  ASSUME TypeOK, TypeOK', OneDispatched, sent' = sent, NEW d \in Db, NEW t \in Turns,
         NEW c \in Copies, SameJobs(db, d), CompletionSection(t, c, d)
  PROVE  QueueStep
  <1>1. Thread[t] \in Sessions /\ Closes(db, CompleteDispatchedJob(d, Thread[t]))
    BY ThreadType, TransactionRows DEF Closes, SameJobs
  <1>2. CASE DispatchedJobs(d, Thread[t]) # {}
             /\ AutoDispatch(CompleteDispatchedJob(d, Thread[t]), Thread[t])
    BY <1>1, <1>2, HandOverQueue
  <1>3. CASE db' = d
    BY <1>3, SameStages DEF SameJobs
  <1>4. CASE db' \in HalfCompletion(d, Thread[t])
    <2>1. Closes(d, db')
      BY <1>1, <1>4, HalfCompletionRows
    <2> QED BY <2>1, EndStep DEF Closes, SameJobs
  <1> QED BY <1>2, <1>3, <1>4 DEF CompletionSection

LEMMA ReachLockQueue ==
  ASSUME TypeOK, TypeOK', OneDispatched, sent' = sent, NEW d \in Db, NEW t \in Turns,
         NEW c \in Copies, SameJobs(db, d), ReachLock(t, c, d)
  PROVE  QueueStep
  BY CompletionQueue, SameStages DEF ReachLock, SameJobs

\* The job of a message is stored, and claimed in the same step if the session is free.
LEMMA MessageQueue ==
  ASSUME TypeOK, TypeOK', sent' = sent, NEW d \in Db, NEW k \in Jobs,
         Stored(db, d, k), MessageSection(k, d)
  PROVE  QueueStep
  <1>1. CASE CanBeginDispatch(d, k) /\ db' = BeginJobDispatch(d, k)
    <2>1. db'.job[k] = "DISPATCHED" /\ \A i \in Jobs : i # k => db'.job[i] = db.job[i]
      BY <1>1 DEF BeginJobDispatch, Db, Stored
    <2>2. db.job[k] \in {Absent, "QUEUED"} /\ DispatchedJobs(db, Thread[k]) = {}
      BY <1>1 DEF CanBeginDispatch, Stored, DispatchedJobs, JobsIn, Absent
    <2> QED BY <2>1, <2>2, ClaimStep
  <1>2. CASE db' = d
    BY <1>2, AcceptStep, SameStages DEF Stored
  <1> QED BY <1>1, <1>2 DEF MessageSection

-----------------------------------------------------------------------------
(* The steps of the service *)

LEMMA MessagesQueue ==
  ASSUME IInv, TypeOK', NEW k \in Jobs, Messages(k)
  PROVE  QueueStep
  <1> USE DEF tasks, runner, codex
  <1>0. TypeOK /\ db \in Db /\ sent' = sent
    BY DEF IInv, TypeOK, Messages, HandleMessage, ReplayMessage, MessageRefused, MessageLocked,
           FeedbackSent
  <1>1. CreateJob(db, k) \in Db /\ Stored(db, CreateJob(db, k), k) /\ Stored(db, db, k)
    BY <1>0, JobTransactionTypes, TransactionRows DEF Stored
  <1>2. CASE HandleMessage(k) \/ MessageLocked(k)
    <2>1. \/ MessageSection(k, CreateJob(db, k)) \/ MessageSection(k, db)
          \/ db' = CreateJob(db, k)
      BY <1>2 DEF HandleMessage, MessageLocked
    <2> QED BY <1>0, <1>1, <2>1, MessageQueue, AcceptStep, SameStages DEF Stored
  <1>3. CASE ReplayMessage(k) \/ FeedbackSent(k)
    BY <1>0, <1>1, <1>3, AcceptStep, SameStages DEF ReplayMessage, FeedbackSent, Stored
  <1>4. CASE MessageRefused(k)
    <2>1. SameJobs(db, SetSessionStatus(db, Thread[k], "ERROR"))
      BY <1>0, ThreadType, TransactionRows
    <2> QED BY <1>0, <1>4, <2>1, SameStages DEF MessageRefused, SameJobs
  <1> QED BY <1>2, <1>3, <1>4 DEF Messages

LEMMA NotifiesQueue ==
  ASSUME IInv, TypeOK', NEW t \in Turns, NEW c \in Copies, Notifies(t, c)
  PROVE  QueueStep
  <1> USE DEF tasks, runner, codex
  <1>0. TypeOK /\ OneDispatched /\ db \in Db /\ sent' = sent
    BY DEF IInv, TypeOK, Notifies, HandleNotify, AlertSent, NotifyLocked, Delivered
  <1>1. /\ RegisterNotify(db, t) \in Db /\ SameJobs(db, RegisterNotify(db, t))
        /\ SameJobs(db, db)
    BY <1>0, RegisterNotifyType, TransactionRows DEF SameJobs
  <1>2. \/ ReachLock(t, c, RegisterNotify(db, t)) \/ ReachLock(t, c, db)
        \/ CompletionSection(t, c, db)
        \/ db' = db \/ db' = RegisterNotify(db, t)
    BY DEF Notifies, HandleNotify, AlertSent, NotifyLocked, Delivered
  <1> QED BY <1>0, <1>1, <1>2, ReachLockQueue, CompletionQueue, SameStages DEF SameJobs

\* The start of a process gives the prompt; a claimed job is not QUEUED, so the end of
\* its coroutine can only close it.
LEMMA DispatchesQueue ==
  ASSUME IInv, TypeOK', NEW j \in Jobs, Dispatches(j)
  PROVE  QueueStep
  <1>0. /\ TypeOK /\ db \in Db /\ sent \in [Jobs -> Nat] /\ Thread[j] \in Sessions
        /\ Closes(db, db)
    BY ThreadType DEF IInv, TypeOK, Closes
  <1>1. run[j] # "none" /\ db.job[j] \notin {Absent, "QUEUED"}
    BY DEF IInv, Unclaimed, Dispatches, StartLive, StartManaged, StartRefused, StartRejected,
           LiveReturns, ManagedReturns, ManagedAbandoned
  <1>2. CASE StartLive(j) \/ StartManaged(j)
    <2>1. run[j] = "claimed" /\ db' = db /\ sent' = [sent EXCEPT ![j] = sent[j] + 1]
      BY <1>2 DEF StartLive, StartManaged, Spawn
    <2>2. sent[j] = 0
      BY <2>1 DEF IInv, Unstarted
    <2>3. sent' = [sent EXCEPT ![j] = 1]
      BY <2>1, <2>2
    <2> QED BY <1>0, <1>1, <2>1, <2>2, <2>3, GiveStep
  <1>3. CASE ~(StartLive(j) \/ StartManaged(j))
    <2>1. /\ \A st : Closes(db, MarkJobFailed(db, j, st))
          /\ \A o : Closes(db, Failed(j, o))
          /\ Closes(db, CancelDispatchedJob(db, j))
          /\ Closes(db, SetSessionStatus(db, Thread[j], "WAITING"))
      BY <1>0, <1>1, TransactionRows DEF Failed, Closes, SameJobs
    <2>2. Closes(db, ManagedResult(j))
      BY <1>0, <2>1 DEF ManagedResult
    <2>3. Closes(db, db')
      BY <1>0, <1>3, <2>1, <2>2 DEF Dispatches, StartRefused, StartRejected, MarkFailed,
                                    LiveReturns, ManagedReturns, ManagedAbandoned
    <2>4. sent' = sent
      BY <1>3 DEF Dispatches, StartRefused, StartRejected, LiveReturns, ManagedReturns,
                  ManagedAbandoned, Reap, codex
    <2> QED BY <1>0, <2>3, <2>4, EndStep
  <1> QED BY <1>2, <1>3

LEMMA CancelsQueue ==
  ASSUME IInv, TypeOK', NEW j \in Jobs, Cancels(j)
  PROVE  QueueStep
  <1>0. TypeOK /\ db \in Db /\ sent' = sent
    BY DEF IInv, TypeOK, Cancels, CancelQueued, CancelManaged, CancelReturns, codex
  <1>1. CASE CancelQueued(j)
    <2>1. /\ db.job[j] = "QUEUED" /\ db'.job[j] = "CANCELLED"
          /\ \A i \in Jobs : i # j => db'.job[i] = db.job[i]
      BY <1>0, <1>1 DEF CancelQueued, CancelQueuedJob, Db
    <2> QED BY <1>0, <2>1, CancelStep DEF Terminal
  <1>2. CASE CancelManaged(j)
    BY <1>0, <1>2, SameStages DEF CancelManaged
  <1>3. CASE CancelReturns(j)
    BY <1>0, <1>3, TransactionRows, EndStep, SameStages DEF CancelReturns
  <1> QED BY <1>1, <1>2, <1>3 DEF Cancels

LEMMA CommandsQueue ==
  ASSUME IInv, TypeOK', NEW s \in Sessions, SessionCommands(s)
  PROVE  QueueStep
  <1>0. /\ TypeOK /\ db \in Db /\ sent' = sent /\ SameJobs(db, db)
        /\ \A b : SameJobs(db, SetSessionAutoRun(db, s, b))
        /\ \A m : SameJobs(db, SetSessionMode(db, s, m))
        /\ SetSessionAutoRun(db, s, TRUE) \in Db
    BY TransactionRows, SessionTransactionTypes
       DEF IInv, TypeOK, SessionCommands, AutoOn, AutoOff, ResumeAutoRun, SetMode, codex, SameJobs
  <1>1. CASE AutoOn(s) \/ ResumeAutoRun(s)
    <2>1. CASE \E d \in {db, SetSessionAutoRun(db, s, TRUE)} : AutoDispatch(d, s)
      BY <1>0, <2>1, AutoDispatchQueue
    <2>2. CASE db' = SetSessionAutoRun(db, s, TRUE)
      BY <1>0, <2>2, SameStages DEF SameJobs
    <2> QED BY <1>1, <2>1, <2>2 DEF AutoOn, ResumeAutoRun
  <1>2. CASE AutoOff(s) \/ \E m \in Modes : SetMode(s, m)
    BY <1>0, <1>2, SameStages DEF AutoOff, SetMode, SameJobs
  <1> QED BY <1>1, <1>2 DEF SessionCommands

\* A crash keeps the first transaction of a handler, or the first two of a notify's.
LEMMA HalfDoneRows ==
  TypeOK => \A d \in HalfDone : Closes(db, d) \/ \E k \in Jobs : Stored(db, d, k)
  <1> SUFFICES ASSUME TypeOK, NEW d \in HalfDone
               PROVE  Closes(db, d) \/ \E k \in Jobs : Stored(db, d, k)
    OBVIOUS
  <1>0. db \in Db /\ db.events \subseteq Turns
    BY DEF TypeOK, Db
  <1>1. Closes(db, db) /\ \A s \in Sessions : Closes(db, SetSessionAutoRun(db, s, TRUE))
    BY <1>0 DEF Closes, SetSessionAutoRun, Db
  <1>2. ASSUME NEW t \in Turns
        PROVE  /\ Closes(db, RegisterNotify(db, t))
               /\ \A e \in HalfCompletion(db, Thread[t]) : Closes(db, e)
               /\ \A e \in HalfCompletion(RegisterNotify(db, t), Thread[t]) : Closes(db, e)
    <2>1. /\ RegisterNotify(db, t) \in Db /\ Thread[t] \in Sessions
          /\ SameJobs(db, RegisterNotify(db, t))
      BY <1>0, ThreadType, RegisterNotifyType, TransactionRows
    <2>2. /\ \A e \in HalfCompletion(db, Thread[t]) : Closes(db, e)
          /\ \A e \in HalfCompletion(RegisterNotify(db, t), Thread[t]) :
                Closes(RegisterNotify(db, t), e)
      BY <1>0, <2>1, HalfCompletionRows
    <2> QED BY <2>1, <2>2 DEF Closes, SameJobs
  <1> QED BY <1>0, <1>1, <1>2, HalfDoneCases, TransactionRows

LEMMA LifecycleQueue ==
  ASSUME IInv, TypeOK', Lifecycle
  PROVE  QueueStep
  <1>0. TypeOK /\ db \in Db /\ sent' = sent
    BY DEF IInv, TypeOK, Lifecycle, BeginShutdown, CloseRunner, FinishShutdown, Exit, Crash, Die,
           Restart, codex
  <1>1. CASE BeginShutdown \/ CloseRunner \/ Exit
    BY <1>0, <1>1, SameStages DEF BeginShutdown, CloseRunner, Exit, Die
  <1>2. CASE FinishShutdown \/ Restart
    BY <1>0, <1>2, TransactionRows, EndStep DEF FinishShutdown, Restart
  <1>3. CASE Crash
    <2>1. db' \in HalfDone
      BY <1>3 DEF Crash, Die
    <2> QED BY <1>0, <2>1, HalfDoneRows, EndStep, AcceptStep, SameStages DEF Stored
  <1> QED BY <1>1, <1>2, <1>3 DEF Lifecycle

LEMMA StepQueue == IInv /\ [Next]_vars => QueueStep
  <1> SUFFICES ASSUME IInv, [Next]_vars PROVE QueueStep
    OBVIOUS
  <1>0. TypeOK /\ TypeOK'
    BY TypeStep DEF IInv
  <1>1. ASSUME NEW j \in Jobs, Externals(j) PROVE QueueStep
    BY <1>0, <1>1, SameStages DEF Externals, PromptTaken, ChildExits
  <1>2. ASSUME NEW t \in Turns, TurnEnds(t) PROVE QueueStep
    BY <1>0, <1>2, SameStages DEF TurnEnds
  <1>3. CASE UNCHANGED vars
    BY <1>0, <1>3, SameStages DEF vars, codex
  <1> QED BY <1>0, <1>1, <1>2, <1>3, MessagesQueue, NotifiesQueue, DispatchesQueue,
             CancelsQueue, CommandsQueue, LifecycleQueue DEF Next

\* Every interleaving of handlers, processes, notifies, shutdowns and crashes is, to
\* whoever looks at the jobs and at the prompts given to Codex, one of the plain queue.
THEOREM QueueImplemented == Spec => ImplementsJobQueue
  <1>1. Init => JQ!Init
    <2> SUFFICES ASSUME Init PROVE JQ!Init
      OBVIOUS
    <2>1. /\ sent = [j \in Jobs |-> 0]
          /\ \A j \in Jobs : db.job[j] = Absent
      BY DEF Init, FreshDb
    <2>2. Stages = [j \in Jobs |-> "absent"]
      BY <2>1, StageOf DEF Stages
    <2> QED BY <2>1, <2>2 DEF JQ!Init, JQ!Jobs, Jobs, Stages, Stage
  <1>2. QueueStep => [JQ!Next]_<<Stages, sent>>
    BY DEF QueueStep
  <1>3. ImplementsJobQueue <=> JQ!Init /\ [][JQ!Next]_<<Stages, sent>>
    BY DEF ImplementsJobQueue, JQ!Spec, Stages, Stage
  <1> QED BY <1>1, <1>2, <1>3, Inductive, StepQueue, PTL DEF Spec
=============================================================================
