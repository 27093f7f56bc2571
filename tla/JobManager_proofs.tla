-------------------------- MODULE JobManager_proofs --------------------------
(***************************************************************************)
(* Types of JobManager for every set of sessions, every number of          *)
(* messages, notifies and faults, and facts about the transactions of      *)
(* Database that the proofs cite: they keep the types, they move jobs      *)
(* forward only, and each stores a job, closes dispatched ones or leaves   *)
(* the rows of jobs alone.                                                 *)
(***************************************************************************)
EXTENDS JobManager, TLAPS

-----------------------------------------------------------------------------
(* Transactions *)

\* Job and turn ids have a session.
LEMMA ThreadType == /\ \A t \in Turns : Thread[t] \in Sessions
                    /\ \A j \in Jobs : Thread[j] \in Sessions
  BY ThreadAssumption DEF Turns

\* Every transaction that names a job maps a database to a database.
LEMMA JobTransactionTypes ==
  ASSUME NEW d \in Db, NEW j \in Jobs
  PROVE  /\ CreateJob(d, j) \in Db
         /\ BeginJobDispatch(d, j) \in Db
         /\ CancelQueuedJob(d, j) \in Db
         /\ CancelDispatchedJob(d, j) \in Db
         /\ \A st \in SessionStatus : MarkJobFailed(d, j, st) \in Db
  <1>1. CreateJob(d, j) \in Db
    BY DEF Db, CreateJob, JobStatus
  <1>2. BeginJobDispatch(d, j) \in Db
    BY ThreadType DEF Db, BeginJobDispatch, JobStatus, SessionStatus
  <1>3. CancelQueuedJob(d, j) \in Db
    BY DEF Db, CancelQueuedJob, JobStatus, Terminal
  <1>4. CancelDispatchedJob(d, j) \in Db
    BY ThreadType DEF Db, CancelDispatchedJob, JobStatus, Terminal, SessionStatus
  <1>5. \A st \in SessionStatus : MarkJobFailed(d, j, st) \in Db
    BY ThreadType DEF Db, MarkJobFailed, JobStatus, Terminal
  <1> QED BY <1>1, <1>2, <1>3, <1>4, <1>5

\* So does every transaction that names a session, a turn or a set of jobs.
LEMMA SessionTransactionTypes ==
  ASSUME NEW d \in Db, NEW s \in Sessions
  PROVE  /\ CompleteDispatchedJob(d, s) \in Db
         /\ \A st \in SessionStatus : SetSessionStatus(d, s, st) \in Db
         /\ \A b \in BOOLEAN : SetSessionAutoRun(d, s, b) \in Db
         /\ \A m \in Mode : SetSessionMode(d, s, m) \in Db
  <1>1. CompleteDispatchedJob(d, s) \in Db
    BY DEF Db, CompleteDispatchedJob, JobStatus, Terminal
  <1>2. \A st \in SessionStatus : SetSessionStatus(d, s, st) \in Db
    BY DEF Db, SetSessionStatus
  <1>3. \A b \in BOOLEAN : SetSessionAutoRun(d, s, b) \in Db
    BY DEF Db, SetSessionAutoRun
  <1>4. \A m \in Mode : SetSessionMode(d, s, m) \in Db
    BY DEF Db, SetSessionMode, SessionStatus
  <1> QED BY <1>1, <1>2, <1>3, <1>4

LEMMA RegisterNotifyType ==
  ASSUME NEW d \in Db, NEW t \in Turns
  PROVE  RegisterNotify(d, t) \in Db
  BY ThreadType DEF Db, RegisterNotify, SessionStatus

LEMMA FailJobsType ==
  ASSUME NEW d \in Db, NEW J
  PROVE  FailJobs(d, J) \in Db
  BY DEF Db, FailJobs, SessionStatus, JobStatus, Terminal

LEMMA RecoverType ==
  ASSUME NEW d \in Db
  PROVE  RecoverJobSessionState(d) \in Db
  <1> DEFINE e == FailJobs(d, {j \in Jobs : d.mode[Thread[j]] = "MANAGED"})
  <1>1. e \in Db
    BY FailJobsType
  <1> HIDE DEF e
  <1>2. [e EXCEPT !.status = [r \in Sessions |-> IF DispatchedJobs(e, r) # {}
                                                 THEN "RUNNING" ELSE e.status[r]]] \in Db
    BY <1>1 DEF Db, SessionStatus
  <1> QED BY <1>2 DEF RecoverJobSessionState, e

-----------------------------------------------------------------------------
(* What every transaction but begin_job_dispatch and set_session_mode keeps *)

\* From d to e jobs are only stored or closed; a run that failed or was cancelled has
\* its queue paused; and auto-run goes on in a session that is well, or not at all.
NoClaim(d, e) ==
    /\ e.mode = d.mode
    /\ \A j \in Jobs :
          \/ e.job[j] = d.job[j]
          \/ d.job[j] = Absent /\ e.job[j] = "QUEUED"
          \/ d.job[j] \notin Terminal /\ e.job[j] \in Terminal
    /\ \A j \in Jobs : d.job[j] = "DISPATCHED" /\ e.job[j] \in {"FAILED", "CANCELLED"}
                         => ~e.auto[Thread[j]]
    /\ \A s \in Sessions : e.auto[s] => d.auto[s] \/ d.status[s] \notin {"ERROR", "OFFLINE"}

NotEnabling(d, e) == \A s \in Sessions : e.auto[s] => d.auto[s]

LEMMA NoClaimTransitive ==
  ASSUME NEW c, NEW d, NEW e, NoClaim(c, d), NoClaim(d, e), NotEnabling(d, e)
  PROVE  NoClaim(c, e)
  <1>1. \A j \in Jobs : c.job[j] = "DISPATCHED" /\ e.job[j] \in {"FAILED", "CANCELLED"}
                         => ~e.auto[Thread[j]]
    <2> SUFFICES ASSUME NEW j \in Jobs, c.job[j] = "DISPATCHED",
                        e.job[j] \in {"FAILED", "CANCELLED"}
                 PROVE  ~e.auto[Thread[j]]
      OBVIOUS
    <2>1. CASE d.job[j] = "DISPATCHED"
      BY <2>1 DEF NoClaim
    <2>2. CASE d.job[j] # "DISPATCHED"
      <3>1. d.job[j] \in {"FAILED", "CANCELLED"}
        BY <2>2 DEF NoClaim, Terminal, Absent
      <3> QED BY <3>1, ThreadType DEF NoClaim, NotEnabling
    <2> QED BY <2>1, <2>2
  <1> QED BY <1>1 DEF NoClaim, NotEnabling, Terminal, Absent

LEMMA JobsNoClaim ==
  ASSUME NEW d \in Db, NEW j \in Jobs
  PROVE  /\ NoClaim(d, d)
         /\ NoClaim(d, CreateJob(d, j))
         /\ NoClaim(d, CancelQueuedJob(d, j))
         /\ NoClaim(d, CancelDispatchedJob(d, j))
         /\ \A st : NoClaim(d, MarkJobFailed(d, j, st))
  <1> USE DEF NoClaim, Terminal, Absent
  <1>1. NoClaim(d, d)
    OBVIOUS
  <1>2. NoClaim(d, CreateJob(d, j))
    BY DEF Db, CreateJob
  <1>3. NoClaim(d, CancelQueuedJob(d, j))
    BY DEF Db, CancelQueuedJob
  <1>4. NoClaim(d, CancelDispatchedJob(d, j))
    BY ThreadType DEF Db, CancelDispatchedJob
  <1>5. \A st : NoClaim(d, MarkJobFailed(d, j, st))
    BY ThreadType DEF Db, MarkJobFailed
  <1> QED BY <1>1, <1>2, <1>3, <1>4, <1>5

LEMMA SessionsNoClaim ==
  ASSUME NEW d \in Db, NEW s \in Sessions
  PROVE  /\ NoClaim(d, CompleteDispatchedJob(d, s))
         /\ NotEnabling(d, CompleteDispatchedJob(d, s))
         /\ \A st : /\ NoClaim(d, SetSessionStatus(d, s, st))
                    /\ NotEnabling(d, SetSessionStatus(d, s, st))
         /\ NoClaim(d, SetSessionAutoRun(d, s, FALSE))
         /\ NotEnabling(d, SetSessionAutoRun(d, s, FALSE))
         /\ d.status[s] \notin {"ERROR", "OFFLINE"} => NoClaim(d, SetSessionAutoRun(d, s, TRUE))
  <1> USE DEF NoClaim, NotEnabling, Terminal
  <1>1. NoClaim(d, CompleteDispatchedJob(d, s)) /\ NotEnabling(d, CompleteDispatchedJob(d, s))
    BY DEF Db, CompleteDispatchedJob, IsOldest, DispatchedJobs, JobsIn
  <1>2. \A st : /\ NoClaim(d, SetSessionStatus(d, s, st))
               /\ NotEnabling(d, SetSessionStatus(d, s, st))
    BY DEF Db, SetSessionStatus
  <1>3. NoClaim(d, SetSessionAutoRun(d, s, FALSE)) /\ NotEnabling(d, SetSessionAutoRun(d, s, FALSE))
    BY DEF Db, SetSessionAutoRun
  <1>4. d.status[s] \notin {"ERROR", "OFFLINE"} => NoClaim(d, SetSessionAutoRun(d, s, TRUE))
    BY DEF Db, SetSessionAutoRun
  <1> QED BY <1>1, <1>2, <1>3, <1>4

LEMMA RegisterNotifyNoClaim ==
  ASSUME NEW d \in Db, NEW t \in Turns
  PROVE  NoClaim(d, RegisterNotify(d, t))
  BY ThreadType DEF NoClaim, Db, RegisterNotify

LEMMA FailJobsNoClaim ==
  ASSUME NEW d \in Db, NEW J
  PROVE  NoClaim(d, FailJobs(d, J)) /\ NotEnabling(d, FailJobs(d, J))
  BY ThreadType DEF NoClaim, NotEnabling, Terminal, Db, FailJobs, DispatchedJobs, JobsIn

\* The end of a handler whose session has lost its workspace.
LEMMA PauseNoClaim ==
  ASSUME NEW d \in Db, NEW s \in Sessions
  PROVE  /\ SetSessionStatus(SetSessionAutoRun(d, s, FALSE), s, "ERROR") \in Db
         /\ NoClaim(d, SetSessionStatus(SetSessionAutoRun(d, s, FALSE), s, "ERROR"))
         /\ NotEnabling(d, SetSessionStatus(SetSessionAutoRun(d, s, FALSE), s, "ERROR"))
  <1> DEFINE e == SetSessionAutoRun(d, s, FALSE)
  <1>1. e \in Db /\ NoClaim(d, e) /\ NotEnabling(d, e)
    BY SessionTransactionTypes, SessionsNoClaim
  <1> HIDE DEF e
  <1>2. /\ SetSessionStatus(e, s, "ERROR") \in Db
        /\ NoClaim(e, SetSessionStatus(e, s, "ERROR"))
        /\ NotEnabling(e, SetSessionStatus(e, s, "ERROR"))
    BY <1>1, SessionTransactionTypes, SessionsNoClaim DEF SessionStatus
  <1>3. NoClaim(d, SetSessionStatus(e, s, "ERROR")) /\ NotEnabling(d, SetSessionStatus(e, s, "ERROR"))
    BY <1>1, <1>2, NoClaimTransitive DEF NotEnabling
  <1> QED BY <1>2, <1>3 DEF e

\* What handle_completion may have committed when it ends early.
LEMMA HalfCompletionNoClaim ==
  ASSUME NEW d \in Db, NEW s \in Sessions, NEW e \in HalfCompletion(d, s)
  PROVE  e \in Db /\ NoClaim(d, e) /\ NotEnabling(d, e)
  <1> DEFINE f == CompleteDispatchedJob(d, s)
  <1>1. f \in Db /\ NoClaim(d, f) /\ NotEnabling(d, f)
    BY SessionTransactionTypes, SessionsNoClaim
  <1>2. e = f \/ e = SetSessionAutoRun(f, s, FALSE)
    BY DEF HalfCompletion
  <1> HIDE DEF f
  <1>3. /\ SetSessionAutoRun(f, s, FALSE) \in Db
        /\ NoClaim(f, SetSessionAutoRun(f, s, FALSE))
        /\ NotEnabling(f, SetSessionAutoRun(f, s, FALSE))
    BY <1>1, SessionTransactionTypes, SessionsNoClaim
  <1> QED BY <1>1, <1>2, <1>3, NoClaimTransitive DEF NotEnabling

LEMMA RecoverNoClaim ==
  ASSUME NEW d \in Db
  PROVE  NoClaim(d, RecoverJobSessionState(d))
  <1> DEFINE e == FailJobs(d, {j \in Jobs : d.mode[Thread[j]] = "MANAGED"})
             r == [e EXCEPT !.status = [s \in Sessions |-> IF DispatchedJobs(e, s) # {}
                                                          THEN "RUNNING" ELSE e.status[s]]]
  <1>1. e \in Db /\ NoClaim(d, e)
    BY FailJobsType, FailJobsNoClaim
  <1> HIDE DEF e
  <1>2. NoClaim(e, r) /\ NotEnabling(e, r)
    BY <1>1 DEF NoClaim, NotEnabling, Db
  <1>3. NoClaim(d, r)
    BY <1>1, <1>2, NoClaimTransitive
  <1> QED BY <1>3 DEF RecoverJobSessionState, e

\* Recovery leaves no DISPATCHED job in a MANAGED session.
LEMMA RecoverClosesManaged ==
  ASSUME NEW d \in Db, NEW j \in Jobs, d.mode[Thread[j]] = "MANAGED"
  PROVE  RecoverJobSessionState(d).job[j] # "DISPATCHED"
  <1> DEFINE e == FailJobs(d, {i \in Jobs : d.mode[Thread[i]] = "MANAGED"})
  <1>1. e \in Db
    BY FailJobsType
  <1>2. e.job[j] # "DISPATCHED"
    BY DEF FailJobs, Db
  <1> HIDE DEF e
  <1> QED BY <1>1, <1>2 DEF RecoverJobSessionState, e, Db

-----------------------------------------------------------------------------
(* The rows of the jobs *)

\* From d to e dispatched jobs are closed, any number of them.
Closes(d, e) ==
    \A j \in Jobs : e.job[j] = d.job[j] \/ (d.job[j] = "DISPATCHED" /\ e.job[j] \in Terminal)

\* Databases with the same rows of jobs.
SameJobs(d, e) == \A j \in Jobs : e.job[j] = d.job[j]

\* The job of message k is stored, or was there already.
Stored(d, e, k) ==
    /\ \A i \in Jobs : i # k => e.job[i] = d.job[i]
    /\ e.job[k] = d.job[k] \/ (d.job[k] = Absent /\ e.job[k] = "QUEUED")

\* What each transaction does to the rows of jobs.
LEMMA TransactionRows ==
  ASSUME NEW d \in Db
  PROVE  /\ \A k \in Jobs : Stored(d, CreateJob(d, k), k)
         /\ \A t \in Turns : SameJobs(d, RegisterNotify(d, t))
         /\ \A s \in Sessions : /\ Closes(d, CompleteDispatchedJob(d, s))
                                /\ \A st : SameJobs(d, SetSessionStatus(d, s, st))
                                /\ \A b : SameJobs(d, SetSessionAutoRun(d, s, b))
                                /\ \A m : SameJobs(d, SetSessionMode(d, s, m))
         /\ \A j \in Jobs : /\ Closes(d, CancelDispatchedJob(d, j))
                            /\ d.job[j] # "QUEUED" => \A st : Closes(d, MarkJobFailed(d, j, st))
         /\ \A J : Closes(d, FailJobs(d, J))
         /\ Closes(d, RecoverJobSessionState(d))
  <1>1. \A k \in Jobs : Stored(d, CreateJob(d, k), k)
    BY DEF Stored, CreateJob, Db
  <1>2. \A t \in Turns : SameJobs(d, RegisterNotify(d, t))
    BY DEF SameJobs, RegisterNotify, Db
  <1>3. \A s \in Sessions : Closes(d, CompleteDispatchedJob(d, s))
    BY DEF Closes, CompleteDispatchedJob, IsOldest, DispatchedJobs, JobsIn, Terminal, Db
  <1>4. \A s \in Sessions : /\ \A st : SameJobs(d, SetSessionStatus(d, s, st))
                            /\ \A b : SameJobs(d, SetSessionAutoRun(d, s, b))
                            /\ \A m : SameJobs(d, SetSessionMode(d, s, m))
    BY DEF SameJobs, SetSessionStatus, SetSessionAutoRun, SetSessionMode, Db
  <1>5. \A j \in Jobs : /\ Closes(d, CancelDispatchedJob(d, j))
                        /\ d.job[j] # "QUEUED" => \A st : Closes(d, MarkJobFailed(d, j, st))
    BY DEF Closes, CancelDispatchedJob, MarkJobFailed, Terminal, Db
  <1>6. \A J : Closes(d, FailJobs(d, J))
    BY DEF Closes, FailJobs, Terminal, Db
  <1>7. Closes(d, RecoverJobSessionState(d))
    <2> DEFINE e == FailJobs(d, {j \in Jobs : d.mode[Thread[j]] = "MANAGED"})
    <2>1. Closes(d, e)
      BY <1>6
    <2> HIDE DEF e
    <2>2. RecoverJobSessionState(d).job = e.job
      BY FailJobsType DEF RecoverJobSessionState, e, Db
    <2> QED BY <2>1, <2>2 DEF Closes
  <1> QED BY <1>1, <1>2, <1>3, <1>4, <1>5, <1>6, <1>7

-----------------------------------------------------------------------------
(* Types *)

LEMMA LockTaskTypes ==
  /\ \A k \in Jobs : MsgTask(k) \in LockTasks
  /\ \A t \in Turns, c \in Copies : NoteTask(t, c) \in LockTasks
  BY DEF LockTasks

\* The waiters of a session remain a sequence when one joins or the first leaves.
LEMMA WaitersTypes ==
  ASSUME TypeOK, NEW s \in Sessions, NEW w \in LockTasks
  PROVE  /\ Enter(s, w) => waiters' \in [Sessions -> Seq(LockTasks)]
         /\ Leave(s) /\ waiters[s] # <<>> => waiters' \in [Sessions -> Seq(LockTasks)]
  <1>1. waiters \in [Sessions -> Seq(LockTasks)]
    BY DEF TypeOK
  <1>2. Append(waiters[s], w) \in Seq(LockTasks)
    BY <1>1
  <1>3. waiters[s] # <<>> => Tail(waiters[s]) \in Seq(LockTasks)
    BY <1>1
  <1> QED BY <1>1, <1>2, <1>3 DEF Enter, Leave

LEMMA FaultType == TypeOK /\ Fault => faults' \in 0..MaxFaults
  BY BoundsAssumption DEF TypeOK, Fault

\* A claim writes one entry of run and one of via.
LEMMA StartTypes ==
  ASSUME TypeOK, NEW j \in Jobs, NEW m \in Mode, Start(j, m)
  PROVE  /\ run' \in [Jobs -> RunState]
         /\ via' \in [Jobs -> Mode \cup {"NONE"}]
  BY DEF TypeOK, Start, RunState

LEMMA AutoDispatchTypes ==
  ASSUME TypeOK, NEW d \in Db, NEW s \in Sessions, AutoDispatch(d, s)
  PROVE  /\ db' \in Db
         /\ run' \in [Jobs -> RunState]
         /\ via' \in [Jobs -> Mode \cup {"NONE"}]
         /\ background' \subseteq Jobs
         /\ faults' \in 0..MaxFaults
  <1>0. faults' \in 0..MaxFaults
    BY FaultType DEF AutoDispatch, WorkspaceDisabled, TypeOK
  <1>1. CASE \E j \in Jobs : /\ db' = BeginJobDispatch(d, j)
                             /\ Start(j, d.mode[s])
                             /\ background' = background \cup {j}
    <2>1. PICK j \in Jobs : /\ db' = BeginJobDispatch(d, j)
                            /\ Start(j, d.mode[s])
                            /\ background' = background \cup {j}
      BY <1>1
    <2>2. d.mode[s] \in Mode
      BY DEF Db
    <2>3. db' \in Db
      BY <2>1, JobTransactionTypes
    <2>4. background' \subseteq Jobs
      BY <2>1 DEF TypeOK
    <2> QED BY <1>0, <2>1, <2>2, <2>3, <2>4, StartTypes
  <1>2. CASE /\ db' \in {d, SetSessionStatus(SetSessionAutoRun(d, s, FALSE), s, "ERROR")}
             /\ UNCHANGED <<run, via, background>>
    BY <1>0, <1>2, PauseNoClaim DEF TypeOK
  <1> QED BY <1>1, <1>2 DEF AutoDispatch

LEMMA MessageSectionTypes ==
  ASSUME TypeOK, NEW d \in Db, NEW k \in Jobs, MessageSection(k, d)
  PROVE  /\ db' \in Db
         /\ run' \in [Jobs -> RunState]
         /\ via' \in [Jobs -> Mode \cup {"NONE"}]
         /\ msg' \in [Jobs -> MsgState]
         /\ holder' \in [Sessions -> Jobs \cup {NoJob}]
         /\ faults' \in 0..MaxFaults
  <1>1. \/ db' = d /\ UNCHANGED <<run, via>>
        \/ db' = BeginJobDispatch(d, k) /\ Start(k, d.mode[Thread[k]])
    BY DEF MessageSection
  <1>2. d.mode[Thread[k]] \in Mode /\ BeginJobDispatch(d, k) \in Db
    BY ThreadType, JobTransactionTypes DEF Db
  <1>3. db' \in Db
    BY <1>1, <1>2
  <1>4. run' \in [Jobs -> RunState] /\ via' \in [Jobs -> Mode \cup {"NONE"}]
    BY <1>1, <1>2, StartTypes DEF TypeOK
  <1>5. msg' \in [Jobs -> MsgState]
    BY DEF MessageSection, TypeOK, MsgState
  <1>6. holder' \in [Sessions -> Jobs \cup {NoJob}]
    BY DEF MessageSection, TypeOK
  <1>7. faults' \in 0..MaxFaults
    BY FaultType DEF MessageSection, TypeOK
  <1> QED BY <1>3, <1>4, <1>5, <1>6, <1>7

LEMMA CompletionSectionTypes ==
  ASSUME TypeOK, NEW d \in Db, NEW t \in Turns, NEW c \in Copies,
         CompletionSection(t, c, d)
  PROVE  /\ db' \in Db
         /\ run' \in [Jobs -> RunState]
         /\ via' \in [Jobs -> Mode \cup {"NONE"}]
         /\ background' \subseteq Jobs
         /\ note' \in [Turns \X Copies -> NoteState]
         /\ faults' \in 0..MaxFaults
  <1> DEFINE e == CompleteDispatchedJob(d, Thread[t])
  <1>1. e \in Db
    BY ThreadType DEF Db, CompleteDispatchedJob, JobStatus, Terminal
  <1>2. AutoDispatch(e, Thread[t]) => /\ db' \in Db
                                      /\ run' \in [Jobs -> RunState]
                                      /\ via' \in [Jobs -> Mode \cup {"NONE"}]
                                      /\ background' \subseteq Jobs
                                      /\ faults' \in 0..MaxFaults
    BY <1>1, ThreadType, AutoDispatchTypes
  <1>3. note' \in [Turns \X Copies -> NoteState]
    BY DEF CompletionSection, TypeOK, NoteState
  <1>4. faults' \in 0..MaxFaults
    BY <1>2, FaultType DEF CompletionSection, TypeOK
  <1>5. HalfCompletion(d, Thread[t]) \subseteq Db
    BY ThreadType, HalfCompletionNoClaim
  <1> QED BY <1>1, <1>2, <1>3, <1>4, <1>5 DEF CompletionSection, TypeOK

LEMMA ReachLockTypes ==
  ASSUME TypeOK, NEW d \in Db, NEW t \in Turns, NEW c \in Copies, ReachLock(t, c, d)
  PROVE  /\ db' \in Db
         /\ run' \in [Jobs -> RunState]
         /\ via' \in [Jobs -> Mode \cup {"NONE"}]
         /\ background' \subseteq Jobs
         /\ note' \in [Turns \X Copies -> NoteState]
         /\ waiters' \in [Sessions -> Seq(LockTasks)]
         /\ faults' \in 0..MaxFaults
  <1>1. CASE CompletionSection(t, c, d) /\ UNCHANGED waiters
    BY <1>1, CompletionSectionTypes DEF TypeOK
  <1>2. CASE /\ db' = d
             /\ note' = [note EXCEPT ![<<t, c>>] = "lock"]
             /\ Enter(Thread[t], NoteTask(t, c))
             /\ UNCHANGED <<run, via, background, faults>>
    BY <1>2, ThreadType, WaitersTypes, LockTaskTypes DEF TypeOK, NoteState
  <1> QED BY <1>1, <1>2 DEF ReachLock

\* What a crash or an exit leaves behind is well typed.
LEMMA DieTypes ==
  ASSUME TypeOK, NEW d \in Db, Die(d), UNCHANGED faults \/ Fault
  PROVE  TypeOK'
  <1>1. faults' \in 0..MaxFaults
    BY FaultType DEF TypeOK
  <1>2. /\ db' \in Db /\ phase' \in Phase
        /\ background' \subseteq Jobs /\ cancelReq' \subseteq Sessions
        /\ seen' \subseteq Turns
        /\ holder' \in [Sessions -> Jobs \cup {NoJob}]
        /\ killing' \in [Jobs -> Jobs \cup {NoJob}]
        /\ active' \in [Sessions -> Jobs \cup {NoJob}]
        /\ closing' \in [jobs : SUBSET Jobs, procs : SUBSET Jobs]
    BY DEF Die, Phase
  <1>3. waiters' \in [Sessions -> Seq(LockTasks)]
    BY DEF Die
  <1>4. msg' \in [Jobs -> MsgState]
    BY DEF Die, TypeOK, MsgState
  <1>5. run' \in [Jobs -> RunState]
    BY DEF Die, TypeOK, RunState
  <1>6. note' \in [Turns \X Copies -> NoteState]
    BY DEF Die, TypeOK, NoteState
  <1>7. proc' \in [Jobs -> ProcState]
    BY DEF Die, TypeOK, ProcState, Exited
  <1>8. /\ via' \in [Jobs -> Mode \cup {"NONE"}]
        /\ turn' \in [Turns -> TurnState]
        /\ sent' \in [Jobs -> Nat]
    BY DEF Die, TypeOK
  <1> QED BY <1>1, <1>2, <1>3, <1>4, <1>5, <1>6, <1>7, <1>8 DEF TypeOK

\* What a crash may keep: nothing, the first transaction of a handler, or what a
\* completion had committed.
LEMMA HalfDoneCases ==
  ASSUME TypeOK, NEW d \in HalfDone
  PROVE  \/ d = db \/ \E k \in Jobs : d = CreateJob(db, k)
         \/ \E s \in Sessions : /\ db.status[s] \notin {"ERROR", "OFFLINE"}
                                /\ d = SetSessionAutoRun(db, s, TRUE)
         \/ \E t \in Turns : \/ d = RegisterNotify(db, t)
                             \/ d \in HalfCompletion(RegisterNotify(db, t), Thread[t])
                             \/ d \in HalfCompletion(db, Thread[t])
  <1>1. db.events \subseteq Turns
    BY DEF TypeOK, Db
  <1> QED BY <1>1 DEF HalfDone

LEMMA HalfDoneType == TypeOK => HalfDone \subseteq Db
  <1> SUFFICES ASSUME TypeOK PROVE HalfDone \subseteq Db
    OBVIOUS
  <1>1. db \in Db
    BY DEF TypeOK
  <1>2. \A k \in Jobs : CreateJob(db, k) \in Db
    BY <1>1, JobTransactionTypes
  <1>3. \A s \in Sessions : SetSessionAutoRun(db, s, TRUE) \in Db
    BY <1>1, SessionTransactionTypes
  <1>4. \A t \in Turns : RegisterNotify(db, t) \in Db
    BY <1>1, RegisterNotifyType
  <1>5. \A t \in Turns : /\ HalfCompletion(db, Thread[t]) \subseteq Db
                         /\ HalfCompletion(RegisterNotify(db, t), Thread[t]) \subseteq Db
    BY <1>1, <1>4, ThreadType, HalfCompletionNoClaim
  <1> QED BY <1>1, <1>2, <1>3, <1>4, <1>5, HalfDoneCases

\* Every action keeps the types.
LEMMA TypeStep == TypeOK /\ [Next]_vars => TypeOK'
  <1> SUFFICES ASSUME TypeOK, [Next]_vars PROVE TypeOK'
    OBVIOUS
  <1> USE DEF tasks, runner, codex
  <1>0. /\ db \in Db
        /\ \A t \in Turns : Thread[t] \in Sessions
        /\ \A j \in Jobs : Thread[j] \in Sessions
    BY ThreadType DEF TypeOK
  <1>1. ASSUME NEW k \in Jobs, Messages(k) PROVE TypeOK'
    <2>1. CASE HandleMessage(k)
      <3>1. CreateJob(db, k) \in Db
        BY <1>0, JobTransactionTypes
      <3>2. CASE MessageSection(k, CreateJob(db, k)) /\ UNCHANGED waiters
        BY <2>1, <3>1, <3>2, MessageSectionTypes DEF HandleMessage, TypeOK
      <3>3. CASE /\ db' = CreateJob(db, k)
                 /\ msg' = [msg EXCEPT ![k] = "lock"]
                 /\ Enter(Thread[k], MsgTask(k))
                 /\ UNCHANGED <<run, via, holder, faults>>
        <4>1. waiters' \in [Sessions -> Seq(LockTasks)]
          BY <1>0, <3>3, WaitersTypes, LockTaskTypes
        <4> QED BY <2>1, <3>1, <3>3, <4>1 DEF HandleMessage, TypeOK, MsgState
      <3> QED BY <2>1, <3>2, <3>3 DEF HandleMessage
    <2>2. CASE ReplayMessage(k)
      BY <2>2, <1>0, JobTransactionTypes DEF ReplayMessage, TypeOK
    <2>3. CASE MessageLocked(k)
      <3>1. waiters' \in [Sessions -> Seq(LockTasks)]
        BY <2>3, <1>0, WaitersTypes, LockTaskTypes DEF MessageLocked, IsNext
      <3> QED BY <2>3, <3>1, <1>0, MessageSectionTypes DEF MessageLocked, TypeOK
    <2>4. CASE FeedbackSent(k)
      BY <2>4, <1>0 DEF FeedbackSent, Release, TypeOK, MsgState
    <2>5. CASE MessageRefused(k)
      <3>1. SetSessionStatus(db, Thread[k], "ERROR") \in Db
        BY <1>0, SessionTransactionTypes DEF SessionStatus
      <3> QED BY <2>5, <3>1, FaultType DEF MessageRefused, WorkspaceDisabled, TypeOK
    <2> QED BY <1>1, <2>1, <2>2, <2>3, <2>4, <2>5 DEF Messages
  <1>2. ASSUME NEW t \in Turns, NEW c \in Copies, Notifies(t, c) PROVE TypeOK'
    <2>0. RegisterNotify(db, t) \in Db
      BY <1>0, RegisterNotifyType
    <2>1. CASE HandleNotify(t, c)
      <3>1. CASE ReachLock(t, c, RegisterNotify(db, t))
        BY <2>0, <2>1, <3>1, ReachLockTypes DEF HandleNotify, TypeOK
      <3>2. CASE /\ db' \in {db, RegisterNotify(db, t)}
                 /\ \E st \in {"done", "alert"} : note' = [note EXCEPT ![<<t, c>>] = st]
                 /\ UNCHANGED <<run, via, background, waiters>>
                 /\ Fault \/ UNCHANGED faults
        BY <2>0, <2>1, <3>2, <1>0, FaultType DEF HandleNotify, TypeOK, NoteState
      <3> QED BY <2>1, <3>1, <3>2 DEF HandleNotify
    <2>2. CASE AlertSent(t, c)
      BY <2>2, <1>0, ReachLockTypes DEF AlertSent, TypeOK
    <2>3. CASE NotifyLocked(t, c)
      <3>1. waiters' \in [Sessions -> Seq(LockTasks)]
        BY <2>3, <1>0, WaitersTypes, LockTaskTypes DEF NotifyLocked, IsNext
      <3> QED BY <2>3, <3>1, <1>0, CompletionSectionTypes DEF NotifyLocked, TypeOK
    <2>4. CASE Delivered(t, c)
      BY <2>4 DEF Delivered, TypeOK, NoteState
    <2> QED BY <1>2, <2>1, <2>2, <2>3, <2>4 DEF Notifies
  <1>3. ASSUME NEW j \in Jobs, Dispatches(j) PROVE TypeOK'
    <2>0. /\ CancelDispatchedJob(db, j) \in Db
          /\ \A st \in SessionStatus : MarkJobFailed(db, j, st) \in Db
          /\ \A st \in SessionStatus : SetSessionStatus(db, Thread[j], st) \in Db
      BY <1>0, JobTransactionTypes, SessionTransactionTypes
    <2>1. /\ MarkJobFailed(db, j, "ERROR") \in Db
          /\ \A o : Failed(j, o) \in Db
          /\ SetSessionStatus(db, Thread[j], "WAITING") \in Db
      BY <2>0 DEF SessionStatus, Failed
    <2>2. ASSUME NEW r \in RunState, Finish(j, r)
          PROVE  run' \in [Jobs -> RunState] /\ background' \subseteq Jobs
      BY <2>2 DEF Finish, TypeOK
    <2>3. Spawn(j) => /\ proc' \in [Jobs -> ProcState]
                      /\ sent' \in [Jobs -> Nat]
      BY DEF Spawn, TypeOK, ProcState
    <2>4. Reap(j) => proc' \in [Jobs -> ProcState]
      BY DEF Reap, TypeOK, ProcState, Exited
    <2>5. Untrack(j) => /\ active' \in [Sessions -> Jobs \cup {NoJob}]
                        /\ cancelReq' \subseteq Sessions
      BY DEF Untrack, TypeOK
    <2>13. MarkFailed(j, "ERROR") => db' \in Db /\ faults' \in 0..MaxFaults
      BY <1>0, <2>1, FaultType DEF MarkFailed, TypeOK
    <2>6. CASE StartLive(j)
      BY <2>3, <2>6 DEF StartLive, Spawn, TypeOK, RunState
    <2>7. CASE StartManaged(j)
      BY <2>3, <2>7 DEF StartManaged, Spawn, TypeOK, RunState
    <2>8. CASE StartRefused(j)
      BY <2>13, <2>2, <2>8 DEF StartRefused, TypeOK, RunState
    <2>9. CASE StartRejected(j)
      BY <2>13, <2>2, <2>9 DEF StartRejected, TypeOK, RunState
    <2>10. CASE LiveReturns(j)
      <3>1. db' \in Db
        BY <2>1, <2>10, <1>0 DEF LiveReturns
      <3>2. faults' \in 0..MaxFaults
        BY <2>10, FaultType DEF LiveReturns, TypeOK
      <3> QED BY <2>2, <2>4, <2>10, <3>1, <3>2 DEF LiveReturns, Reap, TypeOK, RunState
    <2>11. CASE ManagedReturns(j)
      <3>1. ManagedResult(j) \in Db
        BY <2>0, <2>1, <1>0 DEF ManagedResult
      <3>2. db' \in Db
        BY <2>11, <3>1, <1>0 DEF ManagedReturns
      <3>3. faults' \in 0..MaxFaults
        BY <2>11, FaultType DEF ManagedReturns, TypeOK
      <3> QED BY <2>2, <2>4, <2>5, <2>11, <3>2, <3>3
             DEF ManagedReturns, Reap, TypeOK, RunState
    <2>12. CASE ManagedAbandoned(j)
      BY <2>2, <2>4, <2>5, <2>12 DEF ManagedAbandoned, Reap, TypeOK, RunState
    <2> QED BY <1>3, <2>6, <2>7, <2>8, <2>9, <2>10, <2>11, <2>12 DEF Dispatches
  <1>4. ASSUME NEW j \in Jobs, Externals(j) PROVE TypeOK'
    <2>1. CASE PromptTaken(j)
      BY <2>1 DEF PromptTaken, TypeOK, TurnState
    <2>2. ASSUME NEW o \in Outcomes \ {"rejected"}, ChildExits(j, o) PROVE TypeOK'
      BY <2>2, ChoiceAssumption DEF ChildExits, TypeOK, ProcState, Exited
    <2> QED BY <1>4, <2>1, <2>2 DEF Externals
  <1>5. ASSUME NEW t \in Turns, TurnEnds(t) PROVE TypeOK'
    BY <1>5 DEF TurnEnds, TypeOK, TurnState
  <1>6. ASSUME NEW j \in Jobs, Cancels(j) PROVE TypeOK'
    <2>1. CASE CancelQueued(j)
      BY <2>1, <1>0, JobTransactionTypes DEF CancelQueued, TypeOK
    <2>2. CASE CancelManaged(j)
      BY <2>2, <1>0 DEF CancelManaged, TypeOK
    <2>3. CASE CancelReturns(j)
      <3>1. CancelDispatchedJob(db, j) \in Db
        BY <1>0, JobTransactionTypes
      <3> QED BY <2>3, <3>1, <1>0, FaultType DEF CancelReturns, TypeOK
    <2> QED BY <1>6, <2>1, <2>2, <2>3 DEF Cancels
  <1>7. ASSUME NEW s \in Sessions, SessionCommands(s) PROVE TypeOK'
    <2>1. CASE AutoOn(s)
      <3>1. SetSessionAutoRun(db, s, TRUE) \in Db
        BY <1>0, SessionTransactionTypes
      <3> QED BY <2>1, <3>1, FaultType, AutoDispatchTypes DEF AutoOn, TypeOK
    <2>2. CASE AutoOff(s)
      BY <2>2, <1>0, SessionTransactionTypes DEF AutoOff, TypeOK
    <2>3. CASE ResumeAutoRun(s)
      BY <2>3, <1>0, AutoDispatchTypes DEF ResumeAutoRun, TypeOK
    <2>4. ASSUME NEW m \in Modes, SetMode(s, m) PROVE TypeOK'
      <3>1. SetSessionMode(db, s, m) \in Db
        BY <1>0, ChoiceAssumption, SessionTransactionTypes
      <3> QED BY <2>4, <3>1 DEF SetMode, TypeOK
    <2> QED BY <1>7, <2>1, <2>2, <2>3, <2>4 DEF SessionCommands
  <1>8. CASE Lifecycle
    <2>1. CASE BeginShutdown
      <3>1. faults' \in 0..MaxFaults
        BY <2>1, FaultType DEF BeginShutdown
      <3> QED BY <2>1, <3>1 DEF BeginShutdown, TypeOK, Phase, RunState
    <2>2. CASE CloseRunner
      <3>1. {active[s] : s \in Sessions} \ {NoJob} \subseteq Jobs
        BY DEF TypeOK
      <3>2. closing' \in [jobs : SUBSET Jobs, procs : SUBSET Jobs]
        BY <2>2, <3>1 DEF CloseRunner, TypeOK
      <3> QED BY <2>2, <3>2 DEF CloseRunner, TypeOK, Phase
    <2>3. CASE FinishShutdown
      BY <2>3, <1>0, FailJobsType DEF FinishShutdown, TypeOK, Phase
    <2>4. CASE Exit
      BY <2>4, <1>0, DieTypes DEF Exit
    <2>5. CASE Crash
      BY <2>5, HalfDoneType, DieTypes DEF Crash
    <2>6. CASE Restart
      BY <2>6, <1>0, RecoverType DEF Restart, TypeOK, Phase
    <2> QED BY <1>8, <2>1, <2>2, <2>3, <2>4, <2>5, <2>6 DEF Lifecycle
  <1>9. CASE UNCHANGED vars
    BY <1>9 DEF vars, TypeOK
  <1> QED BY <1>1, <1>2, <1>3, <1>4, <1>5, <1>6, <1>7, <1>8, <1>9 DEF Next

LEMMA TypeInit == Init => TypeOK
  <1> SUFFICES ASSUME Init PROVE TypeOK
    OBVIOUS
  <1>1. PICK modes \in [Sessions -> Modes] : db = FreshDb(modes)
    BY DEF Init
  <1>2. db \in Db
    BY <1>1, ChoiceAssumption DEF Db, FreshDb, SessionStatus
  <1> QED BY <1>2, BoundsAssumption
         DEF Init, TypeOK, Phase, MsgState, RunState, NoteState, ProcState, TurnState

\* The store, the coroutines, the locks, the runner and the processes stay well
\* formed whatever the users, Codex and the faults do.
THEOREM TypeCorrect == Spec => []TypeOK
  BY TypeInit, TypeStep, PTL DEF Spec
=============================================================================
