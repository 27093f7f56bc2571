----------------------------- MODULE JobManager -----------------------------
(***************************************************************************)
(* The job queue of the service: JobManager's coroutines, the Codex child  *)
(* processes they wait for, the notifies that close jobs, and crashes,     *)
(* restarts and shutdowns of the whole service                             *)
(* (src/codex_dispatch/job_manager.py, with the parts of managed_runner.py,*)
(* session_manager.py, notify_server.py and main.py it runs with).         *)
(*                                                                         *)
(* asyncio runs one coroutine at a time, from one suspension to the next:  *)
(* an action is one such stretch, all the transactions in it included.     *)
(* asyncio.Lock does not suspend when it is free, so a handler that finds  *)
(* its session's lock free goes through its critical section at once; the  *)
(* only await inside a critical section is the "queued" feedback.          *)
(***************************************************************************)
EXTENDS Database, Sequences

VARIABLES
    db,         \* the SQLite file: survives crashes
    phase,      \* the service: see Phase
    msg,        \* handle_message of message k, up to its dispatch
    run,        \* _dispatch_claimed of job j, in the foreground or background
    via,        \* the mode job j was claimed under, "NONE" before
    background, \* jobs whose dispatch is in JobManager._background_tasks
    note,       \* handle_notify of copy c of the end of turn t
    holder,     \* the message whose feedback is sent under the session lock
    waiters,    \* coroutines waiting for the session lock, oldest first
    killing,    \* /cancel of job j waits for the exit of process killing[j]
    active,     \* CodexManagedRunner._active: thread id -> process
    cancelReq,  \* CodexManagedRunner._cancel_requested
    closing,    \* shutdown(): its managed_jobs and the processes close() awaits
    seen,       \* NotifyServer._seen
    proc,       \* the `codex` child process started for job j
    turn,       \* Codex's own work on turn t
    sent,       \* ghost: how often prompt j was handed to a codex process
    faults      \* ghost: faults so far, at most MaxFaults

tasks == <<msg, run, via, background, note, holder, waiters, killing>>
runner == <<active, cancelReq>>
codex == <<proc, turn, sent>>
vars == <<db, phase, tasks, runner, closing, seen, codex, faults>>

\* "stopping": adapter closed and shutdown() gathering its background tasks;
\* "closing": inside runner.close(); "closed": shutdown() has returned.
Phase == {"up", "stopping", "closing", "closed", "down"}

MsgState  == {"none", "lock", "feedback", "done", "refused"}
\* "lost": the coroutine died with the process or was cancelled by shutdown.
RunState  == {"none", "claimed", "queueing", "resuming", "done", "rejected", "lost"}
NoteState == {"none", "alert", "lock", "deliver", "done"}

\* A process that has exited keeps its outcome until its coroutine has seen it.
Exited    == (Outcome \ {"rejected"}) \cup {"reaped"}
ProcState == {"none", "alive"} \cup Exited
TurnState == {"none", "working", "done"}

\* A coroutine that can wait for a session lock.
MsgTask(k)     == <<"msg", k, 0>>
NoteTask(t, c) == <<"note", t, c>>
LockTasks == {MsgTask(k) : k \in Jobs} \cup {NoteTask(t, c) : t \in Turns, c \in Copies}

\* asyncio.Lock is free for a newcomer: not held and nobody queued before it.
LockFree(s) == holder[s] = NoJob /\ waiters[s] = <<>>

\* mutant: nothing releases the lock when the feedback has been sent
KeepLock(s) == UNCHANGED holder

Release(s) == holder' = [holder EXCEPT ![s] = NoJob]

\* The lock is handed to the oldest waiter.
IsNext(s, w) == holder[s] = NoJob /\ waiters[s] # <<>> /\ Head(waiters[s]) = w

Leave(s)    == waiters' = [waiters EXCEPT ![s] = Tail(@)]
Enter(s, w) == waiters' = [waiters EXCEPT ![s] = Append(@, w)]

Fault == faults < MaxFaults /\ faults' = faults + 1

TypeOK ==
    /\ db \in Db
    /\ phase \in Phase
    /\ msg \in [Jobs -> MsgState]
    /\ run \in [Jobs -> RunState]
    /\ via \in [Jobs -> Mode \cup {"NONE"}]
    /\ background \subseteq Jobs
    /\ note \in [Turns \X Copies -> NoteState]
    /\ holder \in [Sessions -> Jobs \cup {NoJob}]
    /\ waiters \in [Sessions -> Seq(LockTasks)]
    /\ killing \in [Jobs -> Jobs \cup {NoJob}]
    /\ active \in [Sessions -> Jobs \cup {NoJob}]
    /\ cancelReq \subseteq Sessions
    /\ closing \in [jobs : SUBSET Jobs, procs : SUBSET Jobs]
    /\ seen \subseteq Turns
    /\ proc \in [Jobs -> ProcState]
    /\ turn \in [Turns -> TurnState]
    /\ sent \in [Jobs -> Nat]
    /\ faults \in 0..MaxFaults

Init == /\ \E modes \in [Sessions -> Modes] : db = FreshDb(modes)
        /\ phase = "up"
        /\ background = {} /\ cancelReq = {} /\ seen = {}
        /\ holder = [s \in Sessions |-> NoJob]
        /\ waiters = [s \in Sessions |-> <<>>]
        /\ killing = [j \in Jobs |-> NoJob]
        /\ active = [s \in Sessions |-> NoJob]
        /\ closing = [jobs |-> {}, procs |-> {}]
        /\ msg = [k \in Jobs |-> "none"]
        /\ run = [j \in Jobs |-> "none"]
        /\ via = [j \in Jobs |-> "NONE"]
        /\ note = [n \in Turns \X Copies |-> "none"]
        /\ proc = [j \in Jobs |-> "none"]
        /\ turn = [t \in Turns |-> IF t \in OwnTurns THEN "working" ELSE "none"]
        /\ sent = [j \in Jobs |-> 0]
        /\ faults = 0

-----------------------------------------------------------------------------
(* Claiming: DISPATCHED is committed, then a coroutine carries the job out. *)

Start(j, mode) == /\ run' = [run EXCEPT ![j] = "claimed"]
                  /\ via' = [via EXCEPT ![j] = mode]

\* mutant: believes the session status, which a notify sets before it completes
CanAutoDispatchIdle(d, s) ==
    phase = "up" /\ d.auto[s] /\ d.status[s] = "IDLE" /\ QueuedJobs(d, s) # {}

\* _prepare_auto_dispatch.  The sessions of this model are mapped to Discord
\* threads and main.py always has a managed runner.
CanAutoDispatch(d, s) ==
    /\ phase = "up"                            \* not _shutting_down
    /\ d.auto[s] /\ d.status[s] = "IDLE"
    /\ DispatchedJobs(d, s) = {}
    /\ QueuedJobs(d, s) # {}

\* The workspace of a session is gone or disabled: the operator's hand on the
\* database, so any read may find it so, and each such read counts as a fault.
WorkspaceDisabled == Fault

\* The rest of a handler that ends in _prepare_auto_dispatch: d is what it has
\* committed so far, the dispatch itself is a background task.
AutoDispatch(d, s) ==
    \/ /\ CanAutoDispatch(d, s)
       /\ \E j \in Jobs :
          /\ IsOldest(QueuedJobs(d, s), j)
          /\ db' = BeginJobDispatch(d, j)
          /\ Start(j, d.mode[s])
          /\ background' = background \cup {j}
       /\ UNCHANGED faults
    \/ /\ CanAutoDispatch(d, s) /\ WorkspaceDisabled
       /\ db' = SetSessionStatus(SetSessionAutoRun(d, s, FALSE), s, "ERROR")
       /\ UNCHANGED <<run, via, background>>
    \/ /\ ~CanAutoDispatch(d, s)
       /\ db' = d
       /\ UNCHANGED <<run, via, background, faults>>

-----------------------------------------------------------------------------
(* handle_message *)

\* The critical section, entered with the database d.
MessageSection(k, d) ==
    LET s == Thread[k] IN
    \/ /\ SessionBusy(d, s)                    \* "queued" feedback under the lock
       /\ msg' = [msg EXCEPT ![k] = "feedback"]
       /\ holder' = [holder EXCEPT ![s] = k]
       /\ db' = d
       /\ UNCHANGED <<run, via, faults>>
    \/ /\ ~SessionBusy(d, s) /\ CanBeginDispatch(d, k)
       /\ db' = BeginJobDispatch(d, k)
       /\ Start(k, d.mode[s])
       /\ msg' = [msg EXCEPT ![k] = "done"]
       /\ UNCHANGED <<holder, faults>>
    \/ /\ ~SessionBusy(d, s) /\ ~CanBeginDispatch(d, k)
       /\ db' = d                              \* DatabaseInvariantError
       /\ msg' = [msg EXCEPT ![k] = "done"]
       /\ UNCHANGED <<run, via, holder, faults>>
    \/ /\ ~SessionBusy(d, s)                   \* DatabaseBusyError: "try again"
       /\ Fault
       /\ db' = d
       /\ msg' = [msg EXCEPT ![k] = "refused"]
       /\ UNCHANGED <<run, via, holder>>

\* The next message: create_job, then the lock.
HandleMessage(k) ==
    /\ phase = "up" /\ IsNextId(db, k) /\ msg[k] = "none"
    /\ IF LockFree(Thread[k])
       THEN MessageSection(k, CreateJob(db, k)) /\ UNCHANGED waiters
       ELSE /\ db' = CreateJob(db, k)
            /\ msg' = [msg EXCEPT ![k] = "lock"]
            /\ Enter(Thread[k], MsgTask(k))
            /\ UNCHANGED <<run, via, holder, faults>>
    /\ UNCHANGED <<phase, background, note, killing, runner, closing, seen, codex>>

\* Discord delivers a message again whose job exists: "already accepted".  (A
\* message refused because create_job found the database locked left no row: to
\* the service it has not arrived yet.)
ReplayMessage(k) ==
    /\ phase = "up" /\ db.job[k] # Absent
    /\ db' = CreateJob(db, k)
    /\ UNCHANGED <<phase, tasks, runner, closing, seen, codex, faults>>

\* Whatever message it is, new or not: before create_job a disabled workspace makes
\* the session ERROR, whose auto-run stays as it is.
MessageRefused(k) ==
    /\ phase = "up" /\ WorkspaceDisabled
    /\ db' = SetSessionStatus(db, Thread[k], "ERROR")
    /\ UNCHANGED <<phase, tasks, runner, closing, seen, codex>>

MessageLocked(k) ==
    /\ phase # "down" /\ msg[k] = "lock" /\ IsNext(Thread[k], MsgTask(k))
    /\ MessageSection(k, db)
    /\ Leave(Thread[k])
    /\ UNCHANGED <<phase, background, note, killing, runner, closing, seen, codex>>

FeedbackSent(k) ==
    /\ phase # "down" /\ msg[k] = "feedback"
    /\ msg' = [msg EXCEPT ![k] = "done"]
    /\ Release(Thread[k])
    /\ UNCHANGED <<db, phase, run, via, background, note, waiters, killing,
                   runner, closing, seen, codex, faults>>

-----------------------------------------------------------------------------
(* handle_notify of main.py: session_manager.handle_notify, then             *)
(* job_manager.handle_completion, then completion_notifier.deliver           *)

\* What handle_completion may have committed before its last transaction: the job is
\* closed, and auto-run is off but the session of a disabled workspace not yet ERROR.
HalfCompletion(d, s) ==
    LET e == CompleteDispatchedJob(d, s) IN
    {e} \cup IF DispatchedJobs(d, s) # {} /\ CanAutoDispatch(e, s)
             THEN {SetSessionAutoRun(e, s, FALSE)} ELSE {}

\* handle_completion, entered with the database d: complete, then claim the next
\* job.  A busy transaction ends the handler with an ERROR reply.
CompletionSection(t, c, d) ==
    LET s == Thread[t]
        e == CompleteDispatchedJob(d, s)
    IN
    \/ /\ note' = [note EXCEPT ![<<t, c>>] = "deliver"]
       /\ IF DispatchedJobs(d, s) # {}
          THEN AutoDispatch(e, s)
          ELSE db' = d /\ UNCHANGED <<run, via, background, faults>>
    \/ /\ Fault
       /\ note' = [note EXCEPT ![<<t, c>>] = "done"]
       /\ db' \in {d} \cup HalfCompletion(d, s)
       /\ UNCHANGED <<run, via, background>>

ReachLock(t, c, d) ==
    \/ /\ LockFree(Thread[t])
       /\ CompletionSection(t, c, d)
       /\ UNCHANGED waiters
    \/ /\ ~LockFree(Thread[t])
       /\ db' = d
       /\ note' = [note EXCEPT ![<<t, c>>] = "lock"]
       /\ Enter(Thread[t], NoteTask(t, c))
       /\ UNCHANGED <<run, via, background, faults>>

\* A copy of the end of turn t is read from the socket.  The alert in the control
\* channel is sent for a new event only; a repeated one goes straight on.
\* register_notify raises for a busy database and for a disabled workspace.
HandleNotify(t, c) ==
    /\ phase \in {"up", "stopping", "closing"}
    /\ turn[t] = "done" /\ note[<<t, c>>] = "none"
    /\ c > 1 => note[<<t, c - 1>>] # "none"        \* copies are numbered as they come
    /\ \/ /\ t \in seen                        \* replied DUPLICATE
          /\ note' = [note EXCEPT ![<<t, c>>] = "done"]
          /\ UNCHANGED <<db, run, via, background, waiters, faults>>
       \/ /\ t \notin seen /\ t \notin db.events
          /\ db' = RegisterNotify(db, t)
          /\ note' = [note EXCEPT ![<<t, c>>] = "alert"]
          /\ UNCHANGED <<run, via, background, waiters, faults>>
       \/ /\ t \notin seen /\ t \in db.events
          /\ ReachLock(t, c, RegisterNotify(db, t))
       \/ /\ t \notin seen /\ Fault
          /\ note' = [note EXCEPT ![<<t, c>>] = "done"]
          /\ UNCHANGED <<db, run, via, background, waiters>>
    /\ UNCHANGED <<phase, msg, holder, killing, runner, closing, seen, codex>>

AlertSent(t, c) ==
    /\ phase # "down" /\ note[<<t, c>>] = "alert"
    /\ ReachLock(t, c, db)
    /\ UNCHANGED <<phase, msg, holder, killing, runner, closing, seen, codex>>

NotifyLocked(t, c) ==
    /\ phase # "down" /\ note[<<t, c>>] = "lock" /\ IsNext(Thread[t], NoteTask(t, c))
    /\ CompletionSection(t, c, db)
    /\ Leave(Thread[t])
    /\ UNCHANGED <<phase, msg, holder, killing, runner, closing, seen, codex>>

\* deliver() returns or gives up; only a handler that returned is remembered.
Delivered(t, c) ==
    /\ phase # "down" /\ note[<<t, c>>] = "deliver"
    /\ note' = [note EXCEPT ![<<t, c>>] = "done"]
    /\ seen' \in {seen, seen \cup {t}}
    /\ UNCHANGED <<db, phase, msg, run, via, background, holder, waiters, killing,
                   runner, closing, codex, faults>>

-----------------------------------------------------------------------------
(* _dispatch_claimed *)

ShuttingDown == phase # "up"

Finish(j, result) == /\ run' = [run EXCEPT ![j] = result]
                     /\ background' = background \ {j}

\* The last transaction of a dispatch that failed; busy, it is given up.
MarkFailed(j, status) ==
    \/ db' = MarkJobFailed(db, j, status) /\ UNCHANGED faults
    \/ Fault /\ UNCHANGED db

\* Hand the prompt to a codex process.
Spawn(j) == /\ proc' = [proc EXCEPT ![j] = "alive"]
            /\ sent' = [sent EXCEPT ![j] = @ + 1]
            /\ UNCHANGED turn

StartLive(j) ==
    /\ phase # "down" /\ run[j] = "claimed" /\ via[j] = "LIVE"
    /\ Spawn(j)
    /\ run' = [run EXCEPT ![j] = "queueing"]
    /\ UNCHANGED <<db, phase, msg, via, background, note, holder, waiters, killing,
                   runner, closing, seen, faults>>

\* mutant: a cancelled process is taken for a stopped one
RunnerFreeOnCancel(s) == active[s] = NoJob \/ s \in cancelReq

\* CodexManagedRunner.resume allows one process per thread.
RunnerFree(s) == active[s] = NoJob

StartManaged(j) ==
    LET s == Thread[j] IN
    /\ phase # "down" /\ run[j] = "claimed" /\ via[j] = "MANAGED" /\ RunnerFree(s)
    /\ Spawn(j)
    /\ run' = [run EXCEPT ![j] = "resuming"]
    /\ active' = [active EXCEPT ![s] = j]
    /\ cancelReq' = cancelReq \ {s}
    /\ UNCHANGED <<db, phase, msg, via, background, note, holder, waiters, killing,
                   closing, seen, faults>>

\* CodexManagedAlreadyRunningError: the thread's last process is still tracked.
StartRefused(j) ==
    /\ phase # "down" /\ run[j] = "claimed" /\ via[j] = "MANAGED"
    /\ ~RunnerFree(Thread[j])
    /\ MarkFailed(j, "ERROR")
    /\ Finish(j, "done")
    /\ UNCHANGED <<phase, msg, via, note, holder, waiters, killing, runner, closing,
                   seen, codex>>

\* The workspace is no longer valid, or codex cannot be started.
StartRejected(j) ==
    /\ "rejected" \in Outcomes
    /\ phase # "down" /\ run[j] = "claimed"
    /\ MarkFailed(j, "ERROR")
    /\ Finish(j, "rejected")
    /\ UNCHANGED <<phase, msg, via, note, holder, waiters, killing, runner, closing,
                   seen, codex>>

\* What an exit other than success does to the job.
Failed(j, outcome) ==
    MarkJobFailed(db, j, IF outcome = "unavailable" THEN "OFFLINE" ELSE "ERROR")

Reap(j) == /\ proc' = [proc EXCEPT ![j] = "reaped"]
           /\ UNCHANGED <<turn, sent>>

LiveReturns(j) ==
    /\ phase # "down" /\ run[j] = "queueing" /\ proc[j] \in Exited
    /\ \/ /\ db' = IF proc[j] = "ok" THEN db ELSE Failed(j, proc[j])
          /\ UNCHANGED faults
       \/ Fault /\ UNCHANGED db                \* DatabaseBusyError
    /\ Finish(j, "done") /\ Reap(j)
    /\ UNCHANGED <<phase, msg, via, note, holder, waiters, killing, runner, closing, seen>>

\* runner.resume() raises by timeout, then by cancellation, then by exit code.
ManagedResult(j) ==
    CASE proc[j] = "timeout" -> Failed(j, "timeout")
      [] proc[j] # "timeout" /\ Thread[j] \in cancelReq ->
            IF ShuttingDown THEN MarkJobFailed(db, j, "ERROR") ELSE CancelDispatchedJob(db, j)
      [] proc[j] = "ok" /\ Thread[j] \notin cancelReq ->
            IF db.job[j] = "DISPATCHED" THEN SetSessionStatus(db, Thread[j], "WAITING") ELSE db
      [] OTHER -> Failed(j, proc[j])

Untrack(j) == /\ active' = [active EXCEPT ![Thread[j]] = NoJob]
              /\ cancelReq' = cancelReq \ {Thread[j]}

ManagedReturns(j) ==
    /\ phase # "down" /\ run[j] = "resuming" /\ proc[j] \in Exited
    /\ ~(ShuttingDown /\ j \in background)
    /\ Untrack(j)
    /\ \/ db' = ManagedResult(j) /\ UNCHANGED faults
       \/ Fault /\ UNCHANGED db                \* DatabaseBusyError
    /\ Finish(j, "done") /\ Reap(j)
    /\ UNCHANGED <<phase, msg, via, note, holder, waiters, killing, closing, seen>>

\* CancelledError: the background task was cancelled by shutdown().
ManagedAbandoned(j) ==
    /\ phase # "down" /\ run[j] = "resuming" /\ proc[j] \in Exited
    /\ ShuttingDown /\ j \in background
    /\ Untrack(j)
    /\ Finish(j, "lost") /\ Reap(j)
    /\ UNCHANGED <<db, phase, msg, via, note, holder, waiters, killing, closing, seen, faults>>

-----------------------------------------------------------------------------
(* Codex: the child processes and the turns they cause *)

PromptTaken(j) ==
    /\ proc[j] = "alive" /\ turn[j] = "none"
    /\ turn' = [turn EXCEPT ![j] = "working"]
    /\ UNCHANGED <<db, phase, tasks, runner, closing, seen, proc, sent, faults>>

\* `codex exec resume` works on the turn itself, the TUI outlives `codex queue`.
TurnEnds(t) ==
    /\ turn[t] = "working"
    /\ t \in Jobs /\ via[t] = "MANAGED" => proc[t] = "alive"
    /\ turn' = [turn EXCEPT ![t] = "done"]
    /\ UNCHANGED <<db, phase, tasks, runner, closing, seen, proc, sent, faults>>

\* The service terminates a managed process for a cancellation, or because its
\* background task is cancelled.
Terminated(j) ==
    via[j] = "MANAGED" /\ (Thread[j] \in cancelReq \/ (ShuttingDown /\ j \in background))

CanExit(j, outcome) ==
    CASE outcome = "ok"          -> turn[j] = "done" \/ (via[j] = "LIVE" /\ turn[j] = "working")
      [] outcome = "unavailable" -> turn[j] = "none"
      [] outcome = "refused"     -> turn[j] = "none" \/ via[j] = "MANAGED"
      [] outcome = "timeout"     -> TRUE
      [] outcome = "killed"      -> Terminated(j)

ChildExits(j, outcome) ==
    /\ proc[j] = "alive" /\ CanExit(j, outcome)
    /\ proc' = [proc EXCEPT ![j] = outcome]
    /\ UNCHANGED <<db, phase, tasks, runner, closing, seen, turn, sent, faults>>

-----------------------------------------------------------------------------
(* Discord commands.  A command that waits for the session lock is one that    *)
(* runs later: it runs whenever no coroutine is suspended inside the lock.     *)

CancelQueued(j) ==
    /\ phase = "up" /\ db.job[j] = "QUEUED"
    /\ db' = CancelQueuedJob(db, j)
    /\ UNCHANGED <<phase, tasks, runner, closing, seen, codex, faults>>

\* cancel_text takes no lock: runner.cancel() terminates the thread's process...
CancelManaged(j) ==
    LET s == Thread[j] IN
    /\ phase = "up" /\ db.job[j] = "DISPATCHED" /\ db.mode[s] = "MANAGED"
    /\ active[s] # NoJob /\ killing[j] = NoJob
    /\ killing' = [killing EXCEPT ![j] = active[s]]
    /\ cancelReq' = cancelReq \cup {s}
    /\ UNCHANGED <<db, phase, msg, run, via, background, note, holder, waiters, active,
                   closing, seen, codex, faults>>

\* ...and the job is marked once that process has exited.
CancelReturns(j) ==
    /\ phase # "down" /\ killing[j] # NoJob /\ proc[killing[j]] \in Exited
    /\ \/ db' = CancelDispatchedJob(db, j) /\ UNCHANGED faults
       \/ Fault /\ UNCHANGED db                \* DatabaseBusyError
    /\ killing' = [killing EXCEPT ![j] = NoJob]
    /\ UNCHANGED <<phase, msg, run, via, background, note, holder, waiters, runner,
                   closing, seen, codex>>

AutoOn(s) ==
    LET e == SetSessionAutoRun(db, s, TRUE) IN
    /\ phase = "up" /\ holder[s] = NoJob
    /\ db.status[s] \notin {"ERROR", "OFFLINE"}
    /\ \/ AutoDispatch(e, s)
       \/ /\ Fault                             \* DatabaseBusyError
          /\ db' = e
          /\ UNCHANGED <<run, via, background>>
    /\ UNCHANGED <<phase, msg, note, holder, waiters, killing, runner, closing, seen,
                   codex>>

AutoOff(s) ==
    /\ phase = "up" /\ holder[s] = NoJob
    /\ db' = SetSessionAutoRun(db, s, FALSE)
    /\ UNCHANGED <<phase, tasks, runner, closing, seen, codex, faults>>

SetMode(s, m) ==
    /\ phase = "up" /\ holder[s] = NoJob /\ CanSetMode(db, s)
    /\ db' = SetSessionMode(db, s, m)
    /\ UNCHANGED <<phase, tasks, runner, closing, seen, codex, faults>>

\* resume_auto_run, at every on_ready of the Discord gateway.
ResumeAutoRun(s) ==
    /\ phase = "up" /\ holder[s] = NoJob /\ CanAutoDispatch(db, s)
    /\ AutoDispatch(db, s)
    /\ UNCHANGED <<phase, msg, note, holder, waiters, killing, runner, closing, seen,
                   codex>>

-----------------------------------------------------------------------------
(* Shutdown, crash and restart *)

\* shutdown() up to the gather: a background task that waits for `codex queue` or
\* has not started is gone at once, one in runner.resume() first reaps its process.
BeginShutdown ==
    /\ phase = "up" /\ Fault
    /\ phase' = "stopping"
    /\ closing' = [closing EXCEPT !.jobs =
                     {j \in Jobs : db.job[j] = "DISPATCHED" /\ db.mode[Thread[j]] = "MANAGED"}]
    /\ background' = {j \in background : run[j] = "resuming"}
    /\ run' = [j \in Jobs |-> IF j \in background /\ run[j] \in {"claimed", "queueing"}
                               THEN "lost" ELSE run[j]]
    /\ UNCHANGED <<db, msg, via, note, holder, waiters, killing, runner, seen, codex>>

\* runner.close(): cancel() for every tracked process.
CloseRunner ==
    /\ phase = "stopping" /\ background = {}
    /\ phase' = "closing"
    /\ cancelReq' = cancelReq \cup {s \in Sessions : active[s] # NoJob}
    /\ closing' = [closing EXCEPT !.procs = {active[s] : s \in Sessions} \ {NoJob}]
    /\ UNCHANGED <<db, tasks, active, seen, codex, faults>>

\* One transaction per job.  One that is busy (no fault of its own: the stop was one)
\* ends shutdown() with its exception, and a crash may come between two: the jobs from
\* there on stay DISPATCHED.
FinishShutdown ==
    /\ phase = "closing" /\ \A p \in closing.procs : proc[p] \in Exited
    /\ phase' = "closed"
    /\ \E J \in SUBSET closing.jobs : db' = FailJobs(db, J)
    /\ UNCHANGED <<tasks, runner, closing, seen, codex, faults>>

\* The process ends with the database d: coroutines die with it and systemd kills
\* what is left of its children (KillMode=mixed); the TUI is not one of them.
Die(d) ==
    /\ db' = d
    /\ phase' = "down"
    /\ background' = {} /\ cancelReq' = {} /\ seen' = {}
    /\ holder' = [s \in Sessions |-> NoJob]
    /\ waiters' = [s \in Sessions |-> <<>>]
    /\ killing' = [j \in Jobs |-> NoJob]
    /\ active' = [s \in Sessions |-> NoJob]
    /\ closing' = [jobs |-> {}, procs |-> {}]
    /\ msg' = [k \in Jobs |-> IF msg[k] \in {"lock", "feedback"} THEN "done" ELSE msg[k]]
    /\ run' = [j \in Jobs |->
                 IF run[j] \in {"claimed", "queueing", "resuming"} THEN "lost" ELSE run[j]]
    /\ note' = [n \in Turns \X Copies |->
                  IF note[n] \in {"alert", "lock", "deliver"} THEN "done" ELSE note[n]]
    /\ proc' = [j \in Jobs |-> IF proc[j] = "none" THEN "none" ELSE "reaped"]
    /\ UNCHANGED <<via, turn, sent>>

Exit == phase = "closed" /\ Die(db) /\ UNCHANGED faults

\* What a handler has committed when it dies before its next transaction.
HalfDone ==
    LET created   == {CreateJob(db, k) : k \in {i \in Jobs : phase = "up" /\ IsNextId(db, i)}}
        enabled   == {SetSessionAutoRun(db, s, TRUE) :
                        s \in {r \in Sessions : /\ phase = "up" /\ holder[r] = NoJob
                                                /\ db.status[r] \notin {"ERROR", "OFFLINE"}}}
        repeated  == {t \in db.events \ seen : \E c \in Copies : note[<<t, c>>] = "none"}
        entering  == {t \in Turns : \E c \in Copies :
                        \/ note[<<t, c>>] = "alert" /\ LockFree(Thread[t])
                        \/ note[<<t, c>>] = "lock" /\ IsNext(Thread[t], NoteTask(t, c))}
        completed == {HalfCompletion(RegisterNotify(db, t), Thread[t]) : t \in repeated}
                       \cup {HalfCompletion(db, Thread[t]) : t \in entering}
    IN  {db} \cup created \cup enabled
             \cup {RegisterNotify(db, t) : t \in repeated} \cup UNION completed

Crash == phase # "down" /\ Fault /\ \E d \in HalfDone : Die(d)

\* recover(), before the notify server and the adapter are started.
Restart ==
    /\ phase = "down"
    /\ phase' = "up"
    /\ db' = RecoverJobSessionState(db)
    /\ UNCHANGED <<tasks, runner, closing, seen, codex, faults>>

-----------------------------------------------------------------------------
Messages(k) ==
    \/ HandleMessage(k) \/ ReplayMessage(k) \/ MessageRefused(k)
    \/ MessageLocked(k) \/ FeedbackSent(k)

Notifies(t, c) ==
    HandleNotify(t, c) \/ AlertSent(t, c) \/ NotifyLocked(t, c) \/ Delivered(t, c)

Dispatches(j) ==
    \/ StartLive(j) \/ StartManaged(j) \/ StartRefused(j) \/ StartRejected(j)
    \/ LiveReturns(j) \/ ManagedReturns(j) \/ ManagedAbandoned(j)

Externals(j) == PromptTaken(j) \/ \E o \in Outcomes \ {"rejected"} : ChildExits(j, o)

Cancels(j) == CancelQueued(j) \/ CancelManaged(j) \/ CancelReturns(j)

SessionCommands(s) ==
    AutoOn(s) \/ AutoOff(s) \/ ResumeAutoRun(s) \/ \E m \in Modes : SetMode(s, m)

Lifecycle == BeginShutdown \/ CloseRunner \/ FinishShutdown \/ Exit \/ Crash \/ Restart

Next == \/ \E j \in Jobs : Messages(j) \/ Dispatches(j) \/ Externals(j) \/ Cancels(j)
        \/ \E t \in Turns : TurnEnds(t) \/ \E c \in Copies : Notifies(t, c)
        \/ \E s \in Sessions : SessionCommands(s)
        \/ Lifecycle

Spec == Init /\ [][Next]_vars

\* asyncio resumes every coroutine whose await is over; both child processes run
\* under a timeout.  That Codex ends its turns and that its notifies reach the
\* socket is assumed.  Nothing is assumed of the user.
Fairness ==
    /\ \A j \in Jobs : /\ WF_vars(MessageLocked(j) \/ FeedbackSent(j))
                       /\ WF_vars(Dispatches(j))
                       /\ WF_vars(Externals(j))
                       /\ WF_vars(CancelReturns(j))
    /\ \A t \in Turns : WF_vars(TurnEnds(t)) /\ \A c \in Copies : WF_vars(Notifies(t, c))

FairSpec == Spec /\ Fairness

-----------------------------------------------------------------------------
(* Properties that hold *)

\* A prompt is handed to a codex process at most once: no crash, restart, on_ready,
\* replayed message or repeated notify makes the service run a job again
\* (begin_job_dispatch commits DISPATCHED before the process is started).
SubmitOnce == \A j \in Jobs : sent[j] <= 1

\* A session never has two DISPATCHED jobs, however handle_message, completions,
\* auto-run and recovery interleave.
OneDispatched == \A s \in Sessions : \A i, j \in DispatchedJobs(db, s) : i = j

\* A run that failed or was interrupted pauses its queue, whichever of exit status,
\* timeout, /cancel, shutdown and recovery closes its job: from then on auto-run claims
\* nothing in that session until /auto on, which a broken session refuses.
FailurePausesQueue ==
    [][\A s \in Sessions :
          /\ (\E j \in DispatchedJobs(db, s) : db'.job[j] \in {"FAILED", "CANCELLED"})
                => ~db'.auto[s]
          /\ ~db.auto[s] /\ db'.auto[s] => db.status[s] \notin {"ERROR", "OFFLINE"}
          /\ (\E j \in background' \ background : Thread[j] = s) => db'.auto[s]]_vars

\* The mode a handler read when it claimed a job is still the session's mode for as
\* long as the job is DISPATCHED, so /cancel and recovery judge it by the right mode.
RunnerMatchesMode ==
    \A j \in Jobs : db.job[j] = "DISPATCHED" => via[j] = db.mode[Thread[j]]

\* While the service is up, a DISPATCHED job of a MANAGED session is one this process
\* has claimed itself: recovery has failed every job whose coroutine died.
NoOrphanedManagedJob ==
    phase = "up" => \A j \in Jobs :
        db.job[j] = "DISPATCHED" /\ db.mode[Thread[j]] = "MANAGED" => run[j] # "lost"

\* Two `codex exec resume` processes never run on the same thread, through
\* cancellation, shutdown, crash and restart.
OneManagedProcess ==
    \A i, j \in {k \in Jobs : via[k] = "MANAGED" /\ proc[k] = "alive"} :
        Thread[i] = Thread[j] => i = j

\* Of two events that race to close a job - notify, exit status, timeout, /cancel,
\* shutdown, recovery - the first one decides and the later ones change nothing.
FirstVerdictStands ==
    [][\A j \in Jobs : db.job[j] \in Terminal => db'.job[j] = db.job[j]]_vars

\* A job that was cancelled before it was claimed is never claimed afterwards, not
\* even by the handle_message that still waits for the lock to dispatch it.
CancelledInQueueStaysOut ==
    [][\A j \in Jobs : db.job[j] \in Terminal /\ run[j] = "none" => run'[j] = "none"]_vars

JQ == INSTANCE JobQueue WITH
        state <- [j \in Jobs |-> CASE db.job[j] = Absent       -> "absent"
                                   [] db.job[j] = "QUEUED"     -> "waiting"
                                   [] db.job[j] = "DISPATCHED" -> "active"
                                   [] db.job[j] \in Terminal   -> "ended"],
        given <- sent

\* The service implements the abstract queue: every step of a coroutine, a process
\* or a fault is a step of JobQueue or leaves it unchanged.
ImplementsJobQueue == JQ!Spec

\* With auto-run on, a waiting LIVE job is eventually claimed or cancelled unless
\* auto-run goes off (a failure, or the user).
AutoRunDrains ==
    \A j \in Jobs : (db.job[j] = "QUEUED" /\ db.auto[Thread[j]])
                       ~> (db.job[j] # "QUEUED" \/ ~db.auto[Thread[j]])

\* A claimed job is eventually closed.
DispatchedEnds == \A j \in Jobs : db.job[j] = "DISPATCHED" ~> db.job[j] \in Terminal

\* Nobody waits for a session lock forever.
LockServed ==
    /\ \A k \in Jobs : msg[k] = "lock" ~> msg[k] # "lock"
    /\ \A n \in Turns \X Copies : note[n] = "lock" ~> note[n] # "lock"

-----------------------------------------------------------------------------
(* The inductive invariant of the proofs *)

\* A job that has not been claimed has no coroutine.
Unclaimed == \A j \in Jobs : db.job[j] \in {Absent, "QUEUED"} => run[j] = "none"

\* A coroutine that has not started its process has given the prompt to nobody.
Unstarted ==
    \A j \in Jobs : run[j] \in {"none", "claimed"} => sent[j] = 0 /\ proc[j] = "none"

\* The runner tracks the process of every coroutine inside resume(), and a running
\* MANAGED process always has such a coroutine.
Tracked ==
    \A j \in Jobs :
        /\ run[j] = "resuming" => via[j] = "MANAGED" /\ active[Thread[j]] = j
        /\ via[j] = "MANAGED" /\ proc[j] = "alive" => run[j] = "resuming"

\* What the safety invariants rest on, through every interleaving, crash and restart.
IInv == /\ TypeOK
        /\ Unclaimed /\ Unstarted /\ Tracked
        /\ SubmitOnce /\ OneDispatched
        /\ RunnerMatchesMode /\ NoOrphanedManagedJob

-----------------------------------------------------------------------------
(* Statements of the documentation that the code does not keep *)

\* A job is COMPLETED only when the Codex turn that works on it has ended.
CompletedTurnEnded == \A j \in Jobs : db.job[j] = "COMPLETED" => turn[j] = "done"

\* A session is WAITING for the notify of a job it still has open.
WaitingHasJob ==
    \A s \in Sessions : db.status[s] = "WAITING" => DispatchedJobs(db, s) # {}

\* Auto-run gives every job it claims to Codex, unless codex cannot be started: it
\* runs a MANAGED queue as it runs a LIVE one.
AutoRunTriesJobs ==
    [][\A j \in background : run[j] = "claimed" /\ run'[j] = "done" => sent'[j] = 1]_vars

\* Auto-run is on in no session that is ERROR or OFFLINE: what breaks a session also
\* pauses its queue.
AutoRunHealthy == \A s \in Sessions : db.auto[s] => db.status[s] \notin {"ERROR", "OFFLINE"}

\* A message answered with "the database is busy, send it again" has left no job.
RefusedLeavesNoJob == \A k \in Jobs : msg[k] = "refused" => db.job[k] = Absent
=============================================================================
