------------------------------ MODULE Database ------------------------------
(***************************************************************************)
(* The SQLite store as JobManager uses it (src/codex_dispatch/database.py).*)
(* Every method is one synchronous BEGIN IMMEDIATE transaction, so it is an *)
(* operator from the database before it to the database after it: a        *)
(* handler that calls two methods composes two operators, and a crash may  *)
(* keep the first and lose the second.  A method that raises leaves the    *)
(* database as it was; where the caller only logs, the operator returns d. *)
(*                                                                         *)
(* Timestamps, error texts, exit codes and the prompt are left out.        *)
(*                                                                         *)
(* An operator marked "mutant" is not part of the model: it is the next    *)
(* operator with a plausible bug, kept to see that a property notices.     *)
(***************************************************************************)
EXTENDS Deployment

SessionStatus == {"IDLE", "RUNNING", "WAITING", "OFFLINE", "ERROR"}
Terminal      == {"COMPLETED", "FAILED", "CANCELLED"}
JobStatus     == {"QUEUED", "DISPATCHED"} \cup Terminal
Absent        == "ABSENT"                      \* the row does not exist yet

Db == [job    : [Jobs -> JobStatus \cup {Absent}],
       mode   : [Sessions -> Mode],
       status : [Sessions -> SessionStatus],
       auto   : [Sessions -> BOOLEAN],
       events : SUBSET Turns]

\* A database in which every session has been registered and nothing is queued.
FreshDb(modes) == [job    |-> [j \in Jobs |-> Absent],
                   mode   |-> modes,
                   status |-> [s \in Sessions |-> "IDLE"],
                   auto   |-> [s \in Sessions |-> FALSE],
                   events |-> {}]

-----------------------------------------------------------------------------
(* Queries *)

JobsIn(d, s, st) == {j \in Jobs : Thread[j] = s /\ d.job[j] = st}

DispatchedJobs(d, s) == JobsIn(d, s, "DISPATCHED")
QueuedJobs(d, s)     == JobsIn(d, s, "QUEUED")

\* mutant: ORDER BY id DESC
IsNewest(S, j) == j \in S /\ \A k \in S : k <= j

\* ORDER BY id LIMIT 1
IsOldest(S, j) == j \in S /\ \A k \in S : j <= k

\* Ids are given out in order: k is the id the next INSERT gets.
IsNextId(d, k) == d.job[k] = Absent /\ \A i \in 1..(k - 1) : d.job[i] # Absent

SessionBusy(d, s) == DispatchedJobs(d, s) # {} \/ d.status[s] \in {"RUNNING", "WAITING"}

-----------------------------------------------------------------------------
(* Jobs *)

\* mutant: INSERT OR REPLACE
CreateJobReplacing(d, k) == [d EXCEPT !.job[k] = "QUEUED"]

\* jobs.discord_message_id is UNIQUE: a replayed message finds its job.
CreateJob(d, k) == IF d.job[k] = Absent THEN [d EXCEPT !.job[k] = "QUEUED"] ELSE d

\* mutant: the job's own status is not read again
CanBeginDispatchUnread(d, j) == DispatchedJobs(d, Thread[j]) = {}

CanBeginDispatch(d, j) == d.job[j] = "QUEUED" /\ DispatchedJobs(d, Thread[j]) = {}

BeginJobDispatch(d, j) ==
    [d EXCEPT !.job[j] = "DISPATCHED", !.status[Thread[j]] = "RUNNING"]

\* mutant: auto-run stays on
MarkJobFailedKeepsAuto(d, j, st) ==
    IF d.job[j] \in {"QUEUED", "DISPATCHED"}
    THEN [d EXCEPT !.job[j] = "FAILED", !.status[Thread[j]] = st]
    ELSE d

\* mutant: a job that is closed already is failed too
MarkJobFailedAnyway(d, j, st) ==
    [d EXCEPT !.job[j] = "FAILED", !.status[Thread[j]] = st, !.auto[Thread[j]] = FALSE]

\* COMPLETED is kept, FAILED and CANCELLED raise.
MarkJobFailed(d, j, st) ==
    IF d.job[j] \in {"QUEUED", "DISPATCHED"}
    THEN [d EXCEPT !.job[j] = "FAILED",
                   !.status[Thread[j]] = st,
                   !.auto[Thread[j]] = FALSE]
    ELSE d

\* mutant: believes the session status, which the notify has set to IDLE by now
CompleteRunningJob(d, s) ==
    [d EXCEPT !.job = [j \in Jobs |-> IF d.status[s] = "RUNNING" /\ IsOldest(DispatchedJobs(d, s), j)
                                    THEN "COMPLETED" ELSE d.job[j]]]

\* The one DISPATCHED job of the session, whichever it is; the session row is
\* not written (register_notify has made it IDLE before).
CompleteDispatchedJob(d, s) ==
    [d EXCEPT !.job = [j \in Jobs |-> IF IsOldest(DispatchedJobs(d, s), j)
                                    THEN "COMPLETED" ELSE d.job[j]]]

CancelQueuedJob(d, j) ==
    IF d.job[j] = "QUEUED" THEN [d EXCEPT !.job[j] = "CANCELLED"] ELSE d

CancelDispatchedJob(d, j) ==
    IF d.job[j] = "DISPATCHED"
    THEN [d EXCEPT !.job[j] = "CANCELLED",
                   !.status[Thread[j]] = "IDLE",
                   !.auto[Thread[j]] = FALSE]
    ELSE d

\* mutant: takes waiting jobs for jobs whose process died
FailOpenJobs(d, J) ==
    [d EXCEPT !.job = [j \in Jobs |-> IF j \in J /\ d.job[j] \in {"QUEUED", "DISPATCHED"}
                                    THEN "FAILED" ELSE d.job[j]]]

\* mark_job_failed, with session status ERROR, for every job of J still DISPATCHED.
FailJobs(d, J) ==
    LET hit(s) == DispatchedJobs(d, s) \cap J # {} IN
    [d EXCEPT !.job    = [j \in Jobs |-> IF j \in J /\ d.job[j] = "DISPATCHED"
                                        THEN "FAILED" ELSE d.job[j]],
              !.status = [s \in Sessions |-> IF hit(s) THEN "ERROR" ELSE d.status[s]],
              !.auto   = [s \in Sessions |-> d.auto[s] /\ ~hit(s)]]

\* mutant: an interrupted job waits to be run again
RecoverByRequeue(d) ==
    [d EXCEPT !.job = [j \in Jobs |-> IF d.job[j] = "DISPATCHED" THEN "QUEUED" ELSE d.job[j]],
              !.status = [s \in Sessions |-> "IDLE"]]

\* mutant: MANAGED jobs are kept like LIVE ones
RecoverStatusOnly(d) ==
    [d EXCEPT !.status = [s \in Sessions |-> IF DispatchedJobs(d, s) # {}
                                            THEN "RUNNING" ELSE d.status[s]]]

\* The process of a MANAGED job is gone; a LIVE job stays DISPATCHED, for the TUI
\* may still be working on it.
RecoverJobSessionState(d) ==
    LET e == FailJobs(d, {j \in Jobs : d.mode[Thread[j]] = "MANAGED"}) IN
    [e EXCEPT !.status = [s \in Sessions |-> IF DispatchedJobs(e, s) # {}
                                            THEN "RUNNING" ELSE e.status[s]]]

-----------------------------------------------------------------------------
(* Sessions *)

SetSessionStatus(d, s, st) == [d EXCEPT !.status[s] = st]
SetSessionAutoRun(d, s, b) == [d EXCEPT !.auto[s] = b]

CanSetMode(d, s) ==
    d.status[s] \notin {"RUNNING", "WAITING"} /\ DispatchedJobs(d, s) \cup QueuedJobs(d, s) = {}

SetSessionMode(d, s, m) == [d EXCEPT !.mode[s] = m, !.status[s] = "IDLE"]

\* mutant: only the event is stored
RegisterNotifyKeepsStatus(d, t) == [d EXCEPT !.events = @ \cup {t}]

\* The session row is updated for a repeated event too; only the notify_events
\* row is INSERT OR IGNORE.
RegisterNotify(d, t) ==
    [d EXCEPT !.status[Thread[t]] = "IDLE", !.events = @ \cup {t}]
=============================================================================
