--------------------------- MODULE ManagedCancel ----------------------------
(***************************************************************************)
(* /cancel of MANAGED jobs: ManagedRunner composed with the job rows.      *)
(* Call j of the runner carries out job j (src/codex_dispatch/job_manager. *)
(* py _dispatch_managed, cancel_text, handle_completion).                  *)
(*                                                                         *)
(* The notify of a turn comes while its process still runs, and lets the   *)
(* next job of the session be claimed; the task of that job starts later.  *)
(* /cancel takes no session lock: it reads the row of a job and asks the   *)
(* runner to cancel the process of its thread.  JobManager.shutdown closes *)
(* the runner and then fails what is still open.  Crashes are left to      *)
(* JobManager.                                                             *)
(***************************************************************************)
EXTENDS ManagedRunner

VARIABLES
    job,    \* jobs.status
    asked   \* the job a user's /cancel is about

vars == <<runnerVars, job, asked>>

JobStatus == {"QUEUED", "DISPATCHED", "COMPLETED", "FAILED", "CANCELLED"}

CancelTypeOK == /\ TypeOK
                /\ job \in [Calls -> JobStatus]
                /\ asked \in [Users -> Calls \cup {NoCall}]

Init == /\ RunnerInit
        /\ job = [j \in Calls |-> "QUEUED"]
        /\ asked = [u \in Users |-> NoCall]

\* A waiting job of a session without a dispatched one is claimed; its task is
\* created and has not run yet.
Claim(j) == /\ job[j] = "QUEUED"
            /\ phase = "up" /\ \A k \in Calls : T(k) = T(j) => job[k] # "DISPATCHED"
            /\ job' = [job EXCEPT ![j] = "DISPATCHED"]
            /\ UNCHANGED <<runnerVars, asked>>

\* The notify of the turn of job j, whose process may still be there, completes it.
Notified(j) == /\ phase \in {"up", "stopping", "closing"}
               /\ job[j] = "DISPATCHED" /\ proc[j] # "none"
               /\ job' = [job EXCEPT ![j] = "COMPLETED"]
               /\ UNCHANGED <<runnerVars, asked>>

IsOpen(j) == job[j] = "DISPATCHED"

\* mutant: the way the call ended is written as it is
VerdictsAsReported(j, o) == IF IsOpen(j) THEN {o} ELSE {job[j]}

\* What _dispatch_managed makes of the row at the end of the call, in the same
\* stretch.  An exit with status 0 leaves the job to its notify, a task that was cancelled
\* itself leaves it to shutdown.
Verdicts(j, o) == CASE ~IsOpen(j) -> {job[j]}
                    [] IsOpen(j) /\ o = "exit" -> {"DISPATCHED", "FAILED"}
                    [] IsOpen(j) /\ o = "cancelled" /\ phase = "up" -> {"CANCELLED"}
                    [] IsOpen(j) /\ o = "interrupted" -> {"DISPATCHED"}
                    [] OTHER -> {"FAILED"}

\* A step of the runner for job j, and what the end of its call does to the row.
Runs(j) == /\ \/ job[j] # "QUEUED" /\ StartResume(j)
              \/ CallStep(j) \/ StdinBroken(j) \/ Alarm(j) \/ Exits(j)
           /\ IF call[j] # "ended" /\ call'[j] = "ended"
              THEN \E v \in Verdicts(j, out'[j]) : job' = [job EXCEPT ![j] = v]
              ELSE UNCHANGED job
           /\ UNCHANGED asked

\* /cancel of a dispatched job of a MANAGED session.
AskCancel(u) == \E j \in Calls :
    /\ T(j) = T(u) /\ IsOpen(j)
    /\ asked' = [asked EXCEPT ![u] = j]
    /\ StartCancel(u)
    /\ UNCHANGED job

\* runner.cancel answers: True cancels the row if it is still dispatched.
CancelRuns(u) ==
    /\ CancelStep(u)
    /\ job' = IF cancel[u] # "true" /\ cancel'[u] = "true" /\ IsOpen(asked[u])
              THEN [job EXCEPT ![asked[u]] = "CANCELLED"] ELSE job
    /\ UNCHANGED asked

\* shutdown: when the runner is closed, the jobs that were dispatched and still are
\* become FAILED.  No job is claimed after shutdown has begun.
Stops ==
    /\ \/ /\ \/ BeginStop \/ Close \/ BeginExit \/ Gone
             \/ \E t \in Threads : StartCancel(t) \/ CancelStep(t)
          /\ UNCHANGED job
       \/ Closed /\ job' = [j \in Calls |-> IF IsOpen(j) THEN "FAILED" ELSE job[j]]
    /\ UNCHANGED asked

Next == \/ \E j \in Calls : Claim(j) \/ Notified(j) \/ Runs(j)
        \/ \E u \in Users : AskCancel(u) \/ CancelRuns(u)
        \/ Stops
        \/ phase = "gone" /\ UNCHANGED vars

CancelSpec == Init /\ [][Next]_vars /\ Fair

-----------------------------------------------------------------------------
(* Properties.                                                              *)

\* /cancel works on the thread, so it may meet the process of another job than the
\* one it is about: that job is always closed already.
CancelSparesOpenJobs == \A u \in Users :
    chosen[u] \in Calls \ {asked[u]} => ~IsOpen(chosen[u])

\* cancel_dispatched_job: "Mark one active managed job cancelled after its process
\* has stopped" (database.py:1015).  (Does not hold: README, 6.)
CancelledJobHasStopped == \A j \in Calls : job[j] = "CANCELLED" => proc[j] # "alive"
=============================================================================
