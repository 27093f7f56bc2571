--------------------------- MODULE ManagedRunner ----------------------------
(***************************************************************************)
(* CodexManagedRunner step by step: resume, cancel and close around        *)
(* _active_lock, with the child processes they start and signal            *)
(* (src/codex_dispatch/managed_runner.py), and the order in which a stop   *)
(* of the service ends them (job_manager.py shutdown, main.py, the end of  *)
(* asyncio.run).                                                           *)
(*                                                                         *)
(* _active_lock is one lock for all threads.  It is held across one await, *)
(* the creation of a process; everything else under it is one stretch.     *)
(* Its waiters are served in order.  A call is one resume; it belongs to a *)
(* background task or to a foreground handler.  A canceller is one cancel: *)
(* a user's, or the one close() makes for a thread.                        *)
(***************************************************************************)
EXTENDS Naturals

CONSTANTS
    Threads,     \* Codex threads
    Calls,       \* resume calls
    Users,       \* cancel calls made by /cancel
    Background,  \* calls made by tasks of JobManager._background_tasks
    ThreadOf     \* the thread of each call and of each user's cancel

NoCall == "none"

ASSUME RunnerAssumption ==
    /\ Background \subseteq Calls
    /\ ThreadOf \in [Calls \cup Users -> Threads]
    /\ Users \cap Threads = {} /\ Users \cap Calls = {} /\ NoCall \notin Calls

Cancellers == Users \cup Threads
T(x) == IF x \in Threads THEN x ELSE ThreadOf[x]

VARIABLES
    active,   \* _active: the call whose process a thread has
    mark,     \* _cancel_requested
    holder,   \* the call that holds _active_lock while its process is created
    queue,    \* the tasks that wait for _active_lock, and those ahead of each
    call,     \* where resume stands
    out,      \* how it ended, or the exception it will end with
    proc,     \* the child process
    signal,   \* the strongest signal it was sent
    cancel,   \* where cancel stands
    chosen,   \* the call whose process it terminates
    phase     \* the service

lock == <<holder, queue>>
table == <<active, mark>>
process == <<proc, signal>>
runnerVars == <<active, mark, holder, queue, call, out, proc, signal, cancel, chosen, phase>>

\* "killing", "terminating": signalled, waits for the exit; "draining": reads the
\* rest of the output; "unwinding": an exception is about to reach finally;
\* "final": waits for the lock there.
CallState == {"none", "lock", "spawning", "running", "killing", "draining",
              "terminating", "unwinding", "final", "ended"}
Exception == {"already", "nospawn", "timeout", "broken", "interrupted"}
Out == {"none", "exit", "cancelled"} \cup Exception
CancelState == {"none", "asked", "lock", "waiting", "killing", "true", "false", "lost"}
\* "stopping": shutdown() gathers its tasks; "closing": runner.close(); "exiting":
\* asyncio.run cancels what is left.
Phase == {"up", "stopping", "closing", "closed", "exiting", "gone"}

LockTasks == {<<"resume", r>> : r \in Calls} \cup {<<"final", r>> : r \in Calls}
             \cup {<<"cancel", x>> : x \in Cancellers}

Waiting == DOMAIN queue

TypeOK == /\ active \in [Threads -> Calls \cup {NoCall}]
          /\ mark \subseteq Threads
          /\ holder \in Calls \cup {NoCall}
          /\ Waiting \subseteq LockTasks /\ queue \in [Waiting -> SUBSET LockTasks]
          /\ call \in [Calls -> CallState]
          /\ out \in [Calls -> Out]
          /\ proc \in [Calls -> {"none", "alive", "exited"}]
          /\ signal \in [Calls -> {"none", "term", "kill"}]
          /\ cancel \in [Cancellers -> CancelState]
          /\ chosen \in [Cancellers -> Calls \cup {NoCall}]
          /\ phase \in Phase

RunnerInit ==
    /\ active = [t \in Threads |-> NoCall]
    /\ mark = {}
    /\ holder = NoCall /\ queue = [w \in {} |-> {}]
    /\ call = [r \in Calls |-> "none"]
    /\ out = [r \in Calls |-> "none"]
    /\ proc = [r \in Calls |-> "none"]
    /\ signal = [r \in Calls |-> "none"]
    /\ cancel = [x \in Cancellers |-> "none"]
    /\ chosen = [x \in Cancellers |-> NoCall]
    /\ phase = "up"

LockFree == holder = NoCall /\ Waiting = {}
Wait(task) == queue' = [w \in Waiting \cup {task} |-> IF w = task THEN Waiting ELSE queue[w]]
Leave(tasks) == queue' = [w \in Waiting \ tasks |-> queue[w] \ tasks]

\* mutant: the lock goes to the task that came last
IsLast(task) == /\ holder = NoCall /\ task \in Waiting
                /\ \A w \in Waiting : task \notin queue[w]

IsNext(task) == holder = NoCall /\ task \in Waiting /\ queue[task] = {}
Woken(task) == IsNext(task) /\ Leave({task})
Goto(r, pc) == call' = [call EXCEPT ![r] = pc]
Ends(r, o) == call' = [call EXCEPT ![r] = "ended"] /\ out' = [out EXCEPT ![r] = o]

-----------------------------------------------------------------------------
(* resume.                                                                  *)

ThreadFree(t) == active[t] = NoCall

\* Under the lock: one process per thread.
ResumeSection(r) ==
    /\ UNCHANGED <<active, process, cancel, chosen, phase>>
    /\ \/ ~ThreadFree(T(r)) /\ Ends(r, "already") /\ UNCHANGED <<mark, holder>>
       \/ /\ ThreadFree(T(r))
          /\ mark' = mark \ {T(r)} /\ holder' = r /\ Goto(r, "spawning")
          /\ UNCHANGED out

StartResume(r) ==
    /\ phase = "up" /\ call[r] = "none"
    /\ \/ LockFree /\ ResumeSection(r) /\ UNCHANGED queue
       \/ /\ ~LockFree /\ Goto(r, "lock") /\ Wait(<<"resume", r>>)
          /\ UNCHANGED <<table, holder, out, process, cancel, chosen, phase>>

EnterResume(r) == Woken(<<"resume", r>>) /\ ResumeSection(r)

\* The process exists and is tracked; the prompt goes to its stdin.
Spawned(r) == /\ call[r] = "spawning" /\ holder' = NoCall
              /\ proc' = [proc EXCEPT ![r] = "alive"]
              /\ active' = [active EXCEPT ![T(r)] = r]
              /\ Goto(r, "running")
              /\ UNCHANGED <<mark, queue, out, signal, cancel, chosen, phase>>

SpawnFails(r) == /\ call[r] = "spawning" /\ holder' = NoCall
                 /\ Ends(r, "nospawn")
                 /\ UNCHANGED <<table, queue, process, cancel, chosen, phase>>

\* mutant: terminate is never followed by kill
SignalSoftly(r, s) == IF proc[r] = "alive" /\ signal[r] = "none"
                      THEN [signal EXCEPT ![r] = "term"] ELSE signal

\* A signal to a process that has exited does nothing.
SignalTo(r, s) == IF proc[r] = "alive" /\ signal[r] # "kill"
                  THEN [signal EXCEPT ![r] = s] ELSE signal

\* Kill, and wait for the exit.
KillFor(r, o) == /\ call[r] = "running"
                 /\ signal' = SignalTo(r, "kill")
                 /\ call' = [call EXCEPT ![r] = "killing"]
                 /\ out' = [out EXCEPT ![r] = o]
                 /\ UNCHANGED <<table, lock, proc, cancel, chosen, phase>>

\* The process closes stdin before it has taken the prompt.
StdinBroken(r) == KillFor(r, "broken")

\* The five seconds after terminate are over.
KillsInterrupted(r) ==
    /\ call[r] = "terminating" /\ proc[r] = "alive" /\ signal[r] = "term"
    /\ signal' = SignalTo(r, "kill")
    /\ UNCHANGED <<table, lock, call, out, proc, cancel, chosen, phase>>

\* A timeout fires: of the whole execution, or of the wait after terminate.
Alarm(r) == KillFor(r, "timeout") \/ KillsInterrupted(r)

\* process.wait returns: read the rest of the output, or unwind the exception.
Reaped(r) == /\ call[r] \in {"running", "killing", "terminating"} /\ proc[r] = "exited"
             /\ Goto(r, IF call[r] = "running" THEN "draining" ELSE "unwinding")
             /\ UNCHANGED <<table, lock, out, process, cancel, chosen, phase>>

\* Under the lock: the process is not tracked any more and its mark is used up.
Untrack(r) == /\ active' = [active EXCEPT ![T(r)] = NoCall]
              /\ mark' = mark \ {T(r)}

\* mutant: the exit status is reported whoever caused it
ExitVerdict(r) == IF out[r] \in Exception THEN out[r] ELSE "exit"

\* An exception wins over the mark, the mark over the exit status.
Verdict(r) == IF out[r] \in Exception THEN out[r]
              ELSE IF T(r) \in mark THEN "cancelled" ELSE "exit"

FinalSection(r) == /\ Untrack(r) /\ Ends(r, Verdict(r))
                   /\ UNCHANGED <<holder, process, cancel, chosen, phase>>

\* finally: both readers have come to the end, or are cancelled.
Finally(r) ==
    /\ call[r] \in {"draining", "unwinding"}
    /\ \/ LockFree /\ FinalSection(r) /\ UNCHANGED queue
       \/ /\ ~LockFree /\ Goto(r, "final") /\ Wait(<<"final", r>>)
          /\ UNCHANGED <<table, holder, out, process, cancel, chosen, phase>>

EnterFinally(r) == Woken(<<"final", r>>) /\ FinalSection(r)

\* external: the process exits, by itself or because of a signal.
Exits(r) == /\ proc[r] = "alive" /\ proc' = [proc EXCEPT ![r] = "exited"]
            /\ UNCHANGED <<table, lock, call, out, signal, cancel, chosen, phase>>

-----------------------------------------------------------------------------
(* cancel and close.                                                        *)

Answer(x, a) == cancel' = [cancel EXCEPT ![x] = a]

CancelSection(x) ==
    LET r == active[T(x)] IN
    /\ UNCHANGED <<active, holder, call, out, proc, phase>>
    /\ \/ r = NoCall /\ Answer(x, "false") /\ UNCHANGED <<mark, chosen, signal>>
       \/ /\ r # NoCall
          /\ mark' = mark \cup {T(x)}
          /\ chosen' = [chosen EXCEPT ![x] = r]
          /\ signal' = SignalTo(r, "term")
          /\ Answer(x, "waiting")

StartCancel(x) ==
    /\ \/ x \in Users /\ phase = "up" /\ cancel[x] = "none"
       \/ cancel[x] = "asked"
    /\ \/ LockFree /\ CancelSection(x) /\ UNCHANGED queue
       \/ /\ ~LockFree /\ Answer(x, "lock") /\ Wait(<<"cancel", x>>)
          /\ UNCHANGED <<table, holder, call, out, process, chosen, phase>>

EnterCancel(x) == Woken(<<"cancel", x>>) /\ CancelSection(x)

\* The five seconds after terminate are over.
CancelKills(x) == /\ cancel[x] = "waiting" /\ proc[chosen[x]] = "alive"
                  /\ signal' = SignalTo(chosen[x], "kill")
                  /\ Answer(x, "killing")
                  /\ UNCHANGED <<table, lock, call, out, proc, chosen, phase>>

HasExited(x) == proc[chosen[x]] = "exited"

CancelReturns(x) == /\ cancel[x] \in {"waiting", "killing"} /\ HasExited(x)
                    /\ Answer(x, "true")
                    /\ UNCHANGED <<table, lock, call, out, process, chosen, phase>>

-----------------------------------------------------------------------------
(* A stop of the service.                                                   *)

\* task.cancel() of the coroutines that run the calls in R.  While a process is
\* being created asyncio kills it; a coroutine waiting in finally gives up there.  One
\* that waits for the lock leaves the queue.
Interrupt(R) ==
    LET hit == {r \in R : call[r] \in {"lock", "spawning", "final"}}
        wait == {r \in R : call[r] \in {"running", "killing"} /\ proc[r] = "alive"}
        through == {r \in R : \/ call[r] = "draining"
                              \/ call[r] \in {"running", "killing"} /\ proc[r] = "exited"}
    IN /\ call' = [r \in Calls |-> IF r \in hit THEN "ended"
                                   ELSE IF r \in wait THEN "terminating"
                                   ELSE IF r \in through THEN "unwinding" ELSE call[r]]
       /\ out' = [r \in Calls |-> IF r \in hit \cup wait \cup through
                                  THEN "interrupted" ELSE out[r]]
       /\ signal' = [r \in Calls |-> IF r \in wait /\ signal[r] = "none"
                                     THEN "term" ELSE signal[r]]
       /\ holder' = IF holder \in R THEN NoCall ELSE holder
       /\ UNCHANGED <<table, proc>>

Ended(R) == \A r \in R : call[r] \in {"none", "ended"}
CancelEnded == {"none", "true", "false", "lost"}

\* shutdown() cancels and gathers its background tasks.
BeginStop == /\ phase = "up" /\ phase' = "stopping"
             /\ Interrupt(Background)
             /\ Leave({"resume", "final"} \X Background)
             /\ UNCHANGED <<cancel, chosen>>

\* close() looks at the table and cancels every thread it finds there.
Close == /\ phase = "stopping" /\ Ended(Background)
         /\ phase' = "closing"
         /\ cancel' = [x \in Cancellers |-> IF x \in Threads /\ active[x] # NoCall
                                            THEN "asked" ELSE cancel[x]]
         /\ UNCHANGED <<table, lock, call, out, process, chosen>>

Closed == /\ phase = "closing" /\ \A t \in Threads : cancel[t] \in CancelEnded
          /\ phase' = "closed"
          /\ UNCHANGED <<table, lock, call, out, process, cancel, chosen>>

\* run_service has returned; asyncio.run cancels the tasks that are left.
BeginExit == /\ phase = "closed" /\ phase' = "exiting"
             /\ Interrupt(Calls) /\ Leave(Waiting)
             /\ cancel' = [x \in Cancellers |-> IF cancel[x] \in CancelEnded
                                                THEN cancel[x] ELSE "lost"]
             /\ UNCHANGED chosen

\* mutant: nobody waits for the tasks it has cancelled
MayLeave == TRUE

AllReturned == Ended(Calls)

Gone == /\ phase = "exiting" /\ AllReturned
        /\ phase' = "gone"
        /\ UNCHANGED <<table, lock, call, out, process, cancel, chosen>>

-----------------------------------------------------------------------------
CallStep(r) == \/ EnterResume(r) \/ Spawned(r) \/ SpawnFails(r)
               \/ Reaped(r) \/ Finally(r) \/ EnterFinally(r)
CancelStep(x) == EnterCancel(x) \/ CancelKills(x) \/ CancelReturns(x)
StopStep    == Close \/ Closed \/ BeginExit \/ Gone

\* Tasks run when they are ready, every timeout fires in the end, and a process
\* that was sent SIGKILL exits.  Nothing else is assumed of a process: it may run
\* for ever and ignore SIGTERM.  Its output ends when it exits: nobody it has
\* started keeps its pipes open.
Fair == /\ \A r \in Calls : /\ WF_runnerVars(CallStep(r)) /\ WF_runnerVars(Alarm(r))
                            /\ WF_runnerVars(signal[r] = "kill" /\ Exits(r))
        /\ \A x \in Cancellers : /\ WF_runnerVars(CancelStep(x))
                                 /\ WF_runnerVars(cancel[x] = "asked" /\ StartCancel(x))
        /\ WF_runnerVars(StopStep)

-----------------------------------------------------------------------------
(* Properties.                                                              *)

\* A cancellation reaches every process there is and is for the one it was asked for:
\* the table names every live process, the call that reports a cancellation is one a
\* canceller has chosen, a call that was chosen never reports success, and cancel
\* answers True only after the exit of the process it has terminated.
CancelHitsItsProcess ==
    /\ \A r \in Calls : proc[r] = "alive" => active[T(r)] = r
    /\ \A r \in Calls : out[r] = "cancelled" => \E x \in Cancellers : chosen[x] = r
    /\ \A x \in Cancellers :
          /\ chosen[x] # NoCall => out[chosen[x]] # "exit"
          /\ cancel[x] = "true" => proc[chosen[x]] = "exited"

\* A graceful stop leaves no process, whatever was starting, running or ignoring
\* SIGTERM when it began.
NothingOutlivesTheService == phase = "gone" => \A r \in Calls : proc[r] # "alive"

\* Each resume ends, with a process that never exits by itself, each cancel is
\* answered, and a stop that has begun ends.
CallsEnd ==
    /\ \A r \in Calls : call[r] # "none" ~> call[r] = "ended"
    /\ \A x \in Cancellers : cancel[x] # "none" ~> cancel[x] \in CancelEnded
    /\ phase = "stopping" ~> phase = "gone"

=============================================================================
