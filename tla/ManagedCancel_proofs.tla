------------------------- MODULE ManagedCancel_proofs ------------------------
(***************************************************************************)
(* The managed runner and /cancel, for every set of threads, calls and     *)
(* users: a cancellation meets the process it is for and spares the jobs   *)
(* it is not about, and a graceful stop leaves no process.                 *)
(*                                                                         *)
(* The proof has two layers.  RunnerInv is about the runner alone, its     *)
(* lock, its table and its processes; every step of it preserves it,       *)
(* whatever the jobs are.  JobInv relates the jobs to it.                  *)
(***************************************************************************)
EXTENDS ManagedCancel, TLAPS

\* A call whose process may live, and one that the table must name.
Live == {"running", "killing", "terminating"}
Tracked == Live \cup {"draining", "unwinding", "final"}

\* A call: it holds the lock while it spawns, waits where it says, is in the table
\* from the start of its process to its end, and has its verdict only then.
CallOK(r) ==
    /\ call[r] = "spawning" <=> holder = r
    /\ <<"resume", r>> \in Waiting => call[r] = "lock"
    /\ <<"final", r>> \in Waiting => call[r] = "final"
    /\ proc[r] = "alive" => call[r] \in Live
    /\ call[r] \in Tracked => active[T(r)] = r
    /\ call[r] = "spawning" => active[T(r)] = NoCall
    /\ call[r] # "ended" => out[r] \notin {"exit", "cancelled"}
    /\ out[r] = "cancelled" => \E x \in Cancellers : chosen[x] = r

\* An entry of the table: it is left behind only by a call that was interrupted while
\* it waited to remove it.  A mark is of a canceller that has chosen the entry.
ThreadOK(t) ==
    /\ active[t] # NoCall => /\ T(active[t]) = t
                             /\ \/ call[active[t]] \in Tracked
                                \/ call[active[t]] = "ended" /\ out[active[t]] = "interrupted"
    /\ t \in mark => active[t] # NoCall /\ \E x \in Cancellers : chosen[x] = active[t]

\* A canceller: the call it has chosen keeps its mark until it ends.
CancelOK(x) ==
    /\ <<"cancel", x>> \in Waiting <=> cancel[x] = "lock"
    /\ cancel[x] \in {"none", "asked", "lock", "false"} => chosen[x] = NoCall
    /\ cancel[x] \in {"waiting", "killing", "true"} => chosen[x] # NoCall
    /\ cancel[x] = "true" => proc[chosen[x]] = "exited"
    /\ chosen[x] # NoCall =>
          /\ T(chosen[x]) = T(x)
          /\ out[chosen[x]] # "exit"
          /\ \/ call[chosen[x]] = "ended"
             \/ /\ call[chosen[x]] \in Tracked
                /\ active[T(x)] = chosen[x] /\ T(x) \in mark

\* close() cancels each thread once, and everything has ended when the service is gone.
PhaseOK ==
    /\ phase \in {"up", "stopping"} => \A t \in Threads : cancel[t] = "none"
    /\ phase = "gone" => \A r \in Calls : call[r] \in {"none", "ended"}

RunnerInv == /\ TypeOK
             /\ \A r \in Calls : CallOK(r)
             /\ \A t \in Threads : ThreadOK(t)
             /\ \A x \in Cancellers : CancelOK(x)
             /\ PhaseOK

-----------------------------------------------------------------------------
LEMMA Threads_T == \A x \in Calls \cup Cancellers : T(x) \in Threads
  BY RunnerAssumption DEF T, Cancellers

LEMMA RunnerInitInv == RunnerInit => RunnerInv
  <1> SUFFICES ASSUME RunnerInit PROVE RunnerInv
    OBVIOUS
  <1> USE DEF RunnerInit
  <1>1. TypeOK
    BY DEF TypeOK, Waiting, CallState, Out, CancelState, Phase, LockTasks
  <1>2. \A r \in Calls : CallOK(r)
    BY RunnerAssumption DEF CallOK, Waiting, Live, Tracked
  <1>3. \A t \in Threads : ThreadOK(t)
    BY DEF ThreadOK
  <1>4. \A x \in Cancellers : CancelOK(x)
    BY DEF CancelOK, Waiting
  <1>5. PhaseOK
    BY DEF PhaseOK, Cancellers
  <1> QED BY <1>1, <1>2, <1>3, <1>4, <1>5 DEF RunnerInv

-----------------------------------------------------------------------------
(* The lock.                                                                *)

LEMMA WaitFacts ==
  ASSUME TypeOK, NEW task \in LockTasks, Wait(task)
  PROVE  /\ Waiting' = Waiting \cup {task} /\ Waiting' \subseteq LockTasks
         /\ queue' \in [Waiting' -> SUBSET LockTasks]
         /\ queue'[task] = Waiting
         /\ \A w \in Waiting \ {task} : queue'[w] = queue[w]
  BY DEF TypeOK, Wait, Waiting

LEMMA LeaveFacts ==
  ASSUME TypeOK, NEW tasks, Leave(tasks)
  PROVE  /\ Waiting' = Waiting \ tasks /\ Waiting' \subseteq LockTasks
         /\ queue' \in [Waiting' -> SUBSET LockTasks]
         /\ \A w \in Waiting' : queue'[w] = queue[w] \ tasks
  BY DEF TypeOK, Leave, Waiting

LEMMA SignalFacts ==
  ASSUME TypeOK, NEW r \in Calls, NEW s \in {"term", "kill"}
  PROVE  SignalTo(r, s) \in [Calls -> {"none", "term", "kill"}]
  BY DEF TypeOK, SignalTo

-----------------------------------------------------------------------------
(* The steps of one call.                                                   *)

\* A call moves inside the table: nobody else notices.
LEMMA MoveInv ==
  ASSUME RunnerInv, NEW r \in Calls, NEW pc \in Tracked, NEW o \in Out \ {"exit", "cancelled"},
         call[r] \in Tracked, call[r] # "final", pc # "final",
         call' = [call EXCEPT ![r] = pc], out' = [out EXCEPT ![r] = o],
         proc' = proc, signal' \in [Calls -> {"none", "term", "kill"}],
         proc[r] = "alive" => pc \in Live,
         UNCHANGED <<table, lock, cancel, chosen, phase>>
  PROVE  RunnerInv'
  <1> USE DEF RunnerInv, TypeOK, table, lock, Waiting
  <1>1. TypeOK'
    BY DEF Tracked, Live, CallState
  <1>2. \A k \in Calls : CallOK(k)'
    BY DEF CallOK, Tracked, Live
  <1>3. ASSUME NEW t \in Threads PROVE ThreadOK(t)'
    <2>1. ThreadOK(t) /\ active[t] \in Calls \cup {NoCall}
      OBVIOUS
    <2>2. CASE active[t] = r
      BY <2>1, <2>2 DEF ThreadOK, Tracked, Live
    <2>3. CASE active[t] # r
      BY <2>1, <2>3 DEF ThreadOK
    <2> QED BY <2>2, <2>3
  <1>4. ASSUME NEW x \in Cancellers PROVE CancelOK(x)'
    <2>1. CancelOK(x) /\ chosen[x] \in Calls \cup {NoCall}
      OBVIOUS
    <2>2. CASE chosen[x] = r
      BY <2>1, <2>2 DEF CancelOK, Tracked, Live
    <2>3. CASE chosen[x] # r
      BY <2>1, <2>3 DEF CancelOK
    <2> QED BY <2>2, <2>3
  <1>5. PhaseOK'
    BY DEF PhaseOK, Tracked, Live
  <1> QED BY <1>1, <1>2, <1>3, <1>4, <1>5

LEMMA KillInv ==
  ASSUME RunnerInv, NEW r \in Calls, NEW o \in {"broken", "timeout"}, KillFor(r, o)
  PROVE  RunnerInv'
  <1>1. call[r] = "running" /\ signal' \in [Calls -> {"none", "term", "kill"}]
    BY SignalFacts DEF KillFor, RunnerInv
  <1>2. o \in Out \ {"exit", "cancelled"} /\ "killing" \in Tracked /\ "killing" \in Live
    BY DEF Out, Exception, Tracked, Live
  <1> QED BY <1>1, <1>2, MoveInv DEF KillFor, process, Tracked, Live

LEMMA KillsInterruptedInv ==
  ASSUME RunnerInv, NEW r \in Calls, KillsInterrupted(r)
  PROVE  RunnerInv'
  <1>1. signal' \in [Calls -> {"none", "term", "kill"}]
    BY SignalFacts DEF KillsInterrupted, RunnerInv
  <1>2. UNCHANGED <<table, lock, call, out, proc, cancel, chosen, phase>>
    BY DEF KillsInterrupted
  <1> QED BY <1>1, <1>2 DEF RunnerInv, TypeOK, CallOK, ThreadOK, CancelOK, PhaseOK,
                            table, lock, Waiting

LEMMA ReapedInv ==
  ASSUME RunnerInv, NEW r \in Calls, Reaped(r)
  PROVE  RunnerInv'
  <1> DEFINE pc == IF call[r] = "running" THEN "draining" ELSE "unwinding"
  <1>1. pc \in Tracked /\ pc # "final" /\ call[r] \in Tracked /\ call[r] # "final"
        /\ proc[r] # "alive"
    BY DEF Reaped, Tracked, Live
  <1>2. out[r] \in Out \ {"exit", "cancelled"} /\ out = [out EXCEPT ![r] = out[r]]
    BY DEF Reaped, RunnerInv, TypeOK, CallOK
  <1>3. signal \in [Calls -> {"none", "term", "kill"}]
    BY DEF RunnerInv, TypeOK
  <1> QED BY <1>1, <1>2, <1>3, MoveInv DEF Reaped, Goto, process

LEMMA ExitsInv ==
  ASSUME RunnerInv, NEW r \in Calls, Exits(r)
  PROVE  RunnerInv'
  <1>1. proc' = [proc EXCEPT ![r] = "exited"]
        /\ UNCHANGED <<table, lock, call, out, signal, cancel, chosen, phase>>
    BY DEF Exits
  <1> USE <1>1 DEF RunnerInv, TypeOK, table, lock, Waiting
  <1>2. TypeOK' /\ PhaseOK'
    BY DEF PhaseOK
  <1>3. \A k \in Calls : CallOK(k)'
    BY DEF CallOK
  <1>4. \A t \in Threads : ThreadOK(t)'
    BY DEF ThreadOK
  <1>5. \A x \in Cancellers : CancelOK(x)'
    BY DEF CancelOK
  <1> QED BY <1>2, <1>3, <1>4, <1>5

\* A call waits for the lock.
LEMMA WaitInv ==
  ASSUME RunnerInv, NEW r \in Calls, NEW pc \in {"lock", "final"}, NEW task,
         \/ pc = "lock" /\ task = <<"resume", r>> /\ call[r] = "none" /\ phase = "up"
         \/ pc = "final" /\ task = <<"final", r>> /\ call[r] \in {"draining", "unwinding"},
         Goto(r, pc), Wait(task), UNCHANGED <<table, holder, out, process, cancel, chosen, phase>>
  PROVE  RunnerInv'
  <1>1. task \in LockTasks /\ call' = [call EXCEPT ![r] = pc]
    BY DEF LockTasks, Goto
  <1>2. Waiting' = Waiting \cup {task} /\ Waiting' \subseteq LockTasks
        /\ queue' \in [Waiting' -> SUBSET LockTasks]
    BY <1>1, WaitFacts DEF RunnerInv
  <1>3. /\ \A k \in Calls : /\ <<"resume", k>> \in Waiting' =>
                                  <<"resume", k>> \in Waiting \/ (k = r /\ pc = "lock")
                            /\ <<"final", k>> \in Waiting' =>
                                  <<"final", k>> \in Waiting \/ (k = r /\ pc = "final")
        /\ \A x \in Cancellers : <<"cancel", x>> \in Waiting' <=> <<"cancel", x>> \in Waiting
    BY <1>2
  <1>4. TypeOK'
    BY <1>1, <1>2 DEF RunnerInv, TypeOK, CallState, table, process
  <1> USE <1>1, <1>3 DEF RunnerInv, TypeOK, table, process
  <1>5. ASSUME NEW k \in Calls PROVE CallOK(k)'
    <2>1. CASE k = r
      BY <2>1 DEF CallOK, Tracked, Live
    <2>2. CASE k # r
      BY <2>2 DEF CallOK
    <2> QED BY <2>1, <2>2
  <1>6. ASSUME NEW t \in Threads PROVE ThreadOK(t)'
    <2>1. ThreadOK(t) /\ active[t] \in Calls \cup {NoCall}
      OBVIOUS
    <2>2. CASE active[t] = r
      BY <2>1, <2>2 DEF ThreadOK, Tracked, Live
    <2>3. CASE active[t] # r
      BY <2>1, <2>3 DEF ThreadOK
    <2> QED BY <2>2, <2>3
  <1>7. ASSUME NEW x \in Cancellers PROVE CancelOK(x)'
    <2>1. CancelOK(x) /\ chosen[x] \in Calls \cup {NoCall}
      OBVIOUS
    <2>2. CASE chosen[x] = r
      BY <2>1, <2>2 DEF CancelOK, Tracked, Live
    <2>3. CASE chosen[x] # r
      BY <2>1, <2>3 DEF CancelOK
    <2> QED BY <2>2, <2>3
  <1>8. PhaseOK'
    BY DEF PhaseOK
  <1> QED BY <1>4, <1>5, <1>6, <1>7, <1>8

\* The queue after a task that entered its section at once, or left the queue for it.
Entered(task) == /\ holder = NoCall
                 /\ Waiting' = Waiting \ {task}
                 /\ queue' \in [Waiting' -> SUBSET LockTasks]

LEMMA EnteredFacts ==
  ASSUME TypeOK, NEW task, (LockFree /\ UNCHANGED queue) \/ Woken(task)
  PROVE  Entered(task)
  <1>1. CASE LockFree /\ UNCHANGED queue
    BY <1>1 DEF TypeOK, LockFree, Entered, Waiting
  <1>2. CASE Woken(task)
    BY <1>2, LeaveFacts DEF Woken, IsNext, Entered
  <1> QED BY <1>1, <1>2

LEMMA ResumeSectionInv ==
  ASSUME RunnerInv, NEW r \in Calls, Entered(<<"resume", r>>), ResumeSection(r),
         call[r] \in {"none", "lock"}, call[r] = "none" => phase = "up"
  PROVE  RunnerInv'
  <1>1. /\ \A k \in Calls : /\ <<"resume", k>> \in Waiting' <=>
                                  <<"resume", k>> \in Waiting /\ k # r
                            /\ <<"final", k>> \in Waiting' <=> <<"final", k>> \in Waiting
        /\ \A x \in Cancellers : <<"cancel", x>> \in Waiting' <=> <<"cancel", x>> \in Waiting
        /\ Waiting' \subseteq LockTasks /\ queue' \in [Waiting' -> SUBSET LockTasks]
        /\ holder = NoCall
    BY DEF Entered, RunnerInv, TypeOK
  <1>2. UNCHANGED <<active, proc, signal, cancel, chosen, phase>>
    BY DEF ResumeSection, process
  <1>3. T(r) \in Threads /\ r # NoCall
    BY Threads_T, RunnerAssumption
  <1> USE <1>1, <1>2, <1>3 DEF RunnerInv, TypeOK
  <1>4. CASE ~ThreadFree(T(r)) /\ Ends(r, "already") /\ UNCHANGED <<mark, holder>>
    <2> USE <1>4 DEF Ends
    <2>1. TypeOK'
      BY DEF CallState, Out, Exception
    <2>2. ASSUME NEW k \in Calls PROVE CallOK(k)'
      <3>1. CASE k = r
        BY <3>1 DEF CallOK, Tracked, Live
      <3>2. CASE k # r
        BY <3>2 DEF CallOK
      <3> QED BY <3>1, <3>2
    <2>3. ASSUME NEW t \in Threads PROVE ThreadOK(t)'
      <3>1. ThreadOK(t) /\ active[t] \in Calls \cup {NoCall}
        OBVIOUS
      <3>2. active[t] # r
        BY <3>1 DEF ThreadOK, Tracked, Live
      <3> QED BY <3>1, <3>2 DEF ThreadOK
    <2>4. ASSUME NEW x \in Cancellers PROVE CancelOK(x)'
      <3>1. CancelOK(x) /\ chosen[x] \in Calls \cup {NoCall}
        OBVIOUS
      <3>2. chosen[x] # r
        BY <3>1 DEF CancelOK, Tracked, Live
      <3> QED BY <3>1, <3>2 DEF CancelOK
    <2>5. PhaseOK'
      BY DEF PhaseOK
    <2> QED BY <2>1, <2>2, <2>3, <2>4, <2>5
  <1>5. CASE /\ ThreadFree(T(r)) /\ UNCHANGED out
             /\ mark' = mark \ {T(r)} /\ holder' = r /\ Goto(r, "spawning")
    <2> USE <1>5 DEF Goto, ThreadFree
    <2>1. TypeOK'
      BY DEF CallState
    <2>2. ASSUME NEW k \in Calls PROVE CallOK(k)'
      <3>1. CASE k = r
        BY <3>1 DEF CallOK, Tracked, Live
      <3>2. CASE k # r
        BY <3>2, RunnerAssumption DEF CallOK
      <3> QED BY <3>1, <3>2
    <2>3. ASSUME NEW t \in Threads PROVE ThreadOK(t)'
      <3>1. ThreadOK(t) /\ active[t] \in Calls \cup {NoCall}
        OBVIOUS
      <3>2. active[t] # r
        BY <3>1 DEF ThreadOK, Tracked, Live
      <3> QED BY <3>1, <3>2 DEF ThreadOK
    <2>4. ASSUME NEW x \in Cancellers PROVE CancelOK(x)'
      <3>1. CancelOK(x) /\ chosen[x] \in Calls \cup {NoCall} /\ T(x) \in Threads
        BY Threads_T
      <3>2. chosen[x] # r
        BY <3>1 DEF CancelOK, Tracked, Live
      <3>3. chosen[x] # NoCall /\ call[chosen[x]] # "ended" => T(x) # T(r)
        BY <3>1 DEF CancelOK
      <3> QED BY <3>1, <3>2, <3>3 DEF CancelOK
    <2>5. PhaseOK'
      BY DEF PhaseOK
    <2> QED BY <2>1, <2>2, <2>3, <2>4, <2>5
  <1> QED BY <1>4, <1>5 DEF ResumeSection

LEMMA StartResumeInv ==
  ASSUME RunnerInv, NEW r \in Calls, StartResume(r)
  PROVE  RunnerInv'
  <1>1. phase = "up" /\ call[r] = "none"
    BY DEF StartResume
  <1>2. CASE LockFree /\ ResumeSection(r) /\ UNCHANGED queue
    BY <1>1, <1>2, EnteredFacts, ResumeSectionInv DEF RunnerInv
  <1>3. CASE /\ ~LockFree /\ Goto(r, "lock") /\ Wait(<<"resume", r>>)
             /\ UNCHANGED <<table, holder, out, process, cancel, chosen, phase>>
    BY <1>1, <1>3, WaitInv
  <1> QED BY <1>2, <1>3 DEF StartResume

LEMMA EnterResumeInv ==
  ASSUME RunnerInv, NEW r \in Calls, EnterResume(r)
  PROVE  RunnerInv'
  <1>1. call[r] = "lock"
    BY DEF EnterResume, Woken, IsNext, RunnerInv, CallOK
  <1> QED BY <1>1, EnteredFacts, ResumeSectionInv DEF RunnerInv, EnterResume

LEMMA SpawnFailsInv ==
  ASSUME RunnerInv, NEW r \in Calls, SpawnFails(r)
  PROVE  RunnerInv'
  <1> USE DEF RunnerInv, TypeOK, SpawnFails, Ends, table, process, Waiting
  <1>0. UNCHANGED <<active, mark, queue, proc, signal, cancel, chosen, phase>> /\ r # NoCall
        /\ call[r] = "spawning" /\ holder = r /\ holder' = NoCall
    BY RunnerAssumption DEF CallOK
  <1>1. TypeOK'
    BY DEF CallState, Out, Exception
  <1>2. ASSUME NEW k \in Calls PROVE CallOK(k)'
    <2>1. CASE k = r
      BY <1>0, <2>1 DEF CallOK, Tracked, Live
    <2>2. CASE k # r
      BY <1>0, <2>2, RunnerAssumption DEF CallOK
    <2> QED BY <2>1, <2>2
  <1>3. ASSUME NEW t \in Threads PROVE ThreadOK(t)'
    <2>1. ThreadOK(t) /\ active[t] \in Calls \cup {NoCall}
      OBVIOUS
    <2>2. active[t] # r
      BY <1>0, <2>1 DEF ThreadOK, Tracked, Live
    <2> QED BY <1>0, <2>1, <2>2 DEF ThreadOK
  <1>4. ASSUME NEW x \in Cancellers PROVE CancelOK(x)'
    <2>1. CancelOK(x) /\ chosen[x] \in Calls \cup {NoCall}
      OBVIOUS
    <2>2. chosen[x] # r
      BY <1>0, <2>1 DEF CancelOK, Tracked, Live
    <2> QED BY <1>0, <2>1, <2>2 DEF CancelOK
  <1>5. PhaseOK'
    BY <1>0 DEF PhaseOK
  <1> QED BY <1>1, <1>2, <1>3, <1>4, <1>5

LEMMA SpawnedInv ==
  ASSUME RunnerInv, NEW r \in Calls, Spawned(r)
  PROVE  RunnerInv'
  <1> USE DEF RunnerInv, TypeOK, Spawned, Goto, Waiting
  <1>0. /\ UNCHANGED <<mark, queue, out, signal, cancel, chosen, phase>> /\ r # NoCall
        /\ call[r] = "spawning" /\ holder = r /\ holder' = NoCall
        /\ active[T(r)] = NoCall /\ T(r) \in Threads
    BY RunnerAssumption, Threads_T DEF CallOK
  <1>1. TypeOK'
    BY <1>0 DEF CallState
  <1>2. ASSUME NEW k \in Calls PROVE CallOK(k)'
    <2>1. CASE k = r
      BY <1>0, <2>1 DEF CallOK, Tracked, Live
    <2>2. CASE k # r
      <3>1. call[k] \in Tracked => T(k) # T(r)
        BY <1>0, RunnerAssumption DEF CallOK
      <3> QED BY <1>0, <2>2, <3>1, RunnerAssumption DEF CallOK
    <2> QED BY <2>1, <2>2
  <1>3. ASSUME NEW t \in Threads PROVE ThreadOK(t)'
    <2>1. ThreadOK(t) /\ active[t] \in Calls \cup {NoCall}
      OBVIOUS
    <2>2. CASE t = T(r)
      BY <1>0, <2>1, <2>2 DEF ThreadOK, Tracked, Live
    <2>3. CASE t # T(r)
      <3>1. active[t] # r
        BY <1>0, <2>1, <2>3 DEF ThreadOK, Tracked, Live
      <3> QED BY <1>0, <2>1, <2>3, <3>1 DEF ThreadOK
    <2> QED BY <2>2, <2>3
  <1>4. ASSUME NEW x \in Cancellers PROVE CancelOK(x)'
    <2>1. CancelOK(x) /\ chosen[x] \in Calls \cup {NoCall} /\ T(x) \in Threads
      BY Threads_T
    <2>2. chosen[x] # r
      BY <1>0, <2>1 DEF CancelOK, Tracked, Live
    <2>3. chosen[x] # NoCall /\ call[chosen[x]] # "ended" => T(x) # T(r)
      BY <1>0, <2>1 DEF CancelOK
    <2> QED BY <1>0, <2>1, <2>2, <2>3 DEF CancelOK
  <1>5. PhaseOK'
    BY <1>0 DEF PhaseOK
  <1> QED BY <1>1, <1>2, <1>3, <1>4, <1>5

\* The end of a call: what it reports is an exit only if nobody has chosen it.
LEMMA FinalSectionInv ==
  ASSUME RunnerInv, NEW r \in Calls, Entered(<<"final", r>>), FinalSection(r),
         call[r] \in {"draining", "unwinding", "final"}
  PROVE  RunnerInv'
  <1>1. /\ \A k \in Calls : /\ <<"resume", k>> \in Waiting' <=> <<"resume", k>> \in Waiting
                            /\ <<"final", k>> \in Waiting' <=>
                                  <<"final", k>> \in Waiting /\ k # r
        /\ \A x \in Cancellers : <<"cancel", x>> \in Waiting' <=> <<"cancel", x>> \in Waiting
        /\ Waiting' \subseteq LockTasks /\ queue' \in [Waiting' -> SUBSET LockTasks]
        /\ holder = NoCall
    BY DEF Entered, RunnerInv, TypeOK
  <1>2. /\ UNCHANGED <<holder, proc, signal, cancel, chosen, phase>>
        /\ active' = [active EXCEPT ![T(r)] = NoCall] /\ mark' = mark \ {T(r)}
        /\ call' = [call EXCEPT ![r] = "ended"] /\ out' = [out EXCEPT ![r] = Verdict(r)]
    BY DEF FinalSection, process, Untrack, Ends
  <1>3. T(r) \in Threads /\ r # NoCall /\ active[T(r)] = r /\ proc[r] # "alive"
    BY Threads_T, RunnerAssumption DEF RunnerInv, CallOK, Tracked, Live
  <1>4. Verdict(r) \in Out
    BY DEF Verdict, Out, Exception
  <1>5. Verdict(r) = "cancelled" => \E x \in Cancellers : chosen[x] = r
    BY <1>3 DEF Verdict, RunnerInv, ThreadOK, Exception
  <1>6. ASSUME NEW x \in Cancellers, chosen[x] = r PROVE Verdict(r) # "exit"
    <2>1. CancelOK(x) /\ r # NoCall /\ call[r] # "ended"
      BY <1>3 DEF RunnerInv
    <2>2. T(r) \in mark
      BY <2>1, <1>6 DEF CancelOK
    <2> QED BY <2>2 DEF Verdict, Exception
  <1> USE <1>1, <1>2, <1>3 DEF RunnerInv, TypeOK
  <1>7. TypeOK'
    BY <1>4 DEF CallState
  <1>8. ASSUME NEW k \in Calls PROVE CallOK(k)'
    <2>1. CASE k = r
      BY <1>5, <2>1 DEF CallOK, Tracked, Live
    <2>2. CASE k # r
      BY <2>2, RunnerAssumption DEF CallOK
    <2> QED BY <2>1, <2>2
  <1>9. ASSUME NEW t \in Threads PROVE ThreadOK(t)'
    <2>1. ThreadOK(t) /\ active[t] \in Calls \cup {NoCall}
      OBVIOUS
    <2>2. CASE t = T(r)
      BY <2>1, <2>2 DEF ThreadOK
    <2>3. CASE t # T(r)
      <3>1. active[t] # r
        BY <2>1, <2>3 DEF ThreadOK
      <3> QED BY <2>1, <2>3, <3>1 DEF ThreadOK
    <2> QED BY <2>2, <2>3
  <1>10. ASSUME NEW x \in Cancellers PROVE CancelOK(x)'
    <2>1. CancelOK(x) /\ chosen[x] \in Calls \cup {NoCall} /\ T(x) \in Threads
      BY Threads_T
    <2>2. CASE chosen[x] = r
      BY <1>6, <2>1, <2>2 DEF CancelOK
    <2>3. CASE chosen[x] # r
      <3>1. chosen[x] # NoCall /\ call[chosen[x]] # "ended" => T(x) # T(r)
        BY <2>1, <2>3 DEF CancelOK
      <3> QED BY <2>1, <2>3, <3>1 DEF CancelOK
    <2> QED BY <2>2, <2>3
  <1>11. PhaseOK'
    BY DEF PhaseOK
  <1> QED BY <1>7, <1>8, <1>9, <1>10, <1>11

LEMMA FinallyInv ==
  ASSUME RunnerInv, NEW r \in Calls, Finally(r)
  PROVE  RunnerInv'
  <1>1. call[r] \in {"draining", "unwinding"}
    BY DEF Finally
  <1>2. CASE LockFree /\ FinalSection(r) /\ UNCHANGED queue
    BY <1>1, <1>2, EnteredFacts, FinalSectionInv DEF RunnerInv
  <1>3. CASE /\ ~LockFree /\ Goto(r, "final") /\ Wait(<<"final", r>>)
             /\ UNCHANGED <<table, holder, out, process, cancel, chosen, phase>>
    BY <1>1, <1>3, WaitInv
  <1> QED BY <1>2, <1>3 DEF Finally

LEMMA EnterFinallyInv ==
  ASSUME RunnerInv, NEW r \in Calls, EnterFinally(r)
  PROVE  RunnerInv'
  <1>1. call[r] = "final"
    BY DEF EnterFinally, Woken, IsNext, RunnerInv, CallOK
  <1> QED BY <1>1, EnteredFacts, FinalSectionInv DEF RunnerInv, EnterFinally

LEMMA CallStepInv ==
  ASSUME RunnerInv, NEW r \in Calls,
         StartResume(r) \/ CallStep(r) \/ StdinBroken(r) \/ Alarm(r) \/ Exits(r)
  PROVE  RunnerInv'
  BY StartResumeInv, EnterResumeInv, SpawnedInv, SpawnFailsInv, ReapedInv, FinallyInv,
     EnterFinallyInv, KillInv, KillsInterruptedInv, ExitsInv
     DEF CallStep, StdinBroken, Alarm

-----------------------------------------------------------------------------
(* The steps of one canceller.                                              *)

LEMMA CancelSectionInv ==
  ASSUME RunnerInv, NEW x \in Cancellers, Entered(<<"cancel", x>>), CancelSection(x),
         cancel[x] \in {"none", "asked", "lock"}, x \in Threads => cancel[x] # "none"
  PROVE  RunnerInv'
  <1> DEFINE r == active[T(x)]
  <1>1. /\ \A k \in Calls : /\ <<"resume", k>> \in Waiting' <=> <<"resume", k>> \in Waiting
                            /\ <<"final", k>> \in Waiting' <=> <<"final", k>> \in Waiting
        /\ \A y \in Cancellers : <<"cancel", y>> \in Waiting' <=>
                                    <<"cancel", y>> \in Waiting /\ y # x
        /\ Waiting' \subseteq LockTasks /\ queue' \in [Waiting' -> SUBSET LockTasks]
    BY DEF Entered, RunnerInv, TypeOK
  <1>2. UNCHANGED <<active, holder, call, out, proc, phase>>
    BY DEF CancelSection
  <1>3. T(x) \in Threads /\ r \in Calls \cup {NoCall} /\ chosen[x] = NoCall
    BY Threads_T DEF RunnerInv, TypeOK, CancelOK
  <1>4. NoCall \notin Calls
    BY RunnerAssumption
  <1> USE <1>1, <1>2, <1>3, <1>4
  <1>5. CASE r = NoCall /\ Answer(x, "false") /\ UNCHANGED <<mark, chosen, signal>>
    <2> USE <1>5 DEF Answer
    <2>1. TypeOK'
      BY DEF RunnerInv, TypeOK, CancelState
    <2>2. \A k \in Calls : CallOK(k)'
      BY DEF RunnerInv, CallOK
    <2>3. \A t \in Threads : ThreadOK(t)'
      BY DEF RunnerInv, ThreadOK
    <2>4. ASSUME NEW y \in Cancellers PROVE CancelOK(y)'
      <3>1. CancelOK(y) /\ cancel \in [Cancellers -> CancelState]
        BY DEF RunnerInv, TypeOK
      <3>2. CASE y = x
        BY <3>1, <3>2 DEF CancelOK
      <3>3. CASE y # x
        BY <3>1, <3>3 DEF CancelOK
      <3> QED BY <3>2, <3>3
    <2>5. PhaseOK'
      BY DEF RunnerInv, TypeOK, PhaseOK
    <2> QED BY <2>1, <2>2, <2>3, <2>4, <2>5 DEF RunnerInv
  <1>6. CASE /\ r # NoCall /\ mark' = mark \cup {T(x)} /\ chosen' = [chosen EXCEPT ![x] = r]
             /\ signal' = SignalTo(r, "term") /\ Answer(x, "waiting")
    <2> USE <1>6 DEF Answer
    <2>1. ThreadOK(T(x)) /\ r \in Calls /\ chosen \in [Cancellers -> Calls \cup {NoCall}]
          /\ cancel \in [Cancellers -> CancelState]
      BY DEF RunnerInv, TypeOK
    <2>2. TypeOK'
      <3>1. signal' \in [Calls -> {"none", "term", "kill"}]
        BY <2>1, SignalFacts DEF RunnerInv
      <3> QED BY <2>1, <3>1 DEF RunnerInv, TypeOK, CancelState
    <2>3. ASSUME NEW k \in Calls PROVE CallOK(k)'
      <3>1. CallOK(k)
        BY DEF RunnerInv
      <3>2. (\E y \in Cancellers : chosen[y] = k) => \E y \in Cancellers : chosen'[y] = k
        BY <2>1
      <3> QED BY <3>1, <3>2 DEF CallOK
    <2>4. ASSUME NEW t \in Threads PROVE ThreadOK(t)'
      <3>1. ThreadOK(t) /\ active[t] \in Calls \cup {NoCall}
        BY DEF RunnerInv, TypeOK
      <3>2. CASE t = T(x)
        BY <2>1, <3>1, <3>2 DEF ThreadOK
      <3>3. CASE t # T(x)
        BY <2>1, <3>1, <3>3 DEF ThreadOK
      <3> QED BY <3>2, <3>3
    <2>5. ASSUME NEW y \in Cancellers PROVE CancelOK(y)'
      <3>1. CancelOK(y)
        BY DEF RunnerInv
      <3>2. CASE y = x
        <4>1. T(r) = T(x) /\ (call[r] \in Tracked \/ (call[r] = "ended" /\ out[r] = "interrupted"))
          BY <2>1 DEF ThreadOK
        <4>2. out[r] # "exit"
          BY <2>1, <4>1 DEF RunnerInv, CallOK, Tracked, Live
        <4>3. chosen'[x] = r /\ cancel'[x] = "waiting" /\ <<"cancel", x>> \notin Waiting'
          BY <2>1
        <4> QED BY <2>1, <3>2, <4>1, <4>2, <4>3 DEF CancelOK
      <3>3. CASE y # x
        BY <2>1, <3>1, <3>3 DEF CancelOK
      <3> QED BY <3>2, <3>3
    <2>6. PhaseOK'
      BY DEF RunnerInv, TypeOK, PhaseOK
    <2> QED BY <2>2, <2>3, <2>4, <2>5, <2>6 DEF RunnerInv
  <1> QED BY <1>5, <1>6 DEF CancelSection

\* A canceller moves: to the lock, or on after it has chosen.
LEMMA CancelMoves ==
  ASSUME RunnerInv, NEW x \in Cancellers, NEW a \in CancelState, Answer(x, a),
         x \in Threads => cancel[x] # "none",
         UNCHANGED <<table, holder, call, out, proc, chosen, phase>>,
         signal' \in [Calls -> {"none", "term", "kill"}],
         \/ cancel[x] \in {"none", "asked"} /\ a = "lock" /\ Wait(<<"cancel", x>>)
         \/ /\ UNCHANGED queue /\ cancel[x] \in {"waiting", "killing"}
            /\ a = "killing" \/ (a = "true" /\ proc[chosen[x]] = "exited")
  PROVE  RunnerInv'
  <1>1. /\ \A k \in Calls : /\ <<"resume", k>> \in Waiting' <=> <<"resume", k>> \in Waiting
                            /\ <<"final", k>> \in Waiting' <=> <<"final", k>> \in Waiting
        /\ \A y \in Cancellers : <<"cancel", y>> \in Waiting' <=>
                                    <<"cancel", y>> \in Waiting \/ (y = x /\ a = "lock")
        /\ Waiting' \subseteq LockTasks /\ queue' \in [Waiting' -> SUBSET LockTasks]
    <2>1. CASE a = "lock" /\ Wait(<<"cancel", x>>)
      BY <2>1, WaitFacts DEF RunnerInv, TypeOK, LockTasks
    <2>2. CASE UNCHANGED queue /\ a # "lock"
      BY <2>2 DEF RunnerInv, TypeOK, Waiting
    <2> QED BY <2>1, <2>2
  <1> USE <1>1 DEF table, Answer
  <1>2. TypeOK'
    BY DEF RunnerInv, TypeOK
  <1>3. \A k \in Calls : CallOK(k)'
    BY DEF RunnerInv, CallOK
  <1>4. \A t \in Threads : ThreadOK(t)'
    BY DEF RunnerInv, ThreadOK
  <1>5. ASSUME NEW y \in Cancellers PROVE CancelOK(y)'
    <2>1. CancelOK(y) /\ cancel \in [Cancellers -> CancelState]
      BY DEF RunnerInv, TypeOK
    <2>2. CASE y = x
      BY <2>1, <2>2 DEF CancelOK
    <2>3. CASE y # x
      BY <2>1, <2>3 DEF CancelOK
    <2> QED BY <2>2, <2>3
  <1>6. PhaseOK'
    BY DEF RunnerInv, TypeOK, PhaseOK
  <1> QED BY <1>2, <1>3, <1>4, <1>5, <1>6 DEF RunnerInv

LEMMA CancelStepInv ==
  ASSUME RunnerInv, NEW x \in Cancellers, StartCancel(x) \/ CancelStep(x)
  PROVE  RunnerInv'
  <1>1. signal \in [Calls -> {"none", "term", "kill"}] /\ CancelOK(x)
        /\ chosen[x] \in Calls \cup {NoCall}
    BY DEF RunnerInv, TypeOK
  <1>2. CASE StartCancel(x)
    <2>1. cancel[x] \in {"none", "asked"} /\ (x \in Threads => cancel[x] # "none")
      BY <1>2, RunnerAssumption DEF StartCancel
    <2>2. CASE LockFree /\ CancelSection(x) /\ UNCHANGED queue
      BY <2>1, <2>2, EnteredFacts, CancelSectionInv DEF RunnerInv
    <2>3. CASE /\ ~LockFree /\ Answer(x, "lock") /\ Wait(<<"cancel", x>>)
               /\ UNCHANGED <<table, holder, call, out, process, chosen, phase>>
      BY <1>1, <2>1, <2>3, CancelMoves DEF process, CancelState
    <2> QED BY <1>2, <2>2, <2>3 DEF StartCancel
  <1>3. CASE EnterCancel(x)
    <2>1. cancel[x] = "lock"
      BY <1>1, <1>3 DEF EnterCancel, Woken, IsNext, CancelOK
    <2> QED BY <1>3, <2>1, EnteredFacts, CancelSectionInv DEF RunnerInv, EnterCancel
  <1>4. CASE CancelKills(x)
    <2>1. chosen[x] \in Calls
      BY <1>1, <1>4 DEF CancelKills, CancelOK
    <2>2. signal' \in [Calls -> {"none", "term", "kill"}]
      BY <1>4, <2>1, SignalFacts DEF CancelKills, RunnerInv
    <2> QED BY <1>4, <2>2, CancelMoves DEF CancelKills, lock, CancelState
  <1>5. CASE CancelReturns(x)
    BY <1>1, <1>5, CancelMoves DEF CancelReturns, HasExited, lock, process, CancelState
  <1> QED BY <1>2, <1>3, <1>4, <1>5 DEF CancelStep

-----------------------------------------------------------------------------
(* The steps of a stop.                                                     *)

\* What CancelOK says of the call a canceller has chosen.
ChosenOK(x) ==
    chosen[x] # NoCall =>
        /\ T(chosen[x]) = T(x)
        /\ out[chosen[x]] # "exit"
        /\ \/ call[chosen[x]] = "ended"
           \/ /\ call[chosen[x]] \in Tracked
              /\ active[T(x)] = chosen[x] /\ T(x) \in mark

LEMMA InterruptFacts ==
  ASSUME RunnerInv, NEW R \in SUBSET Calls, Interrupt(R), NEW gone, Leave(gone),
         {"resume", "final"} \X R \subseteq gone, UNCHANGED chosen
  PROVE  /\ holder' \in Calls \cup {NoCall} /\ call' \in [Calls -> CallState]
         /\ out' \in [Calls -> Out] /\ signal' \in [Calls -> {"none", "term", "kill"}]
         /\ Waiting' \subseteq LockTasks /\ queue' \in [Waiting' -> SUBSET LockTasks]
         /\ \A k \in Calls : CallOK(k)'
         /\ \A t \in Threads : ThreadOK(t)'
         /\ \A x \in Cancellers : ChosenOK(x)'
  <1> DEFINE hit == {r \in R : call[r] \in {"lock", "spawning", "final"}}
             wait == {r \in R : call[r] \in {"running", "killing"} /\ proc[r] = "alive"}
             through == {r \in R : \/ call[r] = "draining"
                                   \/ call[r] \in {"running", "killing"} /\ proc[r] = "exited"}
  <1>1. /\ call' = [r \in Calls |-> IF r \in hit THEN "ended"
                                    ELSE IF r \in wait THEN "terminating"
                                    ELSE IF r \in through THEN "unwinding" ELSE call[r]]
        /\ out' = [r \in Calls |-> IF r \in hit \cup wait \cup through
                                   THEN "interrupted" ELSE out[r]]
        /\ signal' = [r \in Calls |-> IF r \in wait /\ signal[r] = "none"
                                      THEN "term" ELSE signal[r]]
        /\ holder' = IF holder \in R THEN NoCall ELSE holder
        /\ UNCHANGED <<active, mark, proc>>
    BY DEF Interrupt, table
  <1>2. /\ Waiting' = Waiting \ gone /\ Waiting' \subseteq LockTasks
        /\ queue' \in [Waiting' -> SUBSET LockTasks]
    BY LeaveFacts DEF RunnerInv
  <1>3. \A k \in Calls : /\ call'[k] = IF k \in hit THEN "ended"
                                       ELSE IF k \in wait THEN "terminating"
                                       ELSE IF k \in through THEN "unwinding" ELSE call[k]
                         /\ out'[k] = IF k \in hit \cup wait \cup through
                                      THEN "interrupted" ELSE out[k]
    BY <1>1
  <1>4. \A k \in Calls : /\ <<"resume", k>> \in Waiting' => <<"resume", k>> \in Waiting /\ k \notin R
                         /\ <<"final", k>> \in Waiting' => <<"final", k>> \in Waiting /\ k \notin R
    BY <1>2
  <1>5. call' \in [Calls -> CallState] /\ out' \in [Calls -> Out]
    BY <1>1 DEF RunnerInv, TypeOK, CallState, Out, Exception
  <1>6. signal' \in [Calls -> {"none", "term", "kill"}] /\ holder' \in Calls \cup {NoCall}
    BY <1>1 DEF RunnerInv, TypeOK
  <1>7. ASSUME NEW k \in Calls PROVE CallOK(k)'
    <2>1. CallOK(k) /\ k # NoCall /\ holder \in Calls \cup {NoCall}
          /\ proc[k] \in {"none", "alive", "exited"}
      BY RunnerAssumption DEF RunnerInv, TypeOK
    <2>2. call'[k] \in Tracked => call[k] \in Tracked
      BY <1>3 DEF Tracked, Live
    <2>3. call'[k] = "spawning" <=> holder' = k
      BY <1>1, <1>3, <2>1 DEF CallOK
    <2>4. (call'[k] = "spawning" => call[k] = "spawning")
          /\ (call'[k] # "ended" => call[k] # "ended")
      BY <1>3
    <2>5. out'[k] = "interrupted" \/ out'[k] = out[k]
      BY <1>3
    <2>6. proc[k] = "alive" => call'[k] \in Live
      BY <1>3, <2>1 DEF CallOK, Live
    <2>7. k \notin R => call'[k] = call[k]
      BY <1>3
    <2> QED BY <1>1, <1>4, <2>1, <2>2, <2>3, <2>4, <2>5, <2>6, <2>7 DEF CallOK
  <1>8. ASSUME NEW k \in Calls, call[k] \in Tracked
        PROVE  call'[k] \in Tracked \/ (call'[k] = "ended" /\ out'[k] = "interrupted")
    BY <1>3, <1>8 DEF Tracked, Live
  <1>9. ASSUME NEW k \in Calls, call[k] = "ended"
        PROVE  call'[k] = "ended" /\ out'[k] = out[k]
    BY <1>3, <1>9
  <1>10. ASSUME NEW t \in Threads PROVE ThreadOK(t)'
    <2>1. ThreadOK(t) /\ active[t] \in Calls \cup {NoCall}
      BY DEF RunnerInv, TypeOK
    <2> QED BY <1>1, <1>8, <1>9, <2>1 DEF ThreadOK
  <1>11. ASSUME NEW x \in Cancellers PROVE ChosenOK(x)'
    <2>1. CancelOK(x) /\ chosen[x] \in Calls \cup {NoCall}
      BY DEF RunnerInv, TypeOK
    <2>2. chosen[x] # NoCall => out'[chosen[x]] # "exit"
      BY <1>3, <2>1 DEF CancelOK
    <2>3. SUFFICES ASSUME chosen[x] # NoCall PROVE ChosenOK(x)'
      BY DEF ChosenOK
    <2>4. chosen[x] \in Calls /\ T(chosen[x]) = T(x)
      BY <2>1, <2>3 DEF CancelOK
    <2>5. CASE call[chosen[x]] = "ended"
      BY <1>9, <2>1, <2>4, <2>5 DEF CancelOK, ChosenOK
    <2>6. CASE /\ call[chosen[x]] \in Tracked
               /\ active[T(x)] = chosen[x] /\ T(x) \in mark
      BY <1>1, <1>8, <2>2, <2>3, <2>4, <2>6 DEF ChosenOK
    <2> QED BY <2>1, <2>3, <2>5, <2>6 DEF CancelOK
  <1> QED BY <1>2, <1>5, <1>6, <1>7, <1>10, <1>11

LEMMA BeginStopInv ==
  ASSUME RunnerInv, BeginStop
  PROVE  RunnerInv'
  <1> DEFINE off == {"resume", "final"} \X Background
  <1>1. Interrupt(Background) /\ Leave(off) /\ phase' = "stopping" /\ phase = "up"
        /\ UNCHANGED <<active, mark, proc, cancel, chosen>>
    BY DEF BeginStop, Interrupt, table
  <1>2. Background \in SUBSET Calls
    BY RunnerAssumption
  <1>3. /\ holder' \in Calls \cup {NoCall} /\ call' \in [Calls -> CallState]
        /\ out' \in [Calls -> Out] /\ signal' \in [Calls -> {"none", "term", "kill"}]
        /\ Waiting' \subseteq LockTasks /\ queue' \in [Waiting' -> SUBSET LockTasks]
        /\ \A k \in Calls : CallOK(k)'
        /\ \A t \in Threads : ThreadOK(t)'
        /\ \A x \in Cancellers : ChosenOK(x)'
    BY <1>1, <1>2, InterruptFacts
  <1>4. \A x \in Cancellers : <<"cancel", x>> \in Waiting' <=> <<"cancel", x>> \in Waiting
    BY <1>1, LeaveFacts DEF RunnerInv
  <1>5. TypeOK'
    BY <1>1, <1>3 DEF RunnerInv, TypeOK, Phase
  <1>6. \A x \in Cancellers : CancelOK(x)'
    BY <1>1, <1>3, <1>4 DEF RunnerInv, CancelOK, ChosenOK
  <1> QED BY <1>1, <1>3, <1>5, <1>6 DEF RunnerInv, PhaseOK

LEMMA BeginExitInv ==
  ASSUME RunnerInv, BeginExit
  PROVE  RunnerInv'
  <1>1. Interrupt(Calls) /\ Leave(Waiting \cup {"resume", "final"} \X Calls)
        /\ phase' = "exiting"
        /\ cancel' = [x \in Cancellers |-> IF cancel[x] \in CancelEnded
                                           THEN cancel[x] ELSE "lost"]
        /\ UNCHANGED <<active, mark, proc, chosen>>
    BY DEF BeginExit, Interrupt, table, Leave
  <1>2. /\ holder' \in Calls \cup {NoCall} /\ call' \in [Calls -> CallState]
        /\ out' \in [Calls -> Out] /\ signal' \in [Calls -> {"none", "term", "kill"}]
        /\ Waiting' \subseteq LockTasks /\ queue' \in [Waiting' -> SUBSET LockTasks]
        /\ \A k \in Calls : CallOK(k)'
        /\ \A t \in Threads : ThreadOK(t)'
        /\ \A x \in Cancellers : ChosenOK(x)'
    <2>1. Calls \in SUBSET Calls
      OBVIOUS
    <2>2. {"resume", "final"} \X Calls \subseteq Waiting \cup {"resume", "final"} \X Calls
      OBVIOUS
    <2> QED BY <1>1, <2>1, <2>2, InterruptFacts
  <1>3. Waiting' = {}
    BY DEF BeginExit, Leave, Waiting
  <1>4. TypeOK'
    BY <1>1, <1>2 DEF RunnerInv, TypeOK, Phase, CancelState
  <1>5. \A x \in Cancellers : CancelOK(x)'
    BY <1>1, <1>2, <1>3 DEF RunnerInv, CancelOK, ChosenOK, CancelEnded
  <1> QED BY <1>1, <1>2, <1>4, <1>5 DEF RunnerInv, PhaseOK

LEMMA CloseInv ==
  ASSUME RunnerInv, Close
  PROVE  RunnerInv'
  <1> SUFFICES TypeOK' /\ \A x \in Cancellers : CancelOK(x)'
    BY DEF RunnerInv, Close, CallOK, ThreadOK, PhaseOK, table, lock, process, Waiting
  <1> USE DEF RunnerInv, Close, TypeOK, table, lock, process, Waiting
  <1>1. TypeOK'
    BY DEF CancelState, Phase
  <1>2. ASSUME NEW x \in Cancellers PROVE CancelOK(x)'
    <2>1. CASE x \in Threads /\ active[x] # NoCall
      <3>1. cancel[x] = "none" /\ cancel'[x] = "asked" /\ chosen'[x] = chosen[x]
            /\ (<<"cancel", x>> \in Waiting' <=> <<"cancel", x>> \in Waiting)
        BY <2>1 DEF PhaseOK
      <3>2. chosen[x] = NoCall /\ <<"cancel", x>> \notin Waiting
        BY <3>1 DEF CancelOK
      <3>3. cancel'[x] = "asked" /\ chosen'[x] = NoCall /\ <<"cancel", x>> \notin Waiting'
        BY <3>1, <3>2
      <3> QED BY <3>3 DEF CancelOK
    <2>2. CASE ~(x \in Threads /\ active[x] # NoCall)
      <3>1. cancel'[x] = cancel[x]
        BY <2>2
      <3> QED BY <3>1 DEF CancelOK
    <2> QED BY <2>1, <2>2
  <1> QED BY <1>1, <1>2

LEMMA ClosedInv ==
  ASSUME RunnerInv, Closed \/ Gone
  PROVE  RunnerInv'
  <1>1. UNCHANGED <<active, mark, holder, queue, call, out, proc, signal, cancel, chosen>>
        /\ phase' \in {"closed", "gone"} /\ (phase' = "gone" => Ended(Calls))
    BY DEF Closed, Gone, AllReturned, table, lock, process
  <1> QED BY <1>1 DEF RunnerInv, TypeOK, Phase, CallOK, ThreadOK, CancelOK, PhaseOK, Ended, Waiting

RunnerCallStep(r) == StartResume(r) \/ CallStep(r) \/ StdinBroken(r) \/ Alarm(r) \/ Exits(r)
RunnerCancelStep(x) == StartCancel(x) \/ CancelStep(x)
RunnerStopStep == BeginStop \/ Close \/ Closed \/ BeginExit \/ Gone

\* Every step of the composition is a step of a call, of a canceller or of the stop, or
\* leaves the runner alone.
LEMMA StepKinds ==
  ASSUME [Next]_vars
  PROVE  \/ UNCHANGED runnerVars
         \/ \E j \in Calls : Runs(j) /\ RunnerCallStep(j)
         \/ \E u \in Users : (AskCancel(u) \/ CancelRuns(u)) /\ RunnerCancelStep(u)
         \/ \E t \in Threads : RunnerCancelStep(t) /\ UNCHANGED <<job, asked>>
         \/ Stops /\ RunnerStopStep
  BY DEF Next, vars, Claim, Notified, Runs, AskCancel, CancelRuns, Stops, RunnerCallStep,
         RunnerCancelStep, RunnerStopStep

LEMMA RunnerStep ==
  ASSUME RunnerInv, [Next]_vars
  PROVE  RunnerInv'
  <1>1. CASE UNCHANGED runnerVars
    BY <1>1 DEF runnerVars, RunnerInv, TypeOK, CallOK, ThreadOK, CancelOK, PhaseOK, Waiting
  <1>2. CASE \E j \in Calls : RunnerCallStep(j)
    BY <1>2, CallStepInv DEF RunnerCallStep
  <1>3. CASE \E x \in Cancellers : RunnerCancelStep(x)
    BY <1>3, CancelStepInv DEF RunnerCancelStep
  <1>4. CASE RunnerStopStep
    BY <1>4, BeginStopInv, BeginExitInv, CloseInv, ClosedInv DEF RunnerStopStep
  <1> QED BY <1>1, <1>2, <1>3, <1>4, StepKinds DEF Cancellers

-----------------------------------------------------------------------------
(* The jobs.                                                                *)

\* No process for a job that was not claimed.
QueuedIdle == \A j \in Calls : job[j] = "QUEUED" => call[j] = "none"

OneOpen == \A j, k \in Calls : T(j) = T(k) /\ IsOpen(j) /\ IsOpen(k) => j = k

\* A job that was claimed while a cancellation of another job waits for the lock: its
\* call comes to the lock after the cancellation, so it has no process to be chosen.
Behind(u, k) ==
    cancel[u] = "lock" /\ k # asked[u] /\ T(k) = T(u) /\ IsOpen(k) =>
        /\ call[k] \in {"none", "lock", "ended"} /\ active[T(k)] # k
        /\ call[k] = "lock" => /\ <<"resume", k>> \in Waiting
                               /\ <<"cancel", u>> \in queue[<<"resume", k>>]

JobInv == /\ job \in [Calls -> JobStatus] /\ asked \in [Users -> Calls \cup {NoCall}]
          /\ QueuedIdle /\ OneOpen
          /\ CancelSparesOpenJobs
          /\ \A u \in Users, k \in Calls : Behind(u, k)

\* But for a claim, no job becomes open and none returns to the queue.
JobsClose == /\ job' \in [Calls -> JobStatus]
             /\ \A k \in Calls : /\ IsOpen(k)' => IsOpen(k)
                                 /\ job'[k] = "QUEUED" => job[k] = "QUEUED"

LEMMA JobsCloseFacts ==
  ASSUME job \in [Calls -> JobStatus], asked \in [Users -> Calls \cup {NoCall}],
         \/ \E j \in Calls : Notified(j) \/ Runs(j)
         \/ \E u \in Users : AskCancel(u) \/ CancelRuns(u)
         \/ Stops
         \/ UNCHANGED <<job, asked>>
  PROVE  JobsClose
  <1> USE DEF JobsClose, IsOpen, JobStatus
  <1>1. CASE \E j \in Calls : Notified(j)
    BY <1>1 DEF Notified
  <1>2. ASSUME NEW j \in Calls, Runs(j) PROVE JobsClose
    <2>1. CASE UNCHANGED job
      BY <2>1
    <2>2. CASE \E v \in Verdicts(j, out'[j]) : job' = [job EXCEPT ![j] = v]
      <3>1. PICK v \in Verdicts(j, out'[j]) : job' = [job EXCEPT ![j] = v]
        BY <2>2
      <3>2. v = job[j] \/ (IsOpen(j) /\ v \in {"DISPATCHED", "FAILED", "CANCELLED"})
        BY DEF Verdicts
      <3> QED BY <3>1, <3>2
    <2> QED BY <1>2, <2>1, <2>2 DEF Runs
  <1>3. CASE \E u \in Users : AskCancel(u)
    BY <1>3 DEF AskCancel
  <1>4. CASE \E u \in Users : CancelRuns(u)
    BY <1>4 DEF CancelRuns
  <1>5. CASE Stops
    BY <1>5 DEF Stops
  <1> QED BY <1>1, <1>2, <1>3, <1>4, <1>5

LEMMA OneOpenStep ==
  ASSUME OneOpen, JobsClose
  PROVE  OneOpen'
  <1>1. \A x : T(x)' = T(x)
    BY DEF T
  <1> QED BY <1>1 DEF OneOpen, JobsClose

\* What a step of call r leaves alone, and where it can take the call.
LEMMA CallFrame ==
  ASSUME RunnerInv, NEW r \in Calls, RunnerCallStep(r)
  PROVE  /\ UNCHANGED <<cancel, chosen, phase>>
         /\ \A k \in Calls \ {r} : call'[k] = call[k]
         /\ \A t \in Threads : active'[t] \in {active[t], NoCall}
                                  \/ (active'[t] = r /\ call[r] = "spawning")
         /\ \A k \in Calls : <<"resume", k>> \in Waiting /\ (k # r \/ call'[r] = "lock") =>
               /\ <<"resume", k>> \in Waiting'
               /\ \A u \in Users : <<"cancel", u>> \in queue[<<"resume", k>>] =>
                                      <<"cancel", u>> \in queue'[<<"resume", k>>]
         /\ call[r] = "ended" => call'[r] = "ended"
         /\ call[r] # "none" => call'[r] # "none"
         /\ call[r] = "none" => StartResume(r)
         /\ call[r] = "lock" => call'[r] = "lock" \/ IsNext(<<"resume", r>>)
         /\ call[r] = "none" /\ Waiting # {} =>
               call'[r] = "lock" /\ <<"resume", r>> \in Waiting' /\ queue'[<<"resume", r>>] = Waiting
  <1>1. CASE StartResume(r)
    <2>1. call[r] = "none" /\ <<"resume", r>> \in LockTasks /\ T(r) \in Threads
          /\ <<"resume", r>> \notin Waiting
      BY <1>1, Threads_T DEF StartResume, LockTasks, RunnerInv, CallOK
    <2>2. CASE LockFree /\ ResumeSection(r) /\ UNCHANGED queue
      <3>1. Waiting = {}
        BY <2>2 DEF LockFree
      <3>2. \A k \in Calls \ {r} : call'[k] = call[k]
        BY <2>2 DEF ResumeSection, Ends, Goto, RunnerInv, TypeOK
      <3>3. call'[r] \in {"ended", "spawning"} /\ UNCHANGED <<active, cancel, chosen, phase>>
        BY <2>2 DEF ResumeSection, Ends, Goto, RunnerInv, TypeOK
      <3> QED BY <1>1, <2>1, <3>1, <3>2, <3>3
    <2>3. CASE /\ ~LockFree /\ Goto(r, "lock") /\ Wait(<<"resume", r>>)
               /\ UNCHANGED <<table, holder, out, process, cancel, chosen, phase>>
      <3>1. /\ Waiting' = Waiting \cup {<<"resume", r>>} /\ queue'[<<"resume", r>>] = Waiting
            /\ \A w \in Waiting \ {<<"resume", r>>} : queue'[w] = queue[w]
        BY <2>1, <2>3, WaitFacts DEF RunnerInv
      <3>2. call'[r] = "lock" /\ \A k \in Calls \ {r} : call'[k] = call[k]
        BY <2>3 DEF Goto, RunnerInv, TypeOK
      <3> QED BY <1>1, <2>1, <2>3, <3>1, <3>2 DEF table
    <2> QED BY <1>1, <2>2, <2>3 DEF StartResume
  <1>2. CASE EnterResume(r)
    <2>1. call[r] = "lock" /\ IsNext(<<"resume", r>>) /\ Leave({<<"resume", r>>})
      BY <1>2 DEF EnterResume, Woken, IsNext, RunnerInv, CallOK
    <2>2. /\ Waiting' = Waiting \ {<<"resume", r>>}
          /\ \A w \in Waiting' : queue'[w] = queue[w] \ {<<"resume", r>>}
      BY <2>1, LeaveFacts DEF RunnerInv
    <2>3. \A k \in Calls \ {r} : call'[k] = call[k]
      BY <1>2 DEF EnterResume, ResumeSection, Ends, Goto, RunnerInv, TypeOK
    <2>4. call'[r] \in {"ended", "spawning"} /\ UNCHANGED <<active, cancel, chosen, phase>>
      BY <1>2 DEF EnterResume, ResumeSection, Ends, Goto, RunnerInv, TypeOK
    <2> QED BY <2>1, <2>2, <2>3, <2>4
  <1>3. CASE EnterFinally(r)
    <2>1. call[r] = "final" /\ Leave({<<"final", r>>})
      BY <1>3 DEF EnterFinally, Woken, IsNext, RunnerInv, CallOK
    <2>2. /\ Waiting' = Waiting \ {<<"final", r>>}
          /\ \A w \in Waiting' : queue'[w] = queue[w] \ {<<"final", r>>}
      BY <2>1, LeaveFacts DEF RunnerInv
    <2>3. call'[r] = "ended" /\ \A k \in Calls \ {r} : call'[k] = call[k]
      BY <1>3 DEF EnterFinally, FinalSection, Ends, RunnerInv, TypeOK
    <2>4. UNCHANGED <<cancel, chosen, phase>> /\ active' = [active EXCEPT ![T(r)] = NoCall]
      BY <1>3 DEF EnterFinally, FinalSection, Untrack
    <2> QED BY <2>1, <2>2, <2>3, <2>4 DEF RunnerInv, TypeOK
  <1>4. CASE Finally(r)
    <2>1. call[r] \in {"draining", "unwinding"} /\ <<"final", r>> \in LockTasks
      BY <1>4 DEF Finally, LockTasks
    <2>2. call'[r] \in {"ended", "final"} /\ \A k \in Calls \ {r} : call'[k] = call[k]
      BY <1>4 DEF Finally, FinalSection, Ends, Goto, RunnerInv, TypeOK
    <2>3. /\ UNCHANGED <<cancel, chosen, phase>>
          /\ active' = [active EXCEPT ![T(r)] = NoCall] \/ active' = active
      BY <1>4 DEF Finally, FinalSection, Untrack, table
    <2>4. \A w \in Waiting \ {<<"final", r>>} : w \in Waiting' /\ queue'[w] = queue[w]
      <3>1. CASE UNCHANGED queue
        BY <3>1 DEF Waiting
      <3>2. CASE Wait(<<"final", r>>)
        BY <2>1, <3>2, WaitFacts DEF RunnerInv
      <3> QED BY <1>4, <3>1, <3>2 DEF Finally
    <2> QED BY <2>1, <2>2, <2>3, <2>4 DEF RunnerInv, TypeOK
  <1>5. CASE Spawned(r) \/ SpawnFails(r) \/ Reaped(r) \/ StdinBroken(r) \/ Alarm(r) \/ Exits(r)
    <2>1. UNCHANGED <<queue, cancel, chosen, phase>>
      BY <1>5 DEF Spawned, SpawnFails, Reaped, StdinBroken, Alarm, KillFor, KillsInterrupted,
                  Exits, lock
    <2>2. \A k \in Calls \ {r} : call'[k] = call[k]
      BY <1>5 DEF Spawned, SpawnFails, Reaped, StdinBroken, Alarm, KillFor, KillsInterrupted,
                  Exits, Goto, Ends, RunnerInv, TypeOK
    <2>3. \A t \in Threads : active'[t] = active[t] \/ (active'[t] = r /\ call[r] = "spawning")
      BY <1>5, Threads_T DEF Spawned, SpawnFails, Reaped, StdinBroken, Alarm, KillFor,
                  KillsInterrupted, Exits, table, RunnerInv, TypeOK
    <2>4. call'[r] = call[r] \/ (call[r] \notin {"none", "lock", "ended"} /\ call'[r] \notin {"none", "lock"})
      BY <1>5 DEF Spawned, SpawnFails, Reaped, StdinBroken, Alarm, KillFor, KillsInterrupted,
                  Exits, Goto, Ends, RunnerInv, TypeOK
    <2>5. call[r] # "none"
      BY <1>5 DEF Spawned, SpawnFails, Reaped, StdinBroken, Alarm, KillFor, KillsInterrupted,
                  Exits, RunnerInv, CallOK, Live
    <2> QED BY <2>1, <2>2, <2>3, <2>4, <2>5 DEF Waiting
  <1> QED BY <1>1, <1>2, <1>3, <1>4, <1>5 DEF RunnerCallStep, CallStep

LEMMA JobInitInv == Init => JobInv
  BY DEF Init, RunnerInit, JobInv, JobStatus, QueuedIdle, OneOpen, IsOpen, CancelSparesOpenJobs,
         Behind, Cancellers

\* The runner rests: a claim, a notify, a stutter.
LEMMA RestStep ==
  ASSUME RunnerInv, JobInv, [Next]_vars, UNCHANGED runnerVars
  PROVE  JobInv'
  <1>1. UNCHANGED <<call, active, cancel, chosen, queue>> /\ Waiting' = Waiting
        /\ chosen \in [Cancellers -> Calls \cup {NoCall}]
    BY DEF runnerVars, Waiting, RunnerInv, TypeOK
  <1>2. CASE UNCHANGED asked /\ JobsClose
    <2>1. QueuedIdle' /\ CancelSparesOpenJobs'
      BY <1>1, <1>2 DEF JobInv, QueuedIdle, CancelSparesOpenJobs, JobsClose, Cancellers
    <2>2. \A u \in Users, k \in Calls : Behind(u, k)'
      BY <1>1, <1>2 DEF JobInv, Behind, JobsClose, T
    <2>3. OneOpen'
      BY <1>2, OneOpenStep DEF JobInv
    <2> QED BY <1>2, <2>1, <2>2, <2>3 DEF JobInv, JobsClose
  <1>3. ASSUME NEW j \in Calls, Claim(j) PROVE JobInv'
    <2>1. /\ job[j] = "QUEUED" /\ \A k \in Calls : T(k) = T(j) => ~IsOpen(k)
          /\ job' = [job EXCEPT ![j] = "DISPATCHED"] /\ asked' = asked
          /\ job \in [Calls -> JobStatus] /\ asked \in [Users -> Calls \cup {NoCall}]
      BY <1>3 DEF Claim, IsOpen, JobInv
    <2>2. call[j] = "none"
      BY <2>1 DEF JobInv, QueuedIdle
    <2>3. active[T(j)] # j /\ \A u \in Users : chosen[u] # j
      <3>1. T(j) \in Threads /\ j # NoCall /\ ThreadOK(T(j)) /\ \A u \in Users : CancelOK(u)
        BY Threads_T, RunnerAssumption DEF RunnerInv, Cancellers
      <3> QED BY <2>2, <3>1 DEF ThreadOK, CancelOK, Tracked, Live
    <2>4. \A k \in Calls : IsOpen(k)' <=> IsOpen(k) \/ k = j
      BY <2>1 DEF IsOpen
    <2>5. QueuedIdle'
      BY <1>1, <2>1 DEF JobInv, QueuedIdle
    <2>6. OneOpen'
      BY <2>1, <2>4 DEF JobInv, OneOpen, T
    <2>7. CancelSparesOpenJobs'
      BY <1>1, <2>1, <2>3, <2>4 DEF JobInv, CancelSparesOpenJobs, Cancellers
    <2>8. ASSUME NEW u \in Users, NEW k \in Calls PROVE Behind(u, k)'
      <3>1. CASE k = j
        BY <1>1, <2>2, <2>3, <3>1 DEF Behind, T
      <3>2. CASE k # j
        BY <1>1, <2>1, <2>4, <3>2 DEF JobInv, Behind, T
      <3> QED BY <3>1, <3>2
    <2>9. job' \in [Calls -> JobStatus]
      BY <2>1 DEF JobStatus
    <2> QED BY <2>1, <2>5, <2>6, <2>7, <2>8, <2>9 DEF JobInv
  <1>4. CASE UNCHANGED asked /\ ~ \E j \in Calls : Claim(j)
    <2>1. JobsClose
      BY <1>4, JobsCloseFacts DEF JobInv, Next, vars
    <2> QED BY <1>2, <1>4, <2>1
  <1>5. CASE \E j \in Calls : Claim(j)
    BY <1>3, <1>5
  <1>6. CASE asked' # asked
    <2>1. PICK u \in Users : AskCancel(u)
      BY <1>6 DEF Next, vars, Claim, Notified, Runs, CancelRuns, Stops
    <2>2. cancel' # cancel
      BY <2>1 DEF AskCancel, StartCancel, CancelSection, Answer, RunnerInv, TypeOK, Cancellers
    <2> QED BY <1>1, <2>2
  <1> QED BY <1>4, <1>5, <1>6

LEMMA RunsStep ==
  ASSUME RunnerInv, JobInv, NEW r \in Calls, Runs(r), RunnerCallStep(r)
  PROVE  JobInv'
  <1>1. JobsClose /\ asked' = asked
    BY JobsCloseFacts DEF JobInv, Runs
  <1>2. /\ UNCHANGED <<cancel, chosen, phase>>
        /\ chosen \in [Cancellers -> Calls \cup {NoCall}]
        /\ \A k \in Calls \ {r} : call'[k] = call[k]
        /\ \A t \in Threads : active'[t] \in {active[t], NoCall}
                                 \/ (active'[t] = r /\ call[r] = "spawning")
    BY CallFrame DEF RunnerInv, TypeOK
  <1>3. OneOpen'
    BY <1>1, OneOpenStep DEF JobInv
  <1>4. QueuedIdle'
    <2>1. job[r] = "QUEUED" => call[r] = "none" /\ ~StartResume(r)
      <3>1. ASSUME job[r] = "QUEUED", StartResume(r), call[r] = "none" PROVE FALSE
        <4>1. call'[r] # "none"
          BY <3>1 DEF StartResume, ResumeSection, Goto, Ends, RunnerInv, TypeOK
        <4>2. CallStep(r) \/ StdinBroken(r) \/ Alarm(r) \/ Exits(r)
          BY <3>1 DEF Runs
        <4>3. call[r] # "none"
          BY <4>2 DEF CallStep, EnterResume, Woken, IsNext, Spawned, SpawnFails, Reaped,
                  Finally, EnterFinally, StdinBroken, Alarm, KillFor, KillsInterrupted, Exits,
                  RunnerInv, CallOK, Live
        <4> QED BY <3>1, <4>3
      <3>2. job[r] = "QUEUED" => call[r] = "none"
        BY DEF JobInv, QueuedIdle
      <3> QED BY <3>1, <3>2
    <2>2. job[r] # "QUEUED"
      BY <2>1, CallFrame
    <2> QED BY <1>1, <1>2, <2>2 DEF JobInv, JobsClose, QueuedIdle
  <1>5. CancelSparesOpenJobs'
    BY <1>1, <1>2 DEF JobInv, CancelSparesOpenJobs, JobsClose, Cancellers
  <1>6. ASSUME NEW u \in Users, NEW k \in Calls PROVE Behind(u, k)'
    <2>1. SUFFICES ASSUME cancel[u] = "lock", k # asked[u], T(k) = T(u), IsOpen(k)
                   PROVE  /\ call'[k] \in {"none", "lock", "ended"} /\ active'[T(k)] # k
                          /\ call'[k] = "lock" =>
                                /\ <<"resume", k>> \in Waiting'
                                /\ <<"cancel", u>> \in queue'[<<"resume", k>>]
      BY <1>1, <1>2 DEF Behind, JobsClose, T
    <2>2. /\ call[k] \in {"none", "lock", "ended"} /\ active[T(k)] # k
          /\ call[k] = "lock" => /\ <<"resume", k>> \in Waiting
                                 /\ <<"cancel", u>> \in queue[<<"resume", k>>]
      BY <2>1 DEF JobInv, Behind
    <2>3. T(k) \in Threads /\ k # NoCall /\ <<"cancel", u>> \in Waiting
      BY <2>1, Threads_T, RunnerAssumption DEF RunnerInv, CancelOK, Cancellers
    <2>4. active'[T(k)] # k
      BY <1>2, <2>2, <2>3
    <2>5. CASE k # r
      <3>1. call[k] = "lock" => /\ <<"resume", k>> \in Waiting'
                                /\ <<"cancel", u>> \in queue'[<<"resume", k>>]
        BY <2>2, <2>5, CallFrame
      <3> QED BY <1>2, <2>2, <2>4, <2>5, <3>1
    <2>6. CASE k = r
      <3>1. CASE call[r] = "none"
        BY <2>3, <2>4, <2>6, <3>1, CallFrame
      <3>2. CASE call[r] = "lock"
        <4>1. ~IsNext(<<"resume", r>>)
          BY <2>2, <2>6, <3>2 DEF IsNext
        <4>2. call'[r] = "lock"
          BY <3>2, <4>1, CallFrame
        <4> QED BY <2>2, <2>4, <2>6, <3>2, <4>2, CallFrame
      <3>3. CASE call[r] = "ended"
        BY <2>4, <2>6, <3>3, CallFrame
      <3> QED BY <2>2, <2>6, <3>1, <3>2, <3>3
    <2> QED BY <2>5, <2>6
  <1> QED BY <1>1, <1>3, <1>4, <1>5, <1>6 DEF JobInv, JobsClose

\* What a step of canceller x leaves alone, and what it can choose.
LEMMA CancelFrame ==
  ASSUME RunnerInv, NEW x \in Cancellers, RunnerCancelStep(x)
  PROVE  /\ UNCHANGED <<call, active>>
         /\ \A y \in Cancellers \ {x} : cancel'[y] = cancel[y] /\ chosen'[y] = chosen[y]
         /\ cancel'[x] = "lock" => cancel[x] \in {"none", "asked"}
         /\ chosen'[x] \in {chosen[x], active[T(x)]}
         /\ chosen'[x] = chosen[x] \/ cancel[x] \in {"none", "asked", "lock"}
         /\ \A k \in Calls : <<"resume", k>> \in Waiting =>
               /\ <<"resume", k>> \in Waiting'
               /\ \A u \in Cancellers \ {x} :
                     <<"cancel", u>> \in queue[<<"resume", k>>] =>
                        <<"cancel", u>> \in queue'[<<"resume", k>>]
  <1>1. CASE CancelKills(x) \/ CancelReturns(x)
    BY <1>1 DEF CancelKills, CancelReturns, Answer, table, lock, RunnerInv, TypeOK, Waiting
  <1>2. CASE EnterCancel(x)
    <2>1. cancel[x] = "lock" /\ Leave({<<"cancel", x>>})
      BY <1>2 DEF EnterCancel, Woken, IsNext, RunnerInv, CancelOK
    <2>2. /\ Waiting' = Waiting \ {<<"cancel", x>>}
          /\ \A w \in Waiting' : queue'[w] = queue[w] \ {<<"cancel", x>>}
      BY <2>1, LeaveFacts DEF RunnerInv
    <2>3. /\ UNCHANGED <<call, active>> /\ cancel'[x] \in {"false", "waiting"}
          /\ \A y \in Cancellers \ {x} : cancel'[y] = cancel[y] /\ chosen'[y] = chosen[y]
          /\ chosen'[x] \in {chosen[x], active[T(x)]}
      BY <1>2 DEF EnterCancel, CancelSection, Answer, RunnerInv, TypeOK
    <2> QED BY <2>1, <2>2, <2>3
  <1>3. CASE StartCancel(x)
    <2>1. cancel[x] \in {"none", "asked"} /\ <<"cancel", x>> \in LockTasks
      BY <1>3 DEF StartCancel, LockTasks
    <2>2. /\ UNCHANGED <<call, active>>
          /\ \A y \in Cancellers \ {x} : cancel'[y] = cancel[y] /\ chosen'[y] = chosen[y]
          /\ chosen'[x] \in {chosen[x], active[T(x)]}
      BY <1>3 DEF StartCancel, CancelSection, Answer, table, RunnerInv, TypeOK
    <2>3. \A w \in Waiting \ {<<"cancel", x>>} : w \in Waiting' /\ queue'[w] = queue[w]
      <3>1. CASE UNCHANGED queue
        BY <3>1 DEF Waiting
      <3>2. CASE Wait(<<"cancel", x>>)
        BY <2>1, <3>2, WaitFacts DEF RunnerInv
      <3> QED BY <1>3, <3>1, <3>2 DEF StartCancel
    <2> QED BY <2>1, <2>2, <2>3
  <1> QED BY <1>1, <1>2, <1>3 DEF RunnerCancelStep, CancelStep

\* A canceller chooses the job it is about, or one that is not open.
LEMMA CancelStepJobs ==
  ASSUME RunnerInv, JobInv, NEW x \in Cancellers, RunnerCancelStep(x),
         \/ x \in Users /\ (AskCancel(x) \/ CancelRuns(x))
         \/ x \in Threads /\ UNCHANGED <<job, asked>>
  PROVE  JobInv'
  <1>1. JobsClose
    BY JobsCloseFacts DEF JobInv
  <1>2. OneOpen'
    BY <1>1, OneOpenStep DEF JobInv
  <1>3. QueuedIdle'
    BY <1>1, CancelFrame DEF JobInv, JobsClose, QueuedIdle
  <1>4. chosen \in [Cancellers -> Calls \cup {NoCall}] /\ UNCHANGED <<call, active>>
        /\ NoCall \notin Calls /\ Users \subseteq Cancellers
    BY CancelFrame, RunnerAssumption DEF RunnerInv, TypeOK, Cancellers
  <1>5. /\ asked' \in [Users -> Calls \cup {NoCall}]
        /\ \A u \in Users : u # x => asked'[u] = asked[u]
        /\ x \in Users => \/ asked'[x] = asked[x]
                          \/ /\ asked'[x] \in Calls /\ IsOpen(asked'[x])
                             /\ T(asked'[x]) = T(x) /\ AskCancel(x)
    BY DEF AskCancel, CancelRuns, JobInv
  <1>6. AskCancel(x) => cancel[x] \in {"none", "asked"}
    BY DEF AskCancel, StartCancel
  <1>7. ASSUME NEW u \in Users, chosen'[u] \in Calls \ {asked'[u]} 
        PROVE  job'[chosen'[u]] # "DISPATCHED"
    <2>1. SUFFICES ASSUME IsOpen(chosen'[u]) PROVE FALSE
      BY <1>1, <1>7 DEF JobsClose, IsOpen
    <2>2. CASE u # x
      BY <1>4, <1>5, <1>7, <2>1, <2>2, CancelFrame DEF JobInv, CancelSparesOpenJobs
    <2>3. CASE u = x /\ AskCancel(x) /\ IsOpen(asked'[x]) /\ T(asked'[x]) = T(x)
               /\ asked'[x] \in Calls
      <3>1. chosen[x] = NoCall
        BY <1>6, <2>3 DEF RunnerInv, CancelOK
      <3>2. chosen'[x] = active[T(x)] /\ active[T(x)] # NoCall
        BY <1>4, <1>7, <2>3, <3>1, CancelFrame
      <3>3. T(chosen'[x]) = T(x)
        BY <3>2, Threads_T DEF RunnerInv, ThreadOK
      <3> QED BY <1>7, <2>1, <2>3, <3>3 DEF JobInv, OneOpen
    <2>4. CASE u = x /\ asked'[x] = asked[x]
      <3>1. CASE chosen'[x] = chosen[x]
        BY <1>4, <1>7, <2>1, <2>4, <3>1 DEF JobInv, CancelSparesOpenJobs
      <3>2. CASE chosen'[x] # chosen[x]
        <4>1. chosen'[x] = active[T(x)] /\ T(x) \in Threads
              /\ cancel[x] \in {"none", "asked", "lock"}
          BY <3>2, Threads_T, CancelFrame
        <4>2. T(chosen'[x]) = T(x)
          BY <1>4, <1>7, <2>4, <4>1 DEF RunnerInv, ThreadOK
        <4>3. CASE cancel[x] = "lock"
          BY <1>7, <2>1, <2>4, <4>1, <4>2, <4>3 DEF JobInv, Behind
        <4>4. CASE cancel[x] \in {"none", "asked"}
          <5>1. AskCancel(x)
            <6>1. ~CancelStep(x)
              BY <4>4 DEF CancelStep, EnterCancel, Woken, IsNext, CancelKills, CancelReturns,
                          RunnerInv, CancelOK
            <6> QED BY <2>4, <6>1, RunnerAssumption DEF CancelRuns
          <5>2. asked'[x] \in Calls /\ IsOpen(asked'[x]) /\ T(asked'[x]) = T(x)
            BY <5>1, <2>4 DEF AskCancel, JobInv
          <5> QED BY <1>7, <2>1, <2>4, <4>2, <5>2 DEF JobInv, OneOpen
        <4> QED BY <4>1, <4>3, <4>4
      <3> QED BY <3>1, <3>2
    <2> QED BY <1>5, <2>2, <2>3, <2>4
  <1>8. ASSUME NEW u \in Users, NEW k \in Calls PROVE Behind(u, k)'
    <2>1. SUFFICES ASSUME cancel'[u] = "lock", k # asked'[u], T(k) = T(u), IsOpen(k)
                   PROVE  /\ call[k] \in {"none", "lock", "ended"} /\ active[T(k)] # k
                          /\ call[k] = "lock" =>
                                /\ <<"resume", k>> \in Waiting'
                                /\ <<"cancel", u>> \in queue'[<<"resume", k>>]
      BY <1>1, <1>4 DEF Behind, JobsClose, T
    <2>2. CASE u # x
      <3>1. Behind(u, k) /\ cancel[u] = "lock" /\ k # asked[u]
        BY <1>4, <1>5, <2>1, <2>2, CancelFrame DEF JobInv
      <3>2. u \in Cancellers \ {x}
        BY <1>4, <2>2
      <3> QED BY <2>1, <3>1, <3>2, CancelFrame DEF Behind
    <2>3. CASE u = x
      <3>1. AskCancel(x)
        <4>1. cancel[x] \in {"none", "asked"}
          BY <2>1, <2>3, CancelFrame
        <4>2. ~CancelStep(x)
          BY <4>1 DEF CancelStep, EnterCancel, Woken, IsNext, CancelKills, CancelReturns,
                      RunnerInv, CancelOK
        <4> QED BY <2>3, <4>2, RunnerAssumption DEF CancelRuns
      <3>2. asked'[x] \in Calls /\ IsOpen(asked'[x]) /\ T(asked'[x]) = T(x)
        BY <2>3, <3>1 DEF AskCancel, JobInv
      <3> QED BY <2>1, <2>3, <3>2 DEF JobInv, OneOpen
    <2> QED BY <2>2, <2>3
  <1>9. CancelSparesOpenJobs'
    BY <1>7 DEF CancelSparesOpenJobs, IsOpen
  <1> QED BY <1>1, <1>2, <1>3, <1>5, <1>8, <1>9 DEF JobInv, JobsClose

\* A stop lets nothing new start: it interrupts calls and gives up what waits.
LEMMA StopStepJobs ==
  ASSUME RunnerInv, JobInv, Stops, RunnerStopStep
  PROVE  JobInv'
  <1>1. JobsClose /\ asked' = asked
    BY JobsCloseFacts DEF JobInv, Stops
  <1>2. OneOpen'
    BY <1>1, OneOpenStep DEF JobInv
  <1>3. UNCHANGED <<chosen, active>> /\ chosen \in [Cancellers -> Calls \cup {NoCall}]
    BY DEF RunnerStopStep, BeginStop, Close, Closed, BeginExit, Gone, Interrupt, table,
           RunnerInv, TypeOK
  <1>4. \A k \in Calls : call'[k] = call[k] \/ (call[k] # "none" /\ call'[k] \notin {"none", "lock"})
    BY DEF RunnerStopStep, BeginStop, Close, Closed, BeginExit, Gone, Interrupt, RunnerInv, TypeOK
  <1>5. \A k \in Calls : call[k] \in {"none", "lock", "ended"} => call'[k] \in {"none", "lock", "ended"}
    BY DEF RunnerStopStep, BeginStop, Close, Closed, BeginExit, Gone, Interrupt, RunnerInv, TypeOK
  <1>6. QueuedIdle'
    BY <1>1, <1>4 DEF JobInv, JobsClose, QueuedIdle
  <1>7. CancelSparesOpenJobs'
    BY <1>1, <1>3 DEF JobInv, CancelSparesOpenJobs, JobsClose, Cancellers
  <1>8. ASSUME NEW u \in Users, NEW k \in Calls PROVE Behind(u, k)'
    <2>1. SUFFICES ASSUME cancel'[u] = "lock", k # asked[u], T(k) = T(u), IsOpen(k)
                   PROVE  /\ call'[k] \in {"none", "lock", "ended"} /\ active[T(k)] # k
                          /\ call'[k] = "lock" =>
                                /\ <<"resume", k>> \in Waiting'
                                /\ <<"cancel", u>> \in queue'[<<"resume", k>>]
      BY <1>1, <1>3 DEF Behind, JobsClose, T
    <2>2. cancel[u] = "lock" /\ ~BeginExit
      BY <2>1, RunnerAssumption DEF RunnerStopStep, BeginStop, Close, Closed, BeginExit, Gone,
            Cancellers, RunnerInv, TypeOK, CancelEnded
    <2>3. /\ call[k] \in {"none", "lock", "ended"} /\ active[T(k)] # k
          /\ call[k] = "lock" => /\ <<"resume", k>> \in Waiting
                                 /\ <<"cancel", u>> \in queue[<<"resume", k>>]
      BY <2>1, <2>2 DEF JobInv, Behind
    <2>4. ASSUME call'[k] = "lock"
          PROVE  <<"resume", k>> \in Waiting' /\ <<"cancel", u>> \in queue'[<<"resume", k>>]
      <3>1. call[k] = "lock"
        BY <1>4, <2>4
      <3>2. CASE BeginStop
        <4>1. k \notin Background
          BY <2>4, <3>1, <3>2 DEF BeginStop, Interrupt
        <4>2. /\ Waiting' = Waiting \ ({"resume", "final"} \X Background)
              /\ \A w \in Waiting' : queue'[w] = queue[w] \ ({"resume", "final"} \X Background)
          BY <3>2, LeaveFacts DEF BeginStop, RunnerInv
        <4> QED BY <2>3, <3>1, <4>1, <4>2
      <3>3. CASE Close \/ Closed \/ Gone
        BY <2>3, <3>1, <3>3 DEF Close, Closed, Gone, lock, Waiting
      <3> QED BY <2>2, <3>2, <3>3 DEF RunnerStopStep
    <2> QED BY <1>5, <2>3, <2>4
  <1> QED BY <1>1, <1>2, <1>6, <1>7, <1>8 DEF JobInv, JobsClose

LEMMA JobStep ==
  ASSUME RunnerInv, JobInv, [Next]_vars
  PROVE  JobInv'
  <1>1. CASE UNCHANGED runnerVars
    BY <1>1, RestStep
  <1>2. CASE \E j \in Calls : Runs(j) /\ RunnerCallStep(j)
    BY <1>2, RunsStep
  <1>3. CASE \E u \in Users : (AskCancel(u) \/ CancelRuns(u)) /\ RunnerCancelStep(u)
    BY <1>3, CancelStepJobs DEF Cancellers
  <1>4. CASE \E t \in Threads : RunnerCancelStep(t) /\ UNCHANGED <<job, asked>>
    BY <1>4, CancelStepJobs DEF Cancellers
  <1>5. CASE Stops /\ RunnerStopStep
    BY <1>5, StopStepJobs
  <1> QED BY <1>1, <1>2, <1>3, <1>4, <1>5, StepKinds

-----------------------------------------------------------------------------
(* The theorems.                                                            *)

LEMMA Inductive == CancelSpec => [](RunnerInv /\ JobInv)
  <1>1. Init => RunnerInv /\ JobInv
    BY RunnerInitInv, JobInitInv DEF Init
  <1>2. RunnerInv /\ JobInv /\ [Next]_vars => RunnerInv' /\ JobInv'
    BY RunnerStep, JobStep
  <1> QED BY <1>1, <1>2, PTL DEF CancelSpec

\* Every variable of the runner and of the job rows keeps its type.
THEOREM TypesKept == CancelSpec => []CancelTypeOK
  <1>1. RunnerInv /\ JobInv => CancelTypeOK
    BY DEF RunnerInv, JobInv, CancelTypeOK
  <1> QED BY <1>1, Inductive, PTL

\* managed_runner.py: a cancellation works on the process it was asked for.  The table
\* names every live process; a call reports "cancelled" only if a canceller chose it, and
\* never an exit of its own if one did; cancel answers True only after the exit.
THEOREM CancelReachesItsProcess == CancelSpec => []CancelHitsItsProcess
  <1>1. RunnerInv => CancelHitsItsProcess
    <2> SUFFICES ASSUME RunnerInv PROVE CancelHitsItsProcess
      OBVIOUS
    <2>1. \A r \in Calls : proc[r] = "alive" => active[T(r)] = r
      BY DEF RunnerInv, CallOK, Tracked
    <2>2. \A r \in Calls : out[r] = "cancelled" => \E x \in Cancellers : chosen[x] = r
      BY DEF RunnerInv, CallOK
    <2>3. \A x \in Cancellers : /\ chosen[x] # NoCall => out[chosen[x]] # "exit"
                                /\ cancel[x] = "true" => proc[chosen[x]] = "exited"
      BY DEF RunnerInv, CancelOK
    <2> QED BY <2>1, <2>2, <2>3 DEF CancelHitsItsProcess
  <1> QED BY <1>1, Inductive, PTL

\* job_manager.py cancel_text: /cancel of one job never terminates the process of
\* another job that is still open, although it names only the thread and waits for the
\* runner's lock after it has read the row.
THEOREM OthersAreSpared == CancelSpec => []CancelSparesOpenJobs
  <1>1. JobInv => CancelSparesOpenJobs
    BY DEF JobInv
  <1> QED BY <1>1, Inductive, PTL

\* job_manager.py shutdown, managed_runner.py close and the end of asyncio.run: once the
\* service has stopped, no process it has started is alive.
THEOREM StopLeavesNothing == CancelSpec => []NothingOutlivesTheService
  <1>1. RunnerInv => NothingOutlivesTheService
    BY DEF RunnerInv, CallOK, PhaseOK, Live, NothingOutlivesTheService
  <1> QED BY <1>1, Inductive, PTL
=============================================================================
