------------------------------ MODULE JobQueue ------------------------------
(***************************************************************************)
(* What the job queue promises its users, whatever coroutines, processes,  *)
(* notifies and crashes it is made of: a message becomes a job once, a job *)
(* moves forward only, a session has at most one active job, auto-run takes *)
(* the oldest waiting job when the active one ends, and a prompt is given  *)
(* to Codex at most once and never before its job has been claimed.        *)
(* (docs/job-queue.md, docs/auto-run.md)                                   *)
(***************************************************************************)
EXTENDS Deployment

VARIABLES
    state,  \* where each job stands
    given   \* how often its prompt was given to Codex

InState(s, st) == {j \in Jobs : Thread[j] = s /\ state[j] = st}

Init == /\ state = [j \in Jobs |-> "absent"]
        /\ given = [j \in Jobs |-> 0]

\* A message is stored as a job.
Accept(k) == /\ state[k] = "absent"
             /\ state' = [state EXCEPT ![k] = "waiting"]
             /\ UNCHANGED given

\* A waiting job, or the job of a message that finds its session free, is claimed.
Claim(j) == /\ state[j] \in {"absent", "waiting"}
            /\ InState(Thread[j], "active") = {}
            /\ state' = [state EXCEPT ![j] = "active"]
            /\ UNCHANGED given

\* A waiting job is cancelled.
Cancel(j) == /\ state[j] = "waiting"
             /\ state' = [state EXCEPT ![j] = "ended"]
             /\ UNCHANGED given

\* Active jobs end; several at once when the service stops or recovers.
End(J) == /\ J # {} /\ \A j \in J : state[j] = "active"
          /\ state' = [j \in Jobs |-> IF j \in J THEN "ended" ELSE state[j]]
          /\ UNCHANGED given

\* Auto-run: one job ends and the oldest waiting job of its session takes over.
HandOver(i, j) == /\ state[i] = "active"
                  /\ j \in InState(Thread[i], "waiting")
                  /\ \A k \in InState(Thread[i], "waiting") : j <= k
                  /\ state' = [state EXCEPT ![i] = "ended", ![j] = "active"]
                  /\ UNCHANGED given

\* The prompt is given to Codex; a stray notify may have closed the job by then.
Give(j) == /\ state[j] \in {"active", "ended"} /\ given[j] = 0
           /\ given' = [given EXCEPT ![j] = 1]
           /\ UNCHANGED state

Next == \/ \E j \in Jobs : Accept(j) \/ Claim(j) \/ Cancel(j) \/ Give(j)
        \/ \E J \in SUBSET Jobs : End(J)
        \/ \E i, j \in Jobs : HandOver(i, j)

Spec == Init /\ [][Next]_<<state, given>>
=============================================================================
