------------------------------- MODULE Service ------------------------------
(***************************************************************************)
(* Processes of the service on one host: run_service                       *)
(* (src/codex_dispatch/main.py) around the start and the end of the notify *)
(* server (notify_server.py), with the socket file, the row of one MANAGED *)
(* job and its Codex process.                                              *)
(*                                                                         *)
(* The order at the start is: recover the jobs, check Codex, take the      *)
(* socket; at the end: stop the jobs, stop to listen, remove the socket.   *)
(* systemd runs one process; an operator may start a second one by hand: a *)
(* careful one does not do so, or stop one, while the other is starting or *)
(* stopping.                                                               *)
(***************************************************************************)
EXTENDS Integers, FiniteSets

CONSTANTS
    Instances,   \* processes of the service
    Supervised,  \* those systemd starts again
    Sockets,     \* socket files (inodes)
    None,
    MaxFaults    \* bound: stops, crashes, failed checks of Codex, starts by hand

ASSUME ServiceAssumption ==
    /\ MaxFaults \in Nat
    /\ Supervised \subseteq Instances /\ IsFiniteSet(Instances) /\ IsFiniteSet(Sockets)
    /\ \A i, k \in Supervised : i = k  \* the unit of systemd is no template
    /\ Cardinality(Sockets) > Cardinality(Instances)
    /\ None \notin Instances \cup Sockets

VARIABLES
    operator,  \* "absent", "careful" or "careless"
    pc,        \* where each process is
    path,      \* the file at notify_socket_path
    listener,  \* who listens on each socket
    bound,     \* the socket each process has made
    job,       \* the row of the job
    child,     \* the service process whose child works on the job
    faults     \* ghost

socketVars == <<path, listener, bound>>
jobVars == <<job, child>>
serviceVars == <<operator, pc, socketVars, jobVars, faults>>

Starting == {"verifying", "probing", "stale", "binding", "bound"}
Ending == {"closing", "cleanup"}

ServiceTypeOK == /\ operator \in {"absent", "careful", "careless"}
                 /\ pc \in [Instances -> {"off", "up"} \cup Starting \cup Ending]
                 /\ path \in Sockets \cup {None}
                 /\ listener \in [Sockets -> Instances \cup {None}]
                 /\ bound \in [Instances -> Sockets \cup {None}]
                 /\ job \in {"none", "DISPATCHED", "COMPLETED", "FAILED"}
                 /\ child \in Instances \cup {None}
                 /\ faults \in 0..MaxFaults

ServiceInit == /\ operator \in {"absent", "careful", "careless"}
               /\ pc = [i \in Instances |-> "off"]
               /\ path = None
               /\ listener = [s \in Sockets |-> None]
               /\ bound = [i \in Instances |-> None]
               /\ job = "none" /\ child = None /\ faults = 0

Fault == faults < MaxFaults /\ faults' = faults + 1

Go(i, where) == pc' = [pc EXCEPT ![i] = where]

\* The others are at rest.
Quiet(i) == operator = "careless" \/ \A k \in Instances \ {i} : pc[k] \in {"off", "up"}

\* The process ends: nobody listens on its socket, and its child has been killed with
\* its group.
Gone(i) == /\ Go(i, "off")
           /\ bound' = [bound EXCEPT ![i] = None]
           /\ listener' = [s \in Sockets |-> IF listener[s] = i THEN None ELSE listener[s]]

-----------------------------------------------------------------------------
(* The start.                                                               *)

\* recover_job_session_state: a dispatched MANAGED job has lost its process.
Recovered == IF job = "DISPATCHED" THEN "FAILED" ELSE job

Start(i) == /\ pc[i] = "off" /\ Quiet(i)
            /\ IF i \in Supervised THEN UNCHANGED faults ELSE operator # "absent" /\ Fault
            /\ Go(i, "verifying")
            /\ job' = Recovered
            /\ UNCHANGED <<operator, socketVars, child>>

\* verify_capability of both runners.
Verify(i) == /\ pc[i] = "verifying"
             /\ UNCHANGED <<operator, jobVars>>
             /\ \/ Go(i, "probing") /\ UNCHANGED <<socketVars, faults>>
                \/ Fault /\ Gone(i) /\ UNCHANGED path

\* mutant: whatever is there is in use
ActiveIfThere == path # None

\* mutant: whatever is there is stale
NeverActive == FALSE

\* The connection of the probe is accepted.
Active == path # None /\ listener[path] # None

\* NotifyServer.start: nothing there, a socket in use, or a stale one.
Probe(i) == /\ pc[i] = "probing"
            /\ UNCHANGED <<operator, path, jobVars, faults>>
            /\ \/ path = None /\ Go(i, "binding") /\ UNCHANGED <<listener, bound>>
               \/ Active /\ Gone(i)
               \/ path # None /\ ~Active /\ Go(i, "stale") /\ UNCHANGED <<listener, bound>>

\* The stale file is removed by name; it may have gone.
Unlink(i) == /\ pc[i] = "stale"
             /\ UNCHANGED <<operator, jobVars, faults>>
             /\ \/ path = None /\ Gone(i) /\ UNCHANGED path
                \/ path # None /\ path' = None /\ Go(i, "binding")
                   /\ UNCHANGED <<listener, bound>>

\* asyncio removes a socket that is in its way and binds a new one.
Bind(i) == /\ pc[i] = "binding"
           /\ \E s \in Sockets \ ({path} \cup {bound[k] : k \in Instances}) :
                 path' = s /\ bound' = [bound EXCEPT ![i] = s]
           /\ Go(i, "bound")
           /\ UNCHANGED <<operator, listener, jobVars, faults>>

\* It listens, and the mode of the file is set, if there is one.
Listen(i) == /\ pc[i] = "bound"
             /\ UNCHANGED <<operator, path, jobVars, faults>>
             /\ \/ path # None /\ Go(i, "up") /\ UNCHANGED bound
                   /\ listener' = [listener EXCEPT ![bound[i]] = i]
                \/ path = None /\ Gone(i)

-----------------------------------------------------------------------------
(* The work, the end.                                                       *)

\* A MANAGED job is claimed and its Codex process started.
Dispatch(i) == /\ pc[i] = "up" /\ job # "DISPATCHED" /\ child = None
               /\ job' = "DISPATCHED" /\ child' = i
               /\ UNCHANGED <<operator, pc, socketVars, faults>>

\* Its process ends: an error fails the job, a good end waits for the notify.
JobEnds(i) == /\ pc[i] = "up" /\ child = i
              /\ child' = None
              /\ job' \in {job} \cup (IF job = "DISPATCHED" THEN {"FAILED"} ELSE {})
              /\ UNCHANGED <<operator, pc, socketVars, faults>>

\* The notify of the turn, which may be one of before.
Completes(i) == /\ pc[i] = "up" /\ job = "DISPATCHED"
                /\ job' = "COMPLETED"
                /\ UNCHANGED <<operator, pc, socketVars, child, faults>>

\* mutant: the child is left running
LeaveChild(i) == child

KillChild(i) == IF child = i THEN None ELSE child

\* SIGTERM: job_manager.shutdown ends the process and fails the job.
Stop(i) == /\ pc[i] = "up" /\ Quiet(i) /\ Fault
           /\ Go(i, "closing")
           /\ job' = IF child = i /\ job = "DISPATCHED" THEN "FAILED" ELSE job
           /\ child' = KillChild(i)
           /\ UNCHANGED <<operator, socketVars>>

CloseServer(i) == /\ pc[i] = "closing"
                  /\ Go(i, "cleanup")
                  /\ listener' = [listener EXCEPT ![bound[i]] = None]
                  /\ UNCHANGED <<operator, path, bound, jobVars, faults>>

\* The file is removed by name, whoever has made it.
Cleanup(i) == /\ pc[i] = "cleanup"
              /\ Gone(i) /\ path' = None
              /\ UNCHANGED <<operator, jobVars, faults>>

\* SIGKILL, the out-of-memory killer, a reboot: nothing is cleaned up.
Crash(i) == /\ pc[i] # "off" /\ Fault
            /\ Gone(i) /\ child' = KillChild(i)
            /\ UNCHANGED <<operator, path, job>>

-----------------------------------------------------------------------------
Step(i) == \/ Verify(i) \/ Probe(i) \/ Unlink(i) \/ Bind(i) \/ Listen(i)
           \/ CloseServer(i) \/ Cleanup(i)

ServiceNext == \E i \in Instances : \/ Start(i) \/ Step(i) \/ Stop(i) \/ Crash(i)
                                      \/ Dispatch(i) \/ JobEnds(i) \/ Completes(i)

ServiceSpec == ServiceInit /\ [][ServiceNext]_serviceVars

\* systemd starts its process again; one that starts or ends goes on.
ServiceFairness == /\ \A i \in Instances : WF_serviceVars(Step(i))
                   /\ \A i \in Supervised : WF_serviceVars(Start(i))

-----------------------------------------------------------------------------
(* Properties.                                                              *)

\* The senders reach the process that serves: the file at the path is its socket, and no
\* start or end of another takes it away (docs/notify-bridge.md:171).  A careless operator
\* can: between the probe of one and its bind the other may have come up.
ServingIsReachable ==
    operator # "careless" =>
        \A i \in Instances : pc[i] = "up" => path = bound[i] /\ listener[path] = i

\* A job is failed when its process has ended, never over its head: the next job of the
\* thread may start.  A second process, whose start recovers the jobs before it looks for
\* the first, breaks this.
FailedHasEnded == operator = "absent" /\ job = "FAILED" => child = None

\* However often it is stopped or killed, the service comes back and can be reached.  With
\* starts by hand that overlap its own in any way somebody serves in the end, though it
\* may be at a socket that nobody can find.
Serving == \E i \in Instances : /\ pc[i] = "up"
                                /\ operator # "careless" => path = bound[i]
ComesBack == <>[]Serving
=============================================================================
