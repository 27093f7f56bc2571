----------------------------- MODULE Host_proofs ----------------------------
(***************************************************************************)
(* The safety properties of the service on its host (Service), of the hook *)
(* of the Codex user (StopHook), of the installation scripts (Installer)   *)
(* and of the schema of the database (Migration), for any number of        *)
(* processes, runs, sockets, edits, events, faults and failures; and their *)
(* composition with the chat and the texts (MCParts).                      *)
(***************************************************************************)
EXTENDS MCParts, Discord_proofs, Text_proofs, TLAPS

-----------------------------------------------------------------------------
(* The service and its socket.                                              *)

\* What a process has made of the path: its own socket, at which it listens once it is up.
Holds(i) ==
    /\ pc[i] \in {"bound", "up"} => path = bound[i] /\ path \in Sockets
    /\ pc[i] = "up" => listener[path] = i

\* Two processes are alive at once only as long as one of them has not got beyond the
\* probe of the other's socket.
Apart(i, k) ==
    pc[i] # "off" /\ pc[k] # "off" =>
        \/ pc[i] = "up" /\ pc[k] \in {"verifying", "probing"}
        \/ pc[k] = "up" /\ pc[i] \in {"verifying", "probing"}

SocketInv ==
    operator # "careless" =>
        /\ \A i \in Instances : Holds(i)
        /\ \A i, k \in Instances : i # k => Apart(i, k)

\* A child belongs to a process that is up; left to itself, systemd runs no other one, so
\* that a job which has failed has none.
ChildInv ==
    /\ child # None => pc[child] = "up"
    /\ operator = "absent" =>
          /\ \A i \in Instances \ Supervised : pc[i] = "off"
          /\ job = "FAILED" => child = None

ServiceInv == ServiceTypeOK /\ SocketInv /\ ChildInv

\* Every step keeps the types.
LEMMA ServiceTypesStep ==
    ASSUME ServiceTypeOK, [ServiceNext]_serviceVars
    PROVE  ServiceTypeOK'
<1> USE ServiceAssumption DEF ServiceTypeOK, Starting, Ending, Go
<1>1. ASSUME NEW i \in Instances, Start(i) PROVE ServiceTypeOK'
  BY <1>1 DEF Start, Recovered, Fault, socketVars
<1>2. ASSUME NEW i \in Instances, Verify(i) PROVE ServiceTypeOK'
  BY <1>2 DEF Verify, Gone, Fault, socketVars, jobVars
<1>3. ASSUME NEW i \in Instances, Probe(i) PROVE ServiceTypeOK'
  BY <1>3 DEF Probe, Gone, jobVars
<1>4. ASSUME NEW i \in Instances, Unlink(i) PROVE ServiceTypeOK'
  BY <1>4 DEF Unlink, Gone, jobVars
<1>5. ASSUME NEW i \in Instances, Bind(i) PROVE ServiceTypeOK'
  BY <1>5 DEF Bind, jobVars
<1>6. ASSUME NEW i \in Instances, Listen(i) PROVE ServiceTypeOK'
  BY <1>6 DEF Listen, Gone, jobVars
<1>7. ASSUME NEW i \in Instances, Dispatch(i) \/ JobEnds(i) \/ Completes(i) PROVE ServiceTypeOK'
  BY <1>7 DEF Dispatch, JobEnds, Completes, socketVars
<1>8. ASSUME NEW i \in Instances, Stop(i) PROVE ServiceTypeOK'
  BY <1>8 DEF Stop, KillChild, Fault, socketVars
<1>9. ASSUME NEW i \in Instances, CloseServer(i) \/ Cleanup(i) PROVE ServiceTypeOK'
  BY <1>9 DEF CloseServer, Cleanup, Gone, jobVars
<1>10. ASSUME NEW i \in Instances, Crash(i) PROVE ServiceTypeOK'
  BY <1>10 DEF Crash, Gone, KillChild, Fault
<1>11. CASE UNCHANGED serviceVars
  BY <1>11 DEF serviceVars, socketVars, jobVars
<1> QED
  BY <1>1, <1>2, <1>3, <1>4, <1>5, <1>6, <1>7, <1>8, <1>9, <1>10, <1>11 DEF ServiceNext, Step

\* No step of a careful operator's processes takes the path from the one that is up: to
\* get to the path is to have found nobody there.
LEMMA SocketStep ==
    ASSUME ServiceTypeOK, SocketInv, [ServiceNext]_serviceVars
    PROVE  SocketInv'
<1> SUFFICES ASSUME operator # "careless", operator' = operator
             PROVE  /\ \A i \in Instances : Holds(i)'
                    /\ \A i, k \in Instances : i # k => Apart(i, k)'
  <2>1. operator' = operator
    BY DEF ServiceNext, Step, Start, Verify, Probe, Unlink, Bind, Listen, CloseServer, Cleanup,
           Stop, Crash, Dispatch, JobEnds, Completes, serviceVars
  <2> QED
    BY <2>1 DEF SocketInv
<1>h. \A i \in Instances : Holds(i)
  BY DEF SocketInv
<1>a. \A i, k \in Instances : i # k => Apart(i, k)
  BY DEF SocketInv
<1> USE ServiceAssumption, <1>h, <1>a
    DEF ServiceTypeOK, Starting, Ending, Go, Holds, Apart
<1>1. ASSUME NEW i \in Instances, Start(i)
      PROVE  /\ \A k \in Instances : Holds(k)'
             /\ \A j, k \in Instances : j # k => Apart(j, k)'
  <2>1. \A k \in Instances \ {i} : pc[k] \in {"off", "up"}
    BY <1>1 DEF Start, Quiet
  <2> QED
    BY <1>1, <2>1 DEF Start, socketVars
<1>2. ASSUME NEW i \in Instances, Verify(i)
      PROVE  /\ \A k \in Instances : Holds(k)'
             /\ \A j, k \in Instances : j # k => Apart(j, k)'
  BY <1>2 DEF Verify, Gone, socketVars
<1>3. ASSUME NEW i \in Instances, Probe(i)
      PROVE  /\ \A k \in Instances : Holds(k)'
             /\ \A j, k \in Instances : j # k => Apart(j, k)'
  BY <1>3 DEF Probe, Active, Gone
<1>4. ASSUME NEW i \in Instances, Unlink(i)
      PROVE  /\ \A k \in Instances : Holds(k)'
             /\ \A j, k \in Instances : j # k => Apart(j, k)'
  BY <1>4 DEF Unlink, Gone
<1>5. ASSUME NEW i \in Instances, Bind(i)
      PROVE  /\ \A k \in Instances : Holds(k)'
             /\ \A j, k \in Instances : j # k => Apart(j, k)'
  BY <1>5 DEF Bind
<1>6. ASSUME NEW i \in Instances, Listen(i)
      PROVE  /\ \A k \in Instances : Holds(k)'
             /\ \A j, k \in Instances : j # k => Apart(j, k)'
  BY <1>6 DEF Listen, Gone
<1>7. ASSUME NEW i \in Instances, Dispatch(i) \/ JobEnds(i) \/ Completes(i)
      PROVE  /\ \A k \in Instances : Holds(k)'
             /\ \A j, k \in Instances : j # k => Apart(j, k)'
  BY <1>7 DEF Dispatch, JobEnds, Completes, socketVars
<1>8. ASSUME NEW i \in Instances, Stop(i)
      PROVE  /\ \A k \in Instances : Holds(k)'
             /\ \A j, k \in Instances : j # k => Apart(j, k)'
  <2>1. \A k \in Instances \ {i} : pc[k] \in {"off", "up"}
    BY <1>8 DEF Stop, Quiet
  <2> QED
    BY <1>8, <2>1 DEF Stop, socketVars
<1>9. ASSUME NEW i \in Instances, CloseServer(i) \/ Cleanup(i)
      PROVE  /\ \A k \in Instances : Holds(k)'
             /\ \A j, k \in Instances : j # k => Apart(j, k)'
  BY <1>9 DEF CloseServer, Cleanup, Gone
<1>10. ASSUME NEW i \in Instances, Crash(i)
       PROVE  /\ \A k \in Instances : Holds(k)'
              /\ \A j, k \in Instances : j # k => Apart(j, k)'
  BY <1>10 DEF Crash, Gone
<1>11. CASE UNCHANGED serviceVars
  BY <1>11 DEF serviceVars, socketVars, jobVars
<1> QED
  BY <1>1, <1>2, <1>3, <1>4, <1>5, <1>6, <1>7, <1>8, <1>9, <1>10, <1>11 DEF ServiceNext, Step

\* A process leaves "up" with its child, and only the one that systemd starts recovers the
\* jobs: while it is off there is no child to be failed over the head of.
LEMMA ChildStep ==
    ASSUME ServiceTypeOK, ChildInv, [ServiceNext]_serviceVars
    PROVE  ChildInv'
<1> USE ServiceAssumption DEF ServiceTypeOK, Starting, Ending, Go, ChildInv
<1>1. ASSUME NEW i \in Instances, Start(i) PROVE ChildInv'
  <2>1. operator = "absent" => i \in Supervised /\ \A k \in Instances : pc[k] # "off" => k = i
    BY <1>1 DEF Start
  <2>2. operator = "absent" => child = None
    BY <1>1, <2>1 DEF Start
  <2> QED
    BY <1>1, <2>1, <2>2 DEF Start, Recovered, socketVars
<1>2. ASSUME NEW i \in Instances, Step(i) PROVE ChildInv'
  BY <1>2 DEF Step, Verify, Probe, Unlink, Bind, Listen, CloseServer, Cleanup, Gone, socketVars,
              jobVars
<1>3. ASSUME NEW i \in Instances, Dispatch(i) PROVE ChildInv'
  BY <1>3 DEF Dispatch, socketVars
<1>4. ASSUME NEW i \in Instances, JobEnds(i) \/ Completes(i) PROVE ChildInv'
  BY <1>4 DEF JobEnds, Completes, socketVars
<1>5. ASSUME NEW i \in Instances, Stop(i) PROVE ChildInv'
  BY <1>5 DEF Stop, KillChild, socketVars
<1>6. ASSUME NEW i \in Instances, Crash(i) PROVE ChildInv'
  BY <1>6 DEF Crash, Gone, KillChild
<1>7. CASE UNCHANGED serviceVars
  BY <1>7 DEF serviceVars, socketVars, jobVars
<1> QED
  BY <1>1, <1>2, <1>3, <1>4, <1>5, <1>6, <1>7 DEF ServiceNext

\* The three together are inductive.
LEMMA ServiceInductive == ServiceSpec => []ServiceInv
<1>1. ServiceInit => ServiceInv
  BY ServiceAssumption
     DEF ServiceInit, ServiceInv, ServiceTypeOK, SocketInv, ChildInv, Holds, Apart
<1>2. ServiceInv /\ [ServiceNext]_serviceVars => ServiceInv'
  BY ServiceTypesStep, SocketStep, ChildStep DEF ServiceInv
<1> QED
  BY <1>1, <1>2, PTL DEF ServiceSpec

\* NotifyServer.start and close against each other (notify_server.py): whoever is up is
\* found at the path, as long as nobody starts or stops a process by hand while another
\* one is starting or stopping.
THEOREM Reachable == ServiceSpec => []ServingIsReachable
<1>1. ServiceInv => ServingIsReachable
  BY DEF ServiceInv, SocketInv, ServingIsReachable, Holds
<1> QED
  BY <1>1, ServiceInductive, PTL

\* recover_job_session_state and shutdown (main.py): with systemd alone no job is failed
\* while its process runs.
THEOREM FailedIsOver == ServiceSpec => []FailedHasEnded
<1>1. ServiceInv => FailedHasEnded
  BY DEF ServiceInv, ChildInv, FailedHasEnded
<1> QED
  BY <1>1, ServiceInductive, PTL

-----------------------------------------------------------------------------
(* The Stop hook.                                                           *)

Written == [others : SUBSET Others, ours : Seq(Commands)]
Wanted(r) == [i \in 1..1 |-> Command[r]]

\* A run that is to write has a document with its one hook, though the file it was made of
\* may have changed since; the file has at most one.
HookInv ==
    /\ at \in [Runs -> {"begin", "merged", "temp", "done", "refused", "crashed"}]
    /\ document \in [Runs -> Written]
    /\ \A r \in Runs : at[r] \in {"merged", "temp"} => document[r].ours = Wanted(r)
    /\ \A r \in Runs : Len(document[r].ours) <= 1
    /\ hooks \in Written
    /\ Len(hooks.ours) <= 1
    /\ kind \in {"none", "whole", "invalid"} /\ edits \in 0..MaxEdits

\* A sequence of one command.
LEMMA WantedIsOne ==
    ASSUME NEW r \in Runs
    PROVE  Wanted(r) \in Seq(Commands) /\ Len(Wanted(r)) = 1 /\ Wanted(r)[1] = Command[r]
BY DEF Wanted, Commands

\* merge_stop_hook gives a document with hooks of ours one of this checkout, in their place,
\* and a document without any a new one: of at most one it makes exactly one.
LEMMA MergedIsOne ==
    ASSUME NEW d \in Written, Len(d.ours) <= 1, NEW r \in Runs
    PROVE  /\ Merged(d, Command[r]) \in Written
           /\ Merged(d, Command[r]).ours = Wanted(r)
<1> USE DEF Written
<1>1. CASE d.ours = <<>>
  <2>1. <<Command[r]>> \in Seq(Commands) /\ <<Command[r]>> = Wanted(r)
    BY DEF Wanted, Commands
  <2>2. Merged(d, Command[r]) = [d EXCEPT !.ours = <<Command[r]>>]
    BY <1>1 DEF Merged
  <2> QED
    BY <2>1, <2>2
<1>2. CASE d.ours # <<>>
  <2>1. DOMAIN d.ours = 1..Len(d.ours) /\ Len(d.ours) \in Nat /\ Len(d.ours) # 0
    BY <1>2
  <2>2. DOMAIN d.ours = 1..1
    BY <2>1
  <2>3. Merged(d, Command[r]) = [d EXCEPT !.ours = Wanted(r)]
    BY <1>2, <2>2 DEF Merged, Wanted
  <2> QED
    BY <2>3, WantedIsOne
<1> QED
  BY <1>1, <1>2

LEMMA HookInitInv == HookInit => HookInv
<1> SUFFICES ASSUME HookInit PROVE HookInv
  OBVIOUS
<1>1. Empty \in Written /\ Len(Empty.ours) <= 1
  <2>1. <<>> \in Seq(Commands) /\ Len(<<>>) <= 1
    OBVIOUS
  <2> QED
    BY <2>1 DEF Empty, Written
<1>2. ASSUME NEW d \in Documents
      PROVE  d \in Written
  <2>1. d.others \in SUBSET Others /\ d = [others |-> d.others, ours |-> d.ours]
    BY DEF Documents
  <2>2. PICK n \in 0..2 : d.ours \in [1..n -> Commands]
    BY DEF Documents
  <2>3. d.ours \in Seq(Commands)
    BY <2>2
  <2> QED
    BY <2>1, <2>3 DEF Written
<1>3. hooks \in Written /\ Len(hooks.ours) <= 1
  BY <1>1, <1>2 DEF HookInit
<1>4. edits \in 0..MaxEdits
  BY HookAssumption DEF HookInit
<1> QED
  BY <1>1, <1>3, <1>4 DEF HookInit, HookInv

\* The owner leaves a document that has no hook of ours too many.
LEMMA OwnerKeepsOne ==
    ASSUME HookInv, OwnerEdits
    PROVE  hooks' \in Written /\ Len(hooks'.ours) <= 1
<1>1. hooks.others \in SUBSET Others /\ hooks.ours \in Seq(Commands) /\ Len(hooks.ours) <= 1
      /\ hooks \in Written
  BY DEF HookInv, Written
<1>2. \/ \E h \in Others : hooks' = [hooks EXCEPT !.others = @ \cup {h}]
      \/ \E h \in Others : hooks' = [hooks EXCEPT !.others = @ \ {h}]
      \/ hooks' = [hooks EXCEPT !.ours = <<>>]
  BY DEF OwnerEdits
<1>3. ASSUME NEW h \in Others, hooks' = [hooks EXCEPT !.others = @ \cup {h}]
      PROVE  hooks' \in Written /\ hooks'.ours = hooks.ours
  BY <1>1, <1>3 DEF Written
<1>4. ASSUME NEW h \in Others, hooks' = [hooks EXCEPT !.others = @ \ {h}]
      PROVE  hooks' \in Written /\ hooks'.ours = hooks.ours
  BY <1>1, <1>4 DEF Written
<1>5. CASE hooks' = [hooks EXCEPT !.ours = <<>>]
  <2>1. <<>> \in Seq(Commands) /\ Len(<<>>) <= 1
    OBVIOUS
  <2>2. hooks' \in Written /\ hooks'.ours = <<>>
    BY <1>1, <1>5, <2>1 DEF Written
  <2> QED
    BY <2>1, <2>2
<1> QED
  BY <1>1, <1>2, <1>3, <1>4, <1>5

\* Every step keeps the invariant.
LEMMA HookStep ==
    ASSUME HookInv, [HookNext]_hookVars
    PROVE  HookInv'
<1> USE DEF HookInv, Goes
<1>1. CASE OwnerEdits
  <2>1. hooks' \in Written /\ Len(hooks'.ours) <= 1
    BY <1>1, OwnerKeepsOne
  <2>2. UNCHANGED <<at, document>> /\ kind' = "whole" /\ edits' \in 0..MaxEdits
    BY <1>1, HookAssumption DEF OwnerEdits
  <2> QED
    BY <2>1, <2>2
<1>2. ASSUME NEW r \in Runs, Load(r) PROVE HookInv'
  <2>1. /\ Merged(hooks, Command[r]) \in Written
        /\ Merged(hooks, Command[r]).ours = Wanted(r) /\ Len(Wanted(r)) = 1
    BY MergedIsOne, WantedIsOne
  <2>2. Len(Merged(hooks, Command[r]).ours) <= 1
    BY <2>1
  <2> QED
    BY <1>2, <2>1, <2>2 DEF Load
<1>3. ASSUME NEW r \in Runs, WriteTemp(r) \/ RunEnds(r) PROVE HookInv'
  BY <1>3 DEF WriteTemp, RunEnds
<1>4. ASSUME NEW r \in Runs, Replace(r) PROVE HookInv'
  <2>1. hooks' = document[r] /\ document[r] \in Written /\ document[r].ours = Wanted(r)
    BY <1>4 DEF Replace
  <2>2. hooks' \in Written /\ Len(hooks'.ours) <= 1
    <3> HIDE DEF HookInv
    <3>1. Len(Wanted(r)) = 1
      BY WantedIsOne
    <3>2. hooks'.ours = Wanted(r)
      BY <2>1
    <3> QED
      BY <2>1, <3>1, <3>2
  <2>3. at' = [at EXCEPT ![r] = "done"] /\ kind' = "whole" /\ UNCHANGED <<document, edits>>
    BY <1>4 DEF Replace
  <2> QED
    BY <2>2, <2>3
<1>5. CASE UNCHANGED hookVars
  BY <1>5 DEF hookVars
<1> QED
  BY <1>1, <1>2, <1>3, <1>4, <1>5 DEF HookNext

\* The invariant says of the documents what their type says.
LEMMA HookAlways == HookSpec => [](HookInv /\ HookTypeOK)
<1>1. ASSUME NEW d \in Written, Len(d.ours) <= 1 PROVE d \in Documents
  <2>1. d.others \in SUBSET Others /\ d = [others |-> d.others, ours |-> d.ours]
        /\ d.ours \in Seq(Commands)
    BY DEF Written
  <2>2. \A q \in Seq(Commands) : Len(q) \in Nat /\ q \in [1..Len(q) -> Commands]
    OBVIOUS
  <2>3. Len(d.ours) \in Nat /\ d.ours \in [1..Len(d.ours) -> Commands]
    BY <2>1, <2>2, Zenon
  <2>4. \A n \in Nat : n <= 1 => n \in 0..2
    OBVIOUS
  <2>5. Len(d.ours) \in 0..2
    BY <1>1, <2>3, <2>4, Zenon
  <2> QED
    BY <2>1, <2>3, <2>5 DEF Documents
<1>2. HookInv => HookTypeOK
  <2> SUFFICES ASSUME HookInv PROVE HookTypeOK
    OBVIOUS
  <2>1. \A r \in Runs : document[r] \in Documents
    BY <1>1 DEF HookInv
  <2>2. document \in [Runs -> Documents] /\ hooks \in Documents
    BY <1>1, <2>1 DEF HookInv
  <2> QED
    BY <2>2 DEF HookInv, HookTypeOK
<1>3. HookInv /\ [HookNext]_hookVars => HookInv'
  BY HookStep
<1> QED
  BY <1>2, <1>3, HookInitInv, PTL DEF HookSpec

\* A run ends well by its rename, or because the file was as it should be.
LEMMA RunInstallsStep ==
    ASSUME HookInv, [HookNext]_hookVars,
           NEW r \in Runs, at[r] # "done", at'[r] = "done"
    PROVE  hooks'.ours = Wanted(r)
<1> USE DEF HookInv, Goes
<1>1. Merged(hooks, Command[r]).ours = Wanted(r)
  BY MergedIsOne
<1>2. CASE Load(r)
  BY <1>1, <1>2 DEF Load
<1>3. CASE Replace(r)
  BY <1>3 DEF Replace
<1>4. Load(r) \/ Replace(r)
  BY DEF HookNext, OwnerEdits, Load, WriteTemp, Replace, RunEnds, hookVars
<1> QED
  BY <1>2, <1>3, <1>4

\* configure-codex-stop-hook.py: a run that ends well has put the hook of its checkout into
\* the file, and no run adds a second one, whatever overlaps.
THEOREM HookOnce == HookSpec => OneHook
<1>1. HookInv /\ [HookNext]_hookVars => HookInv'
  BY HookStep
<1>2. HookInv => NeverTwice
  BY DEF HookInv, NeverTwice
<1>3. ASSUME HookInv, [HookNext]_hookVars
      PROVE  [\A r \in Runs : at[r] # "done" /\ at'[r] = "done" =>
                 hooks'.ours # <<>>
                 /\ \A i \in DOMAIN hooks'.ours : hooks'.ours[i] = Command[r]]_hookVars
  <2> SUFFICES ASSUME NEW r \in Runs, at[r] # "done", at'[r] = "done"
               PROVE  hooks'.ours # <<>>
                      /\ \A i \in DOMAIN hooks'.ours : hooks'.ours[i] = Command[r]
    OBVIOUS
  <2>1. hooks'.ours = Wanted(r)
    BY <1>3, RunInstallsStep
  <2>2. DOMAIN Wanted(r) = 1..1 /\ Wanted(r) # <<>>
    BY WantedIsOne DEF Wanted
  <2> QED
    BY <2>1, <2>2 DEF Wanted
<1> QED
  BY <1>1, <1>2, <1>3, HookInitInv, PTL DEF HookSpec, OneHook, RunInstalls

-----------------------------------------------------------------------------
(* The installation scripts.                                                *)

\* What is left of an install after its first n steps, of `last` in all.
StepNames == {"env", "bin", "secret", "unit", "meta", "venv", "pip", "package", "reload",
              "enable", "start"}
AllSteps == Append(InstallSteps, "start")
Left(n, last) == [j \in 1..(last - n) |-> AllSteps[n + j]]

\* What the first n steps of an install have achieved.
Progress(n) ==
    /\ n = 0 => ~script.token
    /\ n >= 1 => main.exists /\ ~main.token
    /\ n >= 2 => main.bin = script.bin
    /\ n >= 3 => secret # "none" /\ (script.token => secret \in Tokens)
    /\ n >= 4 => unit = "new"
    /\ n >= 5 => meta = script.bin
    /\ n >= 6 => venv # "none"
    /\ n >= 7 => venv # "bare"
    /\ n >= 8 => venv = "ready"
    /\ n >= 9 => loaded = "new"
    /\ n >= 10 => enabled

\* An install or an upgrade is somewhere in its steps and has done those before; only an
\* install may end with a start.
ScriptInv ==
    /\ script.kind = "none" => script = NoScript
    /\ script.kind = "configure" =>
          /\ script.todo \in {<<"settings", "token">>, <<"token">>, <<>>}
          /\ ~script.token
    /\ script.kind \in {"install", "upgrade"} =>
          \E last \in {10, 11} : \E n \in 0..last :
             /\ script.kind = "upgrade" => last = 10
             /\ script.todo = Left(n, last)
             /\ Progress(n)
    /\ script.wasActive => script.kind = "upgrade"

\* What was started, or ran when the upgrade began, has all it needs, but for a token that
\* an install has taken or had taken when it was cut.
Runnable == /\ loaded # "none" /\ venv = "ready" /\ main.exists /\ main.set
            /\ HasToken \/ TokenIsOut \/ cut
RunningInv == service # "inactive" \/ script.wasActive => Runnable

\* There is no token in a file that is not there.
FileInv == main.token => main.exists

\* A verdict is about what is still there.
VerdictInv == verdict = "installed" => NoRun /\ PassIsComplete

\* The fields of the script that runs.
ScriptType ==
    /\ script = [kind |-> script.kind, todo |-> script.todo, token |-> script.token,
                 bin |-> script.bin, wasActive |-> script.wasActive]
    /\ script.token \in BOOLEAN /\ script.bin \in Bins \cup {NoBin}
    /\ script.wasActive \in BOOLEAN

InstallerInv == /\ InstallerTypeOK /\ ScriptType /\ ScriptInv
                /\ RunningInv /\ FileInv /\ VerdictInv


(* Facts about sequences.                                                   *)

LEMMA AppendedLast ==
    ASSUME NEW S, NEW s \in Seq(S), NEW x \in S
    PROVE  Append(s, x)[Len(s) + 1] = x
OBVIOUS

LEMMA AppendedFirst ==
    ASSUME NEW S, NEW s \in Seq(S), NEW x \in S, NEW j \in 1..Len(s)
    PROVE  Append(s, x)[j] = s[j]
OBVIOUS

LEMMA AppendedType ==
    ASSUME NEW S, NEW s \in Seq(S), NEW x \in S
    PROVE  Append(s, x) \in [1..(Len(s) + 1) -> S]
<1> DEFINE t == Append(s, x)
<1>1. t \in Seq(S) /\ Len(t) = Len(s) + 1
  OBVIOUS
<1> HIDE DEF t
<1>2. t \in [1..Len(t) -> S]
  BY <1>1
<1> QED
  BY <1>1, <1>2 DEF t

LEMMA TupleIsSequence ==
    ASSUME NEW S, NEW n \in Nat, NEW s \in [1..n -> S]
    PROVE  s \in Seq(S) /\ Len(s) = n
OBVIOUS

\* The names of the steps, in order.
LEMMA TheSteps ==
    /\ AllSteps \in [1..11 -> StepNames]
    /\ AllSteps[1] = "env" /\ AllSteps[2] = "bin" /\ AllSteps[3] = "secret"
    /\ AllSteps[4] = "unit" /\ AllSteps[5] = "meta" /\ AllSteps[6] = "venv"
    /\ AllSteps[7] = "pip" /\ AllSteps[8] = "package" /\ AllSteps[9] = "reload"
    /\ AllSteps[10] = "enable" /\ AllSteps[11] = "start"
<1>1. InstallSteps \in [1..10 -> StepNames]
  <2>1. InstallSteps = [k \in 1..10 |-> InstallSteps[k]]
    BY DEF InstallSteps
  <2>2. \A k \in 1..10 : InstallSteps[k] \in StepNames
    BY DEF InstallSteps, StepNames
  <2> QED
    BY <2>1, <2>2
<1>2. InstallSteps \in Seq(StepNames) /\ Len(InstallSteps) = 10
  <2>1. 10 \in Nat
    OBVIOUS
  <2> QED
    BY <1>1, <2>1, TupleIsSequence
<1> DEFINE A == Append(InstallSteps, "start")
<1>3. "start" \in StepNames
  BY DEF StepNames
<1>4. A \in [1..11 -> StepNames]
  <2>1. A \in [1..(Len(InstallSteps) + 1) -> StepNames]
    BY <1>2, <1>3, AppendedType
  <2> HIDE DEF A
  <2> QED
    BY <1>2, <2>1
<1>5. A[Len(InstallSteps) + 1] = "start" /\ \A k \in 1..Len(InstallSteps) : A[k] = InstallSteps[k]
  <2>1. A[Len(InstallSteps) + 1] = "start"
    BY <1>2, <1>3, AppendedLast
  <2>2. \A k \in 1..Len(InstallSteps) : A[k] = InstallSteps[k]
    BY <1>2, <1>3, AppendedFirst
  <2> QED
    BY <2>1, <2>2
<1> HIDE DEF A
<1>6. A[11] = "start" /\ \A k \in 1..10 : A[k] = InstallSteps[k]
  BY <1>2, <1>5
<1>7. A = AllSteps
  BY DEF A, AllSteps
<1> QED
  BY <1>4, <1>6, <1>7 DEF InstallSteps

\* How what is left begins, and what is left of it after a step.
LEMMA LeftSteps ==
    ASSUME NEW last \in {10, 11}, NEW n \in 0..last
    PROVE  /\ Left(n, last) = <<>> <=> n = last
           /\ n # last => /\ Head(Left(n, last)) = AllSteps[n + 1]
                          /\ Tail(Left(n, last)) = Left(n + 1, last)
<1>1. ASSUME NEW m \in 0..last
      PROVE  /\ Left(m, last) \in Seq(StepNames) /\ Len(Left(m, last)) = last - m
             /\ \A j \in 1..(last - m) : Left(m, last)[j] = AllSteps[m + j]
  <2>1. Left(m, last) = [j \in 1..(last - m) |-> AllSteps[m + j]] /\ last - m \in Nat
    BY DEF Left
  <2>2. \A j \in 1..(last - m) : AllSteps[m + j] \in StepNames
    BY TheSteps
  <2>3. Left(m, last) \in [1..(last - m) -> StepNames]
    BY <2>1, <2>2
  <2> QED
    BY <2>1, <2>3, TupleIsSequence
<1> DEFINE l == Left(n, last)
<1>a. l \in Seq(StepNames) /\ Len(l) = last - n
  BY <1>1
<1>b. \A j \in 1..(last - n) : l[j] = AllSteps[n + j]
  BY <1>1
<1> HIDE DEF l
<1>2. Left(n, last) = <<>> <=> n = last
  <2>1. l = <<>> <=> Len(l) = 0
    BY <1>a
  <2> QED
    BY <1>a, <2>1 DEF l
<1>3. ASSUME n # last
      PROVE  Head(Left(n, last)) = AllSteps[n + 1]
  <2>1. l # <<>> /\ Head(l) = l[1]
    BY <1>2, <1>3, <1>a DEF l
  <2>2. l[1] = AllSteps[n + 1]
    BY <1>b, <1>3
  <2> QED
    BY <2>1, <2>2 DEF l
<1>4. ASSUME n # last
      PROVE  Tail(Left(n, last)) = Left(n + 1, last)
  <2> DEFINE t == Tail(Left(n, last))
  <2>1. t \in Seq(StepNames) /\ Len(t) = last - n - 1
    BY <1>1, <1>2, <1>4
  <2>2. \A j \in 1..(last - n - 1) : t[j] = Left(n, last)[j + 1]
    BY <1>1, <1>2, <1>4
  <2>3. ASSUME NEW j \in 1..(last - n - 1)
        PROVE  Left(n, last)[j + 1] = AllSteps[n + 1 + j]
    <3>1. j + 1 \in 1..(last - n) /\ n + (j + 1) = n + 1 + j
      OBVIOUS
    <3> QED
      BY <1>1, <3>1
  <2> HIDE DEF t
  <2>4. t = [j \in 1..(last - (n + 1)) |-> AllSteps[(n + 1) + j]]
    BY <2>1, <2>2, <2>3
  <2> QED
    BY <2>4 DEF Left, t
<1> QED
  BY <1>2, <1>3, <1>4

\* A step named k is the kth of an install, and those before it are done.
LEMMA AtStep ==
    ASSUME InstallerTypeOK, ScriptInv, NEW k \in 1..11, At(AllSteps[k])
    PROVE  /\ script.kind \in {"install", "upgrade"}
           /\ \E last \in {10, 11} : /\ k <= last /\ (script.kind = "upgrade" => last = 10)
                                    /\ Tail(script.todo) = Left(k, last)
           /\ Progress(k - 1)
<1>1. script.todo # <<>> /\ Head(script.todo) = AllSteps[k]
  BY DEF At
<1>2. script.kind # "none"
  BY <1>1 DEF ScriptInv, NoScript
<1>3. script.kind # "configure"
  <2>1. Head(<<"settings", "token">>) = "settings" /\ Head(<<"token">>) = "token"
    OBVIOUS
  <2>2. AllSteps[k] \notin {"settings", "token"}
    BY TheSteps DEF StepNames
  <2> QED
    BY <1>1, <2>1, <2>2 DEF ScriptInv
<1>4. script.kind \in {"install", "upgrade"}
  BY <1>2, <1>3 DEF InstallerTypeOK
<1>5. PICK last \in {10, 11} : \E n \in 0..last :
         /\ script.kind = "upgrade" => last = 10
         /\ script.todo = Left(n, last)
         /\ Progress(n)
  BY <1>4 DEF ScriptInv
<1>6. PICK n \in 0..last : script.todo = Left(n, last) /\ Progress(n)
  BY <1>5
<1>7. n # last /\ AllSteps[n + 1] = AllSteps[k] /\ Tail(script.todo) = Left(n + 1, last)
  BY <1>1, <1>6, LeftSteps
<1>8. n + 1 = k
  <2>1. n + 1 \in 1..11 /\ k \in 1..11
    BY <1>7
  <2> QED
    BY <1>7, <2>1, TheSteps
<1> QED
  BY <1>4, <1>5, <1>6, <1>7, <1>8

\* The script goes on after the kth step.
LEMMA Advance ==
    ASSUME InstallerTypeOK, ScriptInv, NEW k \in 1..11, At(AllSteps[k]),
           script'.kind = script.kind, script'.todo = Tail(script.todo),
           script'.wasActive = script.wasActive, Progress(k)'
    PROVE  ScriptInv'
<1>1. PICK last \in {10, 11} : /\ k <= last /\ (script.kind = "upgrade" => last = 10)
                              /\ script'.todo = Left(k, last)
  BY AtStep
<1>2. script.kind \in {"install", "upgrade"}
  BY AtStep
<1>3. k \in 0..last
  BY <1>1
<1> QED
  BY <1>1, <1>2, <1>3 DEF ScriptInv

\* What is left when a script has come to its end: nothing that is not done.
LEMMA AtTheEnd ==
    ASSUME ScriptInv, script.todo = <<>>, script.kind \in {"install", "upgrade"}
    PROVE  Progress(10)
<1>1. PICK last \in {10, 11} :
         \E n \in 0..last : script.todo = Left(n, last) /\ Progress(n)
  BY DEF ScriptInv
<1>2. PICK n \in 0..last : script.todo = Left(n, last) /\ Progress(n)
  BY <1>1
<1>3. n = last
  BY <1>2, LeftSteps
<1> QED
  BY <1>2, <1>3 DEF Progress

\* A script that begins is a record of its kind, and says nothing yet.
LEMMA Begins ==
    ASSUME NEW k, NEW ordered, NEW bin \in Bins \cup {NoBin}, NEW active \in BOOLEAN,
           Begin(k, ordered, bin, active)
    PROVE  /\ NoRun /\ verdict' = "none"
           /\ script' = [kind |-> k, todo |-> ordered, token |-> FALSE, bin |-> bin,
                         wasActive |-> active]
           /\ script'.kind = k /\ script'.todo = ordered /\ script'.bin = bin
           /\ script'.wasActive = active /\ script'.token = FALSE
           /\ ScriptType'
BY DEF Begin, NoScript, ScriptType

\* The install steps without and with a start.
LEMMA WholeInstall == Left(0, 10) = InstallSteps /\ Left(0, 11) = AllSteps
<1>1. AllSteps \in Seq(StepNames) /\ Len(AllSteps) = 11
  <2>1. 11 \in Nat /\ AllSteps \in [1..11 -> StepNames]
    BY TheSteps
  <2> QED
    BY <2>1, TupleIsSequence
<1>2. AllSteps = [j \in 1..11 |-> AllSteps[j]]
  BY TheSteps
<1>3. Left(0, 11) = [j \in 1..11 |-> AllSteps[j]]
  BY DEF Left
<1>4. Left(0, 10) = [j \in 1..10 |-> AllSteps[j]]
  BY DEF Left
<1>5. InstallSteps = [j \in 1..10 |-> InstallSteps[j]]
  BY DEF InstallSteps
<1>6. \A j \in 1..10 : AllSteps[j] = InstallSteps[j]
  BY TheSteps DEF InstallSteps
<1> QED
  BY <1>2, <1>3, <1>4, <1>5, <1>6

\* A step leaves the rest of the script as it is.
LEMMA Proceeds ==
    ASSUME ScriptType, script' = [script EXCEPT !.todo = Tail(@)]
    PROVE  /\ script'.kind = script.kind /\ script'.bin = script.bin
           /\ script'.wasActive = script.wasActive /\ script'.todo = Tail(script.todo)
           /\ script'.token = script.token /\ ScriptType'
BY DEF ScriptType

\* The end of a script.
LEMMA NoScriptLeft ==
    ASSUME script' = NoScript
    PROVE  /\ ScriptType' /\ ScriptInv'
           /\ script'.kind = "none" /\ ~script'.wasActive /\ ~script'.token
BY DEF NoScript, ScriptType, ScriptInv

\* The steps of an install, by number.
InstallAction(k) ==
    CASE k = 1 -> Env [] k = 2 -> Bin [] k = 3 -> Secret [] k = 4 -> Unit [] k = 5 -> Meta
      [] k = 6 -> Venv [] k = 7 -> Pip [] k = 8 -> Package [] k = 9 -> Reload
      [] k = 10 -> Enable [] k = 11 -> StartIt /\ FilledIn

\* What every step of an install does to the script.
LEMMA StepIsMade ==
    ASSUME InstallerTypeOK, ScriptType, NEW k \in 1..11, InstallAction(k)
    PROVE  /\ At(AllSteps[k])
           /\ script'.kind = script.kind /\ script'.bin = script.bin
           /\ script'.wasActive = script.wasActive /\ script'.todo = Tail(script.todo)
           /\ script'.token = IF k = 1 THEN main.token ELSE script.token
           /\ ScriptType' /\ UNCHANGED <<verdict, ghosts>>
<1>1. CASE k = 1
  <2>1. script' = [script EXCEPT !.todo = Tail(@), !.token = main.token]
    BY <1>1 DEF InstallAction, Env
  <2>2. main.token \in BOOLEAN
    BY DEF InstallerTypeOK
  <2>3. /\ script'.kind = script.kind /\ script'.bin = script.bin
        /\ script'.wasActive = script.wasActive /\ script'.todo = Tail(script.todo)
        /\ script'.token = main.token /\ ScriptType'
    BY <2>1, <2>2 DEF ScriptType
  <2>4. At("env") /\ UNCHANGED <<verdict, ghosts>>
    BY <1>1 DEF InstallAction, Env
  <2> QED
    BY <1>1, <2>3, <2>4, TheSteps
<1>2. CASE k # 1
  <2> DEFINE D == Done /\ At(AllSteps[k])
  <2>a. k = 2 => D
    BY TheSteps DEF InstallAction, Bin
  <2>b. k = 3 => D
    BY TheSteps DEF InstallAction, Secret
  <2>c. k = 4 => D
    BY TheSteps DEF InstallAction, Unit
  <2>d. k = 5 => D
    BY TheSteps DEF InstallAction, Meta
  <2>e. k = 6 => D
    BY TheSteps DEF InstallAction, Venv
  <2>f. k = 7 => D
    BY TheSteps DEF InstallAction, Pip
  <2>g. k = 8 => D
    BY TheSteps DEF InstallAction, Package
  <2>h. k = 9 => D
    BY TheSteps DEF InstallAction, Reload
  <2>j. k = 10 => D
    BY TheSteps DEF InstallAction, Enable
  <2>i. k = 11 => D
    BY TheSteps DEF InstallAction, StartIt
  <2>1. D
    BY <1>2, <2>a, <2>b, <2>c, <2>d, <2>e, <2>f, <2>g, <2>h, <2>i, <2>j
  <2>2. script' = [script EXCEPT !.todo = Tail(@)] /\ UNCHANGED <<verdict, ghosts>>
    BY <2>1 DEF Done
  <2> QED
    BY <1>2, <2>1, <2>2, Proceeds
<1> QED
  BY <1>1, <1>2

\* The files after each step of an install: it adds to them, and leaves what is filled in.
LEMMA StepAdds ==
    ASSUME InstallerTypeOK, ScriptType, NEW k \in 1..11, InstallAction(k),
           Progress(k - 1), FileInv
    PROVE  /\ InstallerTypeOK' /\ Progress(k)' /\ FileInv'
           /\ main'.set = main.set
           /\ secret \in Tokens => secret' = secret
           /\ Runnable => Runnable'
           /\ k # 11 => service' = service
<1>1. /\ script'.kind = script.kind /\ script'.bin = script.bin
      /\ script'.token = IF k = 1 THEN main.token ELSE script.token
      /\ UNCHANGED <<verdict, ghosts>>
  BY StepIsMade
<1> USE <1>1 DEF FileInv, InstallerTypeOK, Units, Progress, Tokens, Runnable, HasToken,
                 TokenIsOut, config, system, ghosts
<1>2. CASE k = 1
  <2>1. /\ main' = IF main.exists THEN [main EXCEPT !.token = FALSE]
                    ELSE [main EXCEPT !.exists = TRUE]
        /\ UNCHANGED <<secret, system, service>>
    BY <1>2 DEF InstallAction, Env
  <2>2. /\ main'.exists /\ ~main'.token /\ main'.set = main.set /\ main'.bin = main.bin
        /\ main' \in [exists : BOOLEAN, token : BOOLEAN, set : BOOLEAN, bin : Bins \cup {NoBin}]
    BY <2>1
  <2> QED
    BY <1>2, <2>1, <2>2
<1>3. CASE k = 2
  <2>1. main' = [main EXCEPT !.bin = script.bin] /\ UNCHANGED <<secret, system, service>>
    BY <1>3 DEF InstallAction, Bin
  <2>2. script.bin \in Bins \cup {NoBin}
    BY DEF ScriptType
  <2>3. /\ main'.exists = main.exists /\ main'.token = main.token /\ main'.set = main.set
        /\ main'.bin = script.bin
        /\ main' \in [exists : BOOLEAN, token : BOOLEAN, set : BOOLEAN, bin : Bins \cup {NoBin}]
    BY <2>1, <2>2
  <2> QED
    BY <1>3, <2>1, <2>3
<1>4. CASE k = 3
  BY <1>4 DEF InstallAction, Secret, SecretFile
<1>5. CASE k = 4
  BY <1>5 DEF InstallAction, Unit
<1>6. CASE k = 5
  BY <1>6 DEF InstallAction, Meta
<1>7. CASE k = 6
  BY <1>7 DEF InstallAction, Venv
<1>8. CASE k = 7
  BY <1>8 DEF InstallAction, Pip, Repaired
<1>9. CASE k = 8
  BY <1>9 DEF InstallAction, Package
<1>10. CASE k = 9
  BY <1>10 DEF InstallAction, Reload
<1>11. CASE k = 10
  BY <1>11 DEF InstallAction, Enable
<1>12. CASE k = 11
  BY <1>12 DEF InstallAction, StartIt, SystemctlStart, FilledIn
<1> QED
  BY <1>2, <1>3, <1>4, <1>5, <1>6, <1>7, <1>8, <1>9, <1>10, <1>11, <1>12

\* A step of an install keeps the invariant: a start comes at its end, when the unit has
\* all it needs.
LEMMA InstallActionStep ==
    ASSUME InstallerInv, NEW k \in 1..11, InstallAction(k)
    PROVE  InstallerInv'
<1> USE DEF InstallerInv
<1>1. /\ At(AllSteps[k]) /\ script'.kind = script.kind /\ script'.todo = Tail(script.todo)
      /\ script'.wasActive = script.wasActive /\ ScriptType' /\ UNCHANGED verdict
  BY StepIsMade
<1>2. Progress(k - 1) /\ script.kind \in {"install", "upgrade"}
  BY <1>1, AtStep
<1>3. /\ InstallerTypeOK' /\ Progress(k)' /\ FileInv' /\ (Runnable => Runnable')
      /\ (k # 11 => service' = service)
  BY <1>2, StepAdds
<1>4. ScriptInv'
  BY <1>1, <1>3, Advance
<1>5. RunningInv'
  <2>1. CASE k # 11
    BY <1>1, <1>3, <2>1 DEF RunningInv
  <2>2. CASE k = 11
    <3>1. FilledIn /\ SystemctlStart /\ UNCHANGED <<config, system>>
      BY <2>2 DEF InstallAction, StartIt
    <3>2. Runnable
      BY <1>2, <2>2, <3>1
         DEF Progress, Runnable, HasToken, FilledIn, InstallerTypeOK, Tokens
    <3> QED
      BY <1>1, <1>3, <3>2 DEF RunningInv
  <2> QED
    BY <2>1, <2>2
<1>6. VerdictInv'
  BY <1>1, <1>2 DEF VerdictInv, NoRun
<1> QED
  BY <1>1, <1>3, <1>4, <1>5, <1>6

\* Scripts that begin.
LEMMA BeginStep ==
    ASSUME InstallerInv,
           \/ \E b \in Bins, start \in BOOLEAN : Install(b, start)
           \/ Upgrade \/ Configure
    PROVE  InstallerInv'
<1> USE DEF InstallerInv
<1>a. ASSUME NoRun, UNCHANGED <<config, system, ghosts>>
      PROVE  Runnable => Runnable'
  <2>1. ~script.token
    BY <1>a DEF NoRun, ScriptInv, NoScript
  <2> QED
    BY <1>a, <2>1 DEF Runnable, HasToken, TokenIsOut, config, system, ghosts
<1>1. ASSUME NEW b \in Bins, NEW start \in BOOLEAN, Install(b, start)
      PROVE  InstallerInv'
  <2>1. /\ NoRun /\ verdict' = "none" /\ ScriptType' /\ script'.kind = "install"
        /\ script'.bin = b /\ ~script'.wasActive /\ ~script'.token
        /\ script'.todo = IF start THEN AllSteps ELSE InstallSteps
    BY <1>1, Begins DEF Install, AllSteps
  <2>2. UNCHANGED <<config, system, service, ghosts>>
    BY <1>1 DEF Install
  <2>3. ScriptInv'
    <3>1. Progress(0)'
      BY <2>1 DEF Progress
    <3>2. script'.todo = Left(0, 10) \/ script'.todo = Left(0, 11)
      BY <2>1, WholeInstall
    <3> QED
      BY <2>1, <3>1, <3>2 DEF ScriptInv
  <2> QED
    BY <1>a, <2>1, <2>2, <2>3
       DEF InstallerTypeOK, RunningInv, FileInv, VerdictInv, config, system, ghosts
<1>2. CASE Upgrade
  <2>1. meta \in Bins \cup {NoBin} /\ meta \in Bins /\ (service = "active") \in BOOLEAN
    BY <1>2 DEF Upgrade, HasMeta, InstallerTypeOK
  <2>2. /\ NoRun /\ verdict' = "none" /\ ScriptType' /\ script'.kind = "upgrade"
        /\ script'.bin = meta /\ script'.wasActive = (service = "active")
        /\ script'.todo = InstallSteps /\ ~script'.token
    BY <1>2, <2>1, Begins DEF Upgrade
  <2>3. /\ UNCHANGED <<config, system, ghosts>>
        /\ service' = IF service = "active" THEN "inactive" ELSE service
    BY <1>2 DEF Upgrade
  <2>4. ScriptInv'
    <3>1. Progress(0)'
      BY <2>2 DEF Progress
    <3>2. script'.todo = Left(0, 10) /\ 0 \in 0..10
      BY <2>2, WholeInstall
    <3> QED
      BY <2>2, <3>1, <3>2 DEF ScriptInv
  <2>5. RunningInv'
    BY <1>a, <2>2, <2>3 DEF RunningInv
  <2> QED
    BY <2>1, <2>2, <2>3, <2>4, <2>5
       DEF InstallerTypeOK, FileInv, VerdictInv, config, system, ghosts
<1>3. CASE Configure
  <2>1. /\ NoRun /\ verdict' = "none" /\ ScriptType' /\ script'.kind = "configure"
        /\ ~script'.wasActive /\ script'.todo = <<"settings", "token">> /\ ~script'.token
    BY <1>3, Begins DEF Configure
  <2>2. UNCHANGED <<config, system, service, ghosts>>
    BY <1>3 DEF Configure
  <2>3. ScriptInv'
    BY <2>1 DEF ScriptInv
  <2> QED
    BY <1>a, <2>1, <2>2, <2>3
       DEF InstallerTypeOK, RunningInv, FileInv, VerdictInv, config, system, ghosts
<1> QED
  BY <1>1, <1>2, <1>3

\* The steps of the configuration are not those of an install.
LEMMA AtSetting ==
    ASSUME InstallerTypeOK, ScriptInv, NEW s \in {"settings", "token"}, At(s)
    PROVE  /\ script.kind = "configure" /\ ~script.wasActive /\ ~script.token
           /\ Tail(script.todo) \in {<<"token">>, <<>>}
<1>1. script.todo # <<>> /\ Head(script.todo) = s
  BY DEF At
<1>2. script.kind # "none"
  BY <1>1 DEF ScriptInv, NoScript
<1>3. script.kind \notin {"install", "upgrade"}
  <2> SUFFICES ASSUME script.kind \in {"install", "upgrade"}
               PROVE  FALSE
    OBVIOUS
  <2>1. PICK last \in {10, 11} : \E n \in 0..last : script.todo = Left(n, last)
    BY DEF ScriptInv
  <2>2. PICK n \in 0..last : script.todo = Left(n, last)
    BY <2>1
  <2>3. n # last /\ s = AllSteps[n + 1]
    BY <1>1, <2>2, LeftSteps
  <2> QED
    <3>1. n + 1 \in 1..11
      BY <2>3
    <3> QED
      BY <2>3, <3>1, TheSteps DEF StepNames
<1>4. script.kind = "configure"
  BY <1>2, <1>3 DEF InstallerTypeOK
<1>5. Tail(<<"settings", "token">>) = <<"token">> /\ Tail(<<"token">>) = <<>>
  OBVIOUS
<1> QED
  BY <1>1, <1>4, <1>5 DEF ScriptInv

\* Settings and token are filled in, and nothing that runs needs less.
LEMMA ConfigureStep ==
    ASSUME InstallerInv, FillIn \/ Token
    PROVE  InstallerInv'
<1> USE DEF InstallerInv
<1>1. /\ script.kind = "configure" /\ ~script.wasActive /\ ~script.token
      /\ Tail(script.todo) \in {<<"token">>, <<>>}
  BY AtSetting DEF FillIn, Token
<1>2. script' = [script EXCEPT !.todo = Tail(@)]
  BY DEF FillIn, Token, Done
<1>3. /\ script'.kind = script.kind /\ script'.bin = script.bin
      /\ script'.wasActive = script.wasActive /\ script'.todo = Tail(script.todo)
      /\ script'.token = script.token /\ ScriptType'
  BY <1>2, Proceeds
<1>4. ScriptInv'
  BY <1>1, <1>3 DEF ScriptInv
<1>5. CASE FillIn
  <2>1. main' = [main EXCEPT !.set = TRUE]
        /\ UNCHANGED <<secret, system, service, verdict, ghosts>>
    BY <1>5 DEF FillIn, Done
  <2>2. /\ main'.exists = main.exists /\ main'.token = main.token /\ main'.set
        /\ main' \in [exists : BOOLEAN, token : BOOLEAN, set : BOOLEAN, bin : Bins \cup {NoBin}]
    BY <2>1 DEF InstallerTypeOK
  <2> QED
    BY <1>1, <1>3, <1>4, <2>1, <2>2
       DEF InstallerTypeOK, RunningInv, Runnable, HasToken, TokenIsOut, FileInv, VerdictInv,
           NoRun, system, ghosts
<1>6. CASE Token
  BY <1>1, <1>3, <1>4, <1>6
     DEF Token, InstallerTypeOK, RunningInv, Runnable, HasToken, TokenIsOut, Tokens, FileInv,
         VerdictInv, NoRun, system
<1> QED
  BY <1>5, <1>6

\* What the recovery of an upgrade does: it starts a service that ran before.
LEMMA RecoveryStarts ==
    ASSUME InstallerInv, Recovery \/ StaysDown
    PROVE  /\ service' \in {"inactive", "active", "failing"}
           /\ service' # "inactive" => Runnable
BY DEF InstallerInv, InstallerTypeOK, RunningInv, Recovery, SystemctlStart, StaysDown

\* After the last step systemd goes by the new unit; the steps of a configuration have
\* taken no token.
LEMMA NothingIsOut ==
    ASSUME InstallerInv, script.todo = <<>>
    PROVE  ~TokenIsOut
<1> USE DEF InstallerInv
<1>1. CASE script.kind \in {"install", "upgrade"}
  BY <1>1, AtTheEnd DEF Progress, TokenIsOut
<1>2. CASE script.kind \in {"none", "configure"}
  BY <1>2 DEF ScriptInv, NoScript, TokenIsOut
<1> QED
  BY <1>1, <1>2 DEF InstallerTypeOK

\* The end of a script, good or bad.
LEMMA EndStep ==
    ASSUME InstallerInv, Pass \/ Fail \/ (StartIt /\ ~FilledIn)
    PROVE  InstallerInv'
<1> USE DEF InstallerInv
<1>1. script' = NoScript
  BY DEF Pass, Fail, StartIt, End, StaysDown
<1>2. /\ ScriptType' /\ ScriptInv' /\ script'.kind = "none" /\ ~script'.wasActive
      /\ ~script'.token
  BY <1>1, NoScriptLeft
<1>f. StepFails => failures' \in 0..MaxFailures
  BY InstallerAssumption DEF StepFails, InstallerTypeOK
<1>3. CASE Pass
  <2> DEFINE Ended ==
               /\ script.kind # "none" /\ script.todo = <<>>
               /\ verdict' \in {"none", "installed", "down"}
               /\ verdict' = "installed" => script.kind \in {"install", "upgrade"}
               /\ cut' \in BOOLEAN /\ (HasToken \/ cut => HasToken \/ cut')
               /\ failures' \in 0..MaxFailures
               /\ UNCHANGED <<config, system, given>>
  <2>a. ASSUME StaysDown, UNCHANGED cut PROVE Ended
    <3>1. verdict' = "down" /\ failures' \in 0..MaxFailures /\ cut' = cut
      BY <2>a, <1>f DEF StaysDown, End
    <3> QED
      BY <1>3, <3>1 DEF Pass, NoRun, InstallerTypeOK
  <2>b. ASSUME End(IF script.kind = "configure" THEN "none" ELSE "installed"),
               cut' = (cut /\ ~HasToken), UNCHANGED failures
        PROVE  Ended
    <3>1. /\ verdict' \in {"none", "installed"}
          /\ verdict' = "installed" => script.kind # "configure"
      BY <2>b DEF End
    <3>2. failures' \in 0..MaxFailures
      BY <2>b DEF InstallerTypeOK
    <3>3. cut' \in BOOLEAN /\ (HasToken \/ cut => HasToken \/ cut')
      BY <2>b, Zenon
    <3> QED
      BY <1>3, <3>1, <3>2, <3>3 DEF Pass, NoRun, InstallerTypeOK
  <2>1. Ended
    BY <1>3, <2>a, <2>b DEF Pass
  <2>2. service' \in {"inactive", "active", "failing"} /\ (service' # "inactive" => Runnable)
    BY <1>3, RecoveryStarts DEF Pass
  <2>3. Runnable => Runnable'
    BY <1>2, <2>1, NothingIsOut DEF Runnable, HasToken, config, system
  <2>4. VerdictInv'
    <3>1. CASE verdict' = "installed"
      <4>1. Progress(10)
        BY <2>1, <3>1, AtTheEnd
      <4> QED
        BY <1>2, <2>1, <4>1 DEF VerdictInv, NoRun, PassIsComplete, Progress, config, system
    <3>2. CASE verdict' # "installed"
      BY <3>2 DEF VerdictInv
    <3> QED
      BY <3>1, <3>2
  <2> QED
    BY <1>2, <2>1, <2>2, <2>3, <2>4
       DEF InstallerTypeOK, RunningInv, FileInv, config, system
<1>4. CASE Fail
  <2>1. /\ verdict' \in {"failed", "down"} /\ failures' \in 0..MaxFailures
        /\ venv' = venv \/ (venv = "none" /\ venv' = "bare")
        /\ cut' = (cut \/ TokenIsOut)
        /\ UNCHANGED <<config, unit, loaded, enabled, meta, given>>
    BY <1>4, <1>f DEF Fail, End, StaysDown, TokenIsOut
  <2>2. service' \in {"inactive", "active", "failing"} /\ (service' # "inactive" => Runnable)
    BY <1>4, RecoveryStarts DEF Fail
  <2>3. Runnable => Runnable'
    BY <2>1 DEF Runnable, HasToken, config
  <2>4. cut' \in BOOLEAN
    BY <1>4 DEF Fail
  <2> QED
    BY <1>2, <2>1, <2>2, <2>3, <2>4
       DEF InstallerTypeOK, RunningInv, FileInv, VerdictInv, config
<1>5. CASE StartIt /\ ~FilledIn
  <2>1. verdict' = "failed" /\ UNCHANGED <<service, ghosts, config, system>>
    BY <1>5 DEF StartIt, End
  <2>2. ~TokenIsOut
    <3>1. At(AllSteps[11])
      BY <1>5, TheSteps DEF StartIt
    <3>2. Progress(11 - 1)
      BY <3>1, AtStep
    <3> QED
      BY <3>2 DEF Progress, TokenIsOut
  <2>3. Runnable => Runnable'
    BY <2>1, <2>2 DEF Runnable, HasToken, config, system, ghosts
  <2> QED
    BY <1>2, <2>1, <2>3
       DEF InstallerTypeOK, RunningInv, FileInv, VerdictInv, config, system, ghosts
<1> QED
  BY <1>3, <1>4, <1>5

\* systemd starts it again.
LEMMA RestartStep ==
    ASSUME InstallerInv, Restarts
    PROVE  InstallerInv'
<1>1. /\ service # "inactive" /\ service' \in {"active", "failing"}
      /\ UNCHANGED <<config, system, script, verdict, ghosts>>
  BY DEF Restarts, SystemctlStart
<1>2. UNCHANGED <<main, secret, unit, loaded, enabled, meta, venv, given, cut, failures>>
  BY <1>1 DEF config, system, ghosts
<1>3. Runnable /\ Runnable'
  BY <1>1, <1>2 DEF InstallerInv, RunningInv, Runnable, HasToken, TokenIsOut
<1>4. ScriptInv' /\ ScriptType' /\ VerdictInv'
  BY <1>1, <1>2 DEF InstallerInv, ScriptInv, Progress, ScriptType, VerdictInv, PassIsComplete,
                    NoRun
<1> QED
  BY <1>1, <1>2, <1>3, <1>4 DEF InstallerInv, InstallerTypeOK, RunningInv, FileInv

\* What is removed needs no service, as the service is stopped first.
LEMMA UninstallStep ==
    ASSUME InstallerInv, NEW c \in BOOLEAN, NEW v \in BOOLEAN, Uninstall(c, v)
    PROVE  InstallerInv'
<1> USE DEF InstallerInv
<1>1. script.kind = "none" /\ script' = script /\ ~script.wasActive
  BY DEF Uninstall, NoRun, ScriptInv
<1>2. ScriptType' /\ ScriptInv'
  BY <1>1 DEF ScriptType, ScriptInv
<1>3. InstallerTypeOK' /\ FileInv'
  <2>1. /\ main' \in [exists : BOOLEAN, token : BOOLEAN, set : BOOLEAN, bin : Bins \cup {NoBin}]
        /\ main'.token => main'.exists
    <3>1. CASE c
      <4>1. main' = [exists |-> FALSE, token |-> FALSE, set |-> FALSE, bin |-> NoBin]
        BY <3>1 DEF Uninstall
      <4> QED
        BY <4>1
    <3>2. CASE ~c
      <4>1. main' = main
        BY <3>2 DEF Uninstall
      <4> QED
        BY <4>1 DEF InstallerTypeOK, FileInv
    <3> QED
      BY <3>1, <3>2
  <2>2. /\ secret' \in {secret, "none"} /\ meta' \in {meta, NoBin} /\ venv' \in {venv, "none"}
        /\ given' \in {given, FALSE} /\ unit' = "none" /\ loaded' = "none" /\ enabled' = FALSE
        /\ service' = "inactive" /\ verdict' = "none" /\ UNCHANGED <<cut, failures>>
    BY DEF Uninstall
  <2> QED
    BY <1>1, <2>1, <2>2 DEF InstallerTypeOK, Units, FileInv
<1> QED
  BY <1>1, <1>2, <1>3 DEF Uninstall, RunningInv, VerdictInv

\* The invariant is inductive.
LEMMA InstallerInductive ==
    /\ InstallerInit => InstallerInv
    /\ InstallerInv /\ [InstallerNext]_installerVars => InstallerInv'
<1>1. ASSUME InstallerInit PROVE InstallerInv
  <2>1. /\ script = NoScript /\ service \in {"inactive", "active"} /\ verdict = "none"
        /\ service = "active" => CanRun
    BY <1>1 DEF InstallerInit
  <2>2. ScriptType /\ ScriptInv
    BY <2>1 DEF ScriptType, ScriptInv, NoScript
  <2>3. RunningInv /\ VerdictInv
    BY <2>1 DEF RunningInv, Runnable, CanRun, VerdictInv, NoScript
  <2>4. /\ main \in [exists : BOOLEAN, token : BOOLEAN, set : BOOLEAN, bin : Bins \cup {NoBin}]
        /\ main.token => main.exists
    <3>1. \/ main = [exists |-> FALSE, token |-> FALSE, set |-> FALSE, bin |-> NoBin]
          \/ \E b \in Bins : main = [exists |-> TRUE, token |-> TRUE, set |-> TRUE, bin |-> b]
      BY <1>1 DEF InstallerInit
    <3>2. CASE main = [exists |-> FALSE, token |-> FALSE, set |-> FALSE, bin |-> NoBin]
      BY <3>2
    <3>3. ASSUME NEW b \in Bins,
                 main = [exists |-> TRUE, token |-> TRUE, set |-> TRUE, bin |-> b]
          PROVE  /\ main.exists /\ main.bin \in Bins \cup {NoBin}
                 /\ main \in [exists : BOOLEAN, token : BOOLEAN, set : BOOLEAN,
                              bin : Bins \cup {NoBin}]
      BY <3>3
    <3> QED
      BY <3>1, <3>2, <3>3
  <2>5. failures \in 0..MaxFailures
    BY <1>1, InstallerAssumption DEF InstallerInit
  <2>6. /\ secret \in {"none", "empty", "legacy", "own"} /\ unit \in Units /\ loaded \in Units
        /\ enabled \in BOOLEAN /\ cut \in BOOLEAN /\ meta \in Bins \cup {NoBin} /\ given \in BOOLEAN
        /\ venv \in {"none", "bare", "pip", "ready"}
    BY <1>1 DEF InstallerInit, Units
  <2> QED
    BY <2>1, <2>2, <2>3, <2>4, <2>5, <2>6 DEF InstallerInv, InstallerTypeOK, FileInv, NoScript
<1>2. ASSUME InstallerInv, [InstallerNext]_installerVars PROVE InstallerInv'
  <2>1. CASE \/ \E b \in Bins, start \in BOOLEAN : Install(b, start)
             \/ Upgrade \/ Configure
    BY <1>2, <2>1, BeginStep
  <2>2. CASE \E c, v \in BOOLEAN : Uninstall(c, v)
    BY <1>2, <2>2, UninstallStep
  <2>3. CASE \E k \in 1..11 : InstallAction(k)
    BY <1>2, <2>3, InstallActionStep
  <2>4. CASE FillIn \/ Token
    BY <1>2, <2>4, ConfigureStep
  <2>5. CASE Pass \/ Fail \/ (StartIt /\ ~FilledIn)
    BY <1>2, <2>5, EndStep
  <2>6. CASE UNCHANGED installerVars
    BY <1>2, <2>6
       DEF installerVars, config, system, ghosts, InstallerInv, InstallerTypeOK, ScriptType,
           ScriptInv, Progress, RunningInv, Runnable, HasToken, TokenIsOut, FileInv, VerdictInv,
           NoRun, PassIsComplete
  <2>7. ASSUME \/ Env \/ Bin \/ Secret \/ Unit \/ Meta \/ Venv \/ Pip \/ Package \/ Reload \/ Enable
               \/ StartIt /\ FilledIn
        PROVE  \E k \in 1..11 : InstallAction(k)
    BY <2>7 DEF InstallAction
  <2>8. CASE Restarts
    BY <1>2, <2>8, RestartStep
  <2> QED
    BY <1>2, <2>1, <2>2, <2>3, <2>4, <2>5, <2>6, <2>7, <2>8 DEF InstallerNext
<1> QED
  BY <1>1, <1>2

-----------------------------------------------------------------------------

\* An upgrade ends by its recovery: it has no start among its steps.
LEMMA UpgradeStep ==
    ASSUME InstallerInv, [InstallerNext]_installerVars,
           script.kind = "upgrade", script'.kind = "none", verdict' # "down", ~cut'
    PROVE  service' = IF script.wasActive THEN "active" ELSE service
<1> USE DEF InstallerInv
<1>1. CASE Pass \/ Fail
  <2>1. Recovery
    BY <1>1 DEF Pass, Fail, StaysDown, End
  <2>2. ~TokenIsOut
    BY <1>1, NothingIsOut DEF Pass, Fail, TokenIsOut
  <2>3. cut => HasToken
    BY <1>1 DEF Pass, Fail, StaysDown, End
  <2>4. script.wasActive => CanRun
    BY <2>2, <2>3 DEF RunningInv, Runnable, CanRun
  <2> QED
    BY <2>1, <2>4 DEF Recovery, SystemctlStart
<1>2. CASE StartIt
  <2>1. At(AllSteps[11])
    BY <1>2, TheSteps DEF StartIt
  <2>2. PICK last \in {10, 11} : 11 <= last /\ (script.kind = "upgrade" => last = 10)
    BY <2>1, AtStep
  <2> QED
    BY <2>2
<1>3. ASSUME NEW k \in 1..11, InstallAction(k) PROVE FALSE
  <2>1. script'.kind = script.kind
    BY <1>3, StepIsMade
  <2> QED
    BY <2>1
<1>4. CASE FillIn \/ Token
  <2>1. script' = [script EXCEPT !.todo = Tail(@)]
    BY <1>4 DEF FillIn, Token, Done
  <2> QED
    BY <2>1, Proceeds
<1>5. ASSUME \/ Env \/ Bin \/ Secret \/ Unit \/ Meta \/ Venv \/ Pip \/ Package \/ Reload \/ Enable
      PROVE  \E k \in 1..11 : InstallAction(k)
  BY <1>5 DEF InstallAction
<1>6. ~NoRun /\ \A k, ordered, bin, active : ~Begin(k, ordered, bin, active)
  BY DEF NoRun, Begin
<1>7. CASE Restarts \/ UNCHANGED installerVars
  BY <1>7 DEF Restarts, installerVars
<1>8. /\ \A b \in Bins, start \in BOOLEAN : ~Install(b, start)
      /\ \A c, v \in BOOLEAN : ~Uninstall(c, v)
      /\ ~Upgrade /\ ~Configure
  <2>1. \A b \in Bins, start \in BOOLEAN : ~Install(b, start)
    BY <1>6, Zenon DEF Install
  <2>2. \A c, v \in BOOLEAN : ~Uninstall(c, v)
    BY <1>6, Zenon DEF Uninstall
  <2> QED
    BY <1>6, <2>1, <2>2, Zenon DEF Upgrade, Configure
<1> QED
  BY <1>1, <1>2, <1>3, <1>4, <1>5, <1>7, <1>8 DEF InstallerNext

\* What is filled in stays, whatever the step.
LEMMA NothingLost ==
    ASSUME InstallerInv, [InstallerNext]_installerVars, main'.exists, secret' # "none"
    PROVE  /\ main.set => main'.set
           /\ secret = "own" => secret' = "own"
           /\ secret = "legacy" => secret' \in Tokens
<1> USE DEF InstallerInv
<1>1. ASSUME NEW k \in 1..11, InstallAction(k)
      PROVE  main'.set = main.set /\ (secret \in Tokens => secret' = secret)
  <2>1. Progress(k - 1)
    BY <1>1, StepIsMade, AtStep
  <2> QED
    BY <1>1, <2>1, StepAdds
<1>2. CASE FillIn
  BY <1>2 DEF FillIn, InstallerTypeOK, Tokens
<1>3. CASE Token
  BY <1>3 DEF Token, Tokens
<1>4. ASSUME NEW c \in BOOLEAN, NEW v \in BOOLEAN, Uninstall(c, v)
      PROVE  UNCHANGED config
  BY <1>4 DEF Uninstall, config
<1>5. CASE \/ \E b \in Bins, start \in BOOLEAN : Install(b, start)
           \/ Upgrade \/ Configure \/ Pass \/ Fail \/ (StartIt /\ ~FilledIn)
           \/ Restarts \/ UNCHANGED installerVars
  BY <1>5 DEF Install, Upgrade, Configure, Pass, Fail, StartIt, Restarts, installerVars, config,
              Tokens
<1>6. ASSUME \/ Env \/ Bin \/ Secret \/ Unit \/ Meta \/ Venv \/ Pip \/ Package \/ Reload \/ Enable
             \/ StartIt /\ FilledIn
      PROVE  \E k \in 1..11 : InstallAction(k)
  BY <1>6 DEF InstallAction
<1>7. UNCHANGED config => main' = main /\ secret' = secret
  BY DEF config
<1> QED
  BY <1>1, <1>2, <1>3, <1>4, <1>5, <1>6, <1>7 DEF InstallerNext, Tokens

\* upgrade-service.sh and install-service.sh, on new hosts and on those of an earlier
\* release, running or not: an upgrade restores the service or says that it did not, no
\* script leaves one that cannot run to be started, and "installation: PASS" means a whole
\* installation, whichever steps fail -- but for an install that is cut when the token has
\* left the main file, before systemd knows the unit that reads it elsewhere.
THEOREM InstallsTrue == InstallerSpec => InstallsAreTrue
<1>1. InstallerInv => NeverFailing /\ PassIsComplete
  BY DEF InstallerInv, RunningInv, Runnable, CanRun, NeverFailing, VerdictInv, PassIsComplete
<1>2. ASSUME InstallerInv, [InstallerNext]_installerVars
      PROVE  [script.kind = "upgrade" /\ script'.kind = "none" /\ verdict' # "down" /\ ~cut'
              => service' = IF script.wasActive THEN "active" ELSE service]_installerVars
  BY <1>2, UpgradeStep
<1> QED
  BY <1>1, <1>2, InstallerInductive, PTL DEF InstallerSpec, InstallsAreTrue, UpgradeRestores

\* The same scripts: the settings and the token that the operator has filled in survive
\* every script but a purge.
THEOREM NothingIsOverwritten == InstallerSpec => NothingOverwritten
<1>1. ASSUME InstallerInv, [InstallerNext]_installerVars
      PROVE  [main'.exists /\ secret' # "none"
              => /\ main.set => main'.set
                 /\ secret = "own" => secret' = "own"
                 /\ secret = "legacy" => secret' \in Tokens]_installerVars
  BY <1>1, NothingLost
<1> QED
  BY <1>1, InstallerInductive, PTL DEF InstallerSpec, NothingOverwritten

-----------------------------------------------------------------------------
(* Opening the database.                                                    *)

\* The statements of the migrations.
Statements == {Create(o) : o \in Schema(SchemaVersion)} \cup {Fill}
              \cup {Version(v) : v \in 2..SchemaVersion}

\* What the statements of s before the ith create.
CreatedBefore(s, i) == {s[j].object : j \in {k \in 1..(i - 1) : s[k].does = "create"}}

\* A version is written after all it stands for: what is missing, tables and deliveries, is
\* made by the statements before it.
Promised(s, i) ==
    s[i].does = "version" =>
        /\ Schema(s[i].to) \subseteq objects \cup CreatedBefore(s, i)
        /\ deliveries = eventRows \/ \E j \in 1..(i - 1) : s[j].does = "fill"

\* The statements that are left keep what they promise.
KeepsPromises(s) == s \in Seq(Statements) /\ \A i \in 1..Len(s) : Promised(s, i)

\* The file is what its version says, but for the deliveries of the release that had none.
FileIsTrue ==
    /\ version \in Nat /\ objects \subseteq Schema(SchemaVersion)
    /\ VersionIsTrue
    /\ deliveries \subseteq eventRows
    /\ version # 1 => deliveries = eventRows
    /\ phase = "open" => version = SchemaVersion

MigrationInv == FileIsTrue /\ KeepsPromises(todo)

LEMMA StatementKinds ==
    ASSUME NEW s \in Statements
    PROVE  \/ s.does = "create" /\ s.object \in Schema(SchemaVersion)
           \/ s.does = "fill"
           \/ s.does = "version" /\ s.to \in 2..SchemaVersion
BY DEF Statements, Create, Fill, Version

\* A script of creations.
LEMMA CreatesAll ==
    ASSUME NEW n \in Nat, NEW names \in [1..n -> Schema(SchemaVersion)]
    PROVE  /\ Creates(names) \in Seq(Statements) /\ Len(Creates(names)) = n
           /\ \A j \in 1..n : /\ Creates(names)[j].does = "create"
                              /\ Creates(names)[j].object = names[j]
<1> DEFINE s == Creates(names)
<1>1. s = [j \in 1..n |-> Create(names[j])]
  BY DEF Creates
<1>2. \A j \in 1..n : Create(names[j]) \in Statements
  BY DEF Statements
<1> HIDE DEF s
<1>3. s \in [1..n -> Statements]
  BY <1>1, <1>2
<1>4. s \in Seq(Statements) /\ Len(s) = n
  BY <1>3, TupleIsSequence
<1>5. \A j \in 1..n : s[j].does = "create" /\ s[j].object = names[j]
  BY <1>1 DEF Create
<1> QED
  BY <1>4, <1>5 DEF s

\* A script keeps its promises if its version comes last, after what is missing.
LEMMA VersionLast ==
    ASSUME NEW s \in Seq(Statements), \A j \in 1..Len(s) : s[j].does # "version",
           NEW v \in 2..SchemaVersion,
           \A o \in Schema(v) : \/ o \in objects
                                \/ \E j \in 1..Len(s) : s[j].does = "create" /\ s[j].object = o,
           deliveries = eventRows \/ \E j \in 1..Len(s) : s[j].does = "fill"
    PROVE  KeepsPromises(Append(s, Version(v)))
<1> DEFINE q == Append(s, Version(v))
<1>1. Version(v) \in Statements /\ Version(v).to = v
  BY DEF Statements, Version
<1>2. q \in Seq(Statements) /\ Len(q) = Len(s) + 1 /\ Len(s) \in Nat
  BY <1>1
<1>3. q[Len(s) + 1] = Version(v)
  BY <1>1, AppendedLast
<1>4. \A j \in 1..Len(s) : q[j] = s[j]
  BY <1>1, AppendedFirst
<1> HIDE DEF q
<1>5. ASSUME NEW i \in 1..Len(q), q[i].does = "version"
      PROVE  Promised(q, i)
  <2>1. i = Len(s) + 1
    BY <1>2, <1>4, <1>5
  <2>2. q[i].to = v /\ i - 1 = Len(s)
    BY <1>1, <1>2, <1>3, <2>1
  <2>3. ASSUME NEW o \in Schema(v), o \notin objects
        PROVE  o \in CreatedBefore(q, i)
    <3>1. PICK j \in 1..Len(s) : s[j].does = "create" /\ s[j].object = o
      BY <2>3
    <3> QED
      BY <1>4, <2>2, <3>1 DEF CreatedBefore
  <2> QED
    BY <1>4, <2>2, <2>3 DEF Promised
<1>6. ASSUME NEW i \in 1..Len(q), q[i].does # "version"
      PROVE  Promised(q, i)
  BY <1>6 DEF Promised
<1> QED
  BY <1>2, <1>5, <1>6 DEF KeepsPromises, q

\* Every script of the source keeps its promises when it begins at its version.
LEMMA FreshScriptPromises ==
    ASSUME FileIsTrue, version = 0
    PROVE  KeepsPromises(Script(0))
<1> DEFINE names == <<"workspaces", "sessions", "sessions.auto_run", "notify_events",
                      "discord_deliveries", "idx_sessions_workspace_id",
                      "idx_notify_events_thread_id", "idx_discord_deliveries_status",
                      "jobs", "idx_jobs_thread_status",
                      "idx_jobs_one_dispatched_per_session">>
           n == 11
<1>1. n \in Nat /\ names = [j \in 1..n |-> names[j]]
  OBVIOUS
<1>2. \A j \in 1..n : names[j] \in Schema(SchemaVersion)
  BY DEF Schema, SchemaVersion, Core, Outbox, JobTable, AutoRun
<1>3. \A o \in Schema(SchemaVersion) : \E j \in 1..n : names[j] = o
  <2>1. /\ 1 \in 1..n /\ 2 \in 1..n /\ 3 \in 1..n /\ 4 \in 1..n /\ 5 \in 1..n /\ 6 \in 1..n
        /\ 7 \in 1..n /\ 8 \in 1..n /\ 9 \in 1..n /\ 10 \in 1..n /\ 11 \in 1..n
    OBVIOUS
  <2>2. /\ names[1] = "workspaces" /\ names[2] = "sessions" /\ names[3] = "sessions.auto_run"
        /\ names[4] = "notify_events" /\ names[5] = "discord_deliveries"
        /\ names[6] = "idx_sessions_workspace_id" /\ names[7] = "idx_notify_events_thread_id"
        /\ names[8] = "idx_discord_deliveries_status" /\ names[9] = "jobs"
        /\ names[10] = "idx_jobs_thread_status"
        /\ names[11] = "idx_jobs_one_dispatched_per_session"
    OBVIOUS
  <2> HIDE DEF names, n
  <2> QED
    BY <2>1, <2>2 DEF Schema, SchemaVersion, Core, Outbox, JobTable, AutoRun
<1>4. Script(0) = Append(Creates(names), Version(SchemaVersion))
  BY DEF Script, FreshScript
<1> HIDE DEF names, n
<1>5. names \in [1..n -> Schema(SchemaVersion)]
  BY <1>1, <1>2
<1> DEFINE s == Creates(names)
<1>6. /\ s \in Seq(Statements) /\ Len(s) = n
      /\ \A j \in 1..n : s[j].does = "create" /\ s[j].object = names[j]
  BY <1>1, <1>5, CreatesAll
<1> HIDE DEF s
<1>7. \A o \in Schema(SchemaVersion) : \E j \in 1..Len(s) : s[j].does = "create" /\ s[j].object = o
  BY <1>3, <1>6
<1>8. deliveries = eventRows /\ SchemaVersion \in 2..SchemaVersion
  BY DEF FileIsTrue, SchemaVersion
<1>9. KeepsPromises(Append(s, Version(SchemaVersion)))
  BY <1>6, <1>7, <1>8, VersionLast
<1> QED
  BY <1>4, <1>9 DEF s

LEMMA JobScriptPromises ==
    ASSUME FileIsTrue, version = 2
    PROVE  KeepsPromises(Script(2))
<1> DEFINE names == <<"jobs", "idx_jobs_thread_status", "idx_jobs_one_dispatched_per_session">>
           n == 3
<1>1. n \in Nat /\ names = [j \in 1..n |-> names[j]]
  OBVIOUS
<1>2. \A j \in 1..n : names[j] \in Schema(SchemaVersion)
  BY DEF Schema, SchemaVersion, JobTable
<1>3. \A o \in JobTable : \E j \in 1..n : names[j] = o
  <2>1. 1 \in 1..n /\ 2 \in 1..n /\ 3 \in 1..n
    OBVIOUS
  <2>2. /\ names[1] = "jobs" /\ names[2] = "idx_jobs_thread_status"
        /\ names[3] = "idx_jobs_one_dispatched_per_session"
    OBVIOUS
  <2> HIDE DEF names, n
  <2> QED
    BY <2>1, <2>2 DEF JobTable
<1>4. Script(2) = Append(Creates(names), Version(3))
  BY DEF Script, JobScript
<1> HIDE DEF names, n
<1>5. names \in [1..n -> Schema(SchemaVersion)]
  BY <1>1, <1>2
<1> DEFINE s == Creates(names)
<1>6. /\ s \in Seq(Statements) /\ Len(s) = n
      /\ \A j \in 1..n : s[j].does = "create" /\ s[j].object = names[j]
  BY <1>1, <1>5, CreatesAll
<1> HIDE DEF s
<1>7. \A o \in Schema(3) : \/ o \in objects
                           \/ \E j \in 1..Len(s) : s[j].does = "create" /\ s[j].object = o
  <2>1. Schema(3) = Schema(2) \cup JobTable /\ Schema(2) \subseteq Schema(SchemaVersion)
    BY DEF Schema, SchemaVersion
  <2>2. Schema(2) \subseteq objects
    BY <2>1 DEF FileIsTrue, VersionIsTrue
  <2> QED
    BY <1>3, <1>6, <2>1, <2>2
<1>8. deliveries = eventRows /\ 3 \in 2..SchemaVersion
  BY DEF FileIsTrue, SchemaVersion
<1>9. KeepsPromises(Append(s, Version(3)))
  BY <1>6, <1>7, <1>8, VersionLast
<1> QED
  BY <1>4, <1>9 DEF s

LEMMA OutboxScriptPromises ==
    ASSUME FileIsTrue, version = 1
    PROVE  KeepsPromises(Script(1))
<1> DEFINE names == <<"discord_deliveries", "idx_discord_deliveries_status">>
           n == 2
<1>1. n \in Nat /\ names = [j \in 1..n |-> names[j]]
  OBVIOUS
<1>2. \A j \in 1..n : names[j] \in Schema(SchemaVersion)
  BY DEF Schema, SchemaVersion, Outbox
<1>3. \A o \in Outbox : \E j \in 1..n : names[j] = o
  <2>1. 1 \in 1..n /\ 2 \in 1..n
    OBVIOUS
  <2>2. names[1] = "discord_deliveries" /\ names[2] = "idx_discord_deliveries_status"
    OBVIOUS
  <2> HIDE DEF names, n
  <2> QED
    BY <2>1, <2>2 DEF Outbox
<1>4. Script(1) = Append(Append(Creates(names), Fill), Version(2))
  BY DEF Script, OutboxScript
<1> HIDE DEF names, n
<1>5. names \in [1..n -> Schema(SchemaVersion)]
  BY <1>1, <1>2
<1> DEFINE c == Creates(names)
           s == Append(c, Fill)
<1>6. /\ c \in Seq(Statements) /\ Len(c) = n
      /\ \A j \in 1..n : c[j].does = "create" /\ c[j].object = names[j]
  BY <1>1, <1>5, CreatesAll
<1> HIDE DEF c
<1>7. Fill \in Statements /\ Fill.does = "fill"
  BY DEF Statements, Fill
<1>8. s \in Seq(Statements) /\ Len(s) = n + 1
  BY <1>6, <1>7
<1>9. s[n + 1] = Fill
  BY <1>6, <1>7, AppendedLast
<1>10. \A j \in 1..n : s[j] = c[j]
  BY <1>6, <1>7, AppendedFirst
<1> HIDE DEF s
<1>11. \A j \in 1..Len(s) : s[j].does # "version"
  <2> SUFFICES ASSUME NEW j \in 1..Len(s) PROVE s[j].does # "version"
    OBVIOUS
  <2>1. j \in 1..n \/ j = n + 1
    BY <1>1, <1>8
  <2> QED
    BY <1>6, <1>7, <1>9, <1>10, <2>1
<1>12. \A o \in Schema(2) : \/ o \in objects
                            \/ \E j \in 1..Len(s) : s[j].does = "create" /\ s[j].object = o
  <2>1. Schema(2) = Schema(1) \cup Outbox /\ Schema(1) \subseteq Schema(SchemaVersion)
    BY DEF Schema, SchemaVersion
  <2>2. Schema(1) \subseteq objects
    BY <2>1 DEF FileIsTrue, VersionIsTrue
  <2>3. \A j \in 1..n : j \in 1..Len(s)
    BY <1>1, <1>8
  <2> QED
    BY <1>3, <1>6, <1>10, <2>1, <2>2, <2>3
<1>13. /\ \E j \in 1..Len(s) : s[j].does = "fill"
       /\ 2 \in 2..SchemaVersion
  <2>1. n + 1 \in 1..Len(s)
    BY <1>1, <1>8
  <2> QED
    BY <1>7, <1>9, <2>1 DEF SchemaVersion
<1>14. KeepsPromises(Append(s, Version(2)))
  BY <1>8, <1>11, <1>12, <1>13, VersionLast
<1> QED
  BY <1>4, <1>14 DEF c, s

\* A statement that is executed keeps its part of what the later ones need.
LEMMA ExecutedPromises ==
    ASSUME FileIsTrue, KeepsPromises(todo), todo # <<>>, Execute(Head(todo)),
           todo' = Tail(todo), phase' = phase, phase # "open"
    PROVE  MigrationInv'
<1> DEFINE h == Head(todo)
<1>1. h \in Statements /\ h = todo[1] /\ 1 \in 1..Len(todo) /\ Len(todo) \in Nat
  BY DEF KeepsPromises
<1>2. todo' \in Seq(Statements) /\ Len(todo') = Len(todo) - 1
  BY DEF KeepsPromises
<1>3. \A j \in 1..Len(todo') : todo'[j] = todo[j + 1]
  BY <1>2 DEF KeepsPromises
<1> HIDE DEF h
<1>5. /\ objects' = IF h.does = "create" THEN objects \cup {h.object} ELSE objects
      /\ deliveries' = IF h.does = "fill" THEN deliveries \cup eventRows ELSE deliveries
      /\ version' = IF h.does = "version" THEN h.to ELSE version
      /\ eventRows' = eventRows
  BY DEF Execute, h
<1>6. objects \subseteq objects'
  BY <1>5
<1>7. deliveries = eventRows => deliveries' = eventRows'
  BY <1>5
<1>8. ASSUME h.does = "version"
      PROVE  Schema(h.to) \subseteq objects /\ deliveries = eventRows
  <2>1. Promised(todo, 1)
    BY <1>1 DEF KeepsPromises
  <2>2. CreatedBefore(todo, 1) = {}
    BY DEF CreatedBefore
  <2> QED
    BY <1>1, <1>8, <2>1, <2>2 DEF Promised
<1>9. FileIsTrue'
  <2>1. version' \in Nat /\ objects' \subseteq Schema(SchemaVersion)
    BY <1>1, <1>5, StatementKinds DEF FileIsTrue, SchemaVersion
  <2>2. VersionIsTrue'
    <3>1. CASE h.does = "version"
      BY <1>5, <1>6, <1>8, <3>1 DEF VersionIsTrue, Schema, Core, Outbox, JobTable, AutoRun
    <3>2. CASE h.does # "version"
      BY <1>5, <1>6, <3>2 DEF FileIsTrue, VersionIsTrue, Schema
    <3> QED
      BY <3>1, <3>2
  <2>3. deliveries' \subseteq eventRows' /\ (version' # 1 => deliveries' = eventRows')
    BY <1>5, <1>7, <1>8 DEF FileIsTrue
  <2> QED
    BY <2>1, <2>2, <2>3 DEF FileIsTrue
<1>10. ASSUME NEW i \in 1..Len(todo')
       PROVE  Promised(todo, i)'
  <2>1. i + 1 \in 1..Len(todo) /\ todo'[i] = todo[i + 1]
    BY <1>1, <1>2, <1>3
  <2>2. Promised(todo, i + 1)
    BY <2>1 DEF KeepsPromises
  <2> SUFFICES ASSUME todo'[i].does = "version"
               PROVE  /\ Schema(todo'[i].to) \subseteq objects' \cup CreatedBefore(todo, i)'
                      /\ deliveries' = eventRows' \/ \E j \in 1..(i - 1) : todo'[j].does = "fill"
    BY DEF Promised
  <2>3. ASSUME NEW o \in Schema(todo'[i].to), o \notin objects'
        PROVE  o \in CreatedBefore(todo, i)'
    <3>1. o \in CreatedBefore(todo, i + 1)
      BY <1>6, <2>1, <2>2, <2>3 DEF Promised
    <3>2. PICK j \in 1..i : todo[j].does = "create" /\ todo[j].object = o
      BY <3>1 DEF CreatedBefore
    <3>3. j # 1
      BY <1>1, <1>5, <2>3, <3>2
    <3>4. j - 1 \in 1..(i - 1) /\ todo'[j - 1] = todo[j]
      BY <1>2, <1>3, <3>3
    <3> QED
      BY <3>2, <3>4 DEF CreatedBefore
  <2>4. ASSUME deliveries' # eventRows'
        PROVE  \E j \in 1..(i - 1) : todo'[j].does = "fill"
    <3>1. PICK j \in 1..i : todo[j].does = "fill"
      BY <1>7, <2>1, <2>2, <2>4 DEF Promised
    <3>2. j # 1
      BY <1>1, <1>5, <2>4, <3>1 DEF FileIsTrue
    <3>3. j - 1 \in 1..(i - 1) /\ todo'[j - 1] = todo[j]
      BY <1>2, <1>3, <3>2
    <3> QED
      BY <3>1, <3>3
  <2> QED
    BY <2>3, <2>4
<1> QED
  BY <1>2, <1>9, <1>10 DEF MigrationInv, KeepsPromises

\* Nothing is left to do, or what is left is the same, or a script begins.
LEMMA NothingPromised == todo' = <<>> => KeepsPromises(todo)'
<1>1. <<>> \in Seq(Statements) /\ Len(<<>>) = 0
  OBVIOUS
<1> QED
  BY <1>1 DEF KeepsPromises

LEMMA SamePromises ==
    ASSUME KeepsPromises(todo), UNCHANGED <<objects, todo>>,
           deliveries = eventRows => deliveries' = eventRows'
    PROVE  KeepsPromises(todo)'
<1>1. ASSUME NEW i \in 1..Len(todo), Promised(todo, i)
      PROVE  Promised(todo, i)'
  BY <1>1 DEF Promised, CreatedBefore
<1> QED
  BY <1>1 DEF KeepsPromises

LEMMA ScriptBegins ==
    ASSUME NEW s, KeepsPromises(s), todo' = s, UNCHANGED database
    PROVE  KeepsPromises(todo)'
<1>1. ASSUME NEW i \in 1..Len(s), Promised(s, i)
      PROVE  Promised(todo, i)'
  BY <1>1 DEF Promised, CreatedBefore, database
<1> QED
  BY <1>1 DEF KeepsPromises

\* The script of the version that the file has.
LEMMA NextScriptPromises ==
    ASSUME FileIsTrue, version < 3, todo' = Script(version), UNCHANGED database
    PROVE  KeepsPromises(todo)'
<1>1. version \in 0..2
  BY DEF FileIsTrue
<1>2. CASE version = 0
  BY <1>2, FreshScriptPromises, ScriptBegins
<1>3. CASE version = 1
  BY <1>3, OutboxScriptPromises, ScriptBegins
<1>4. CASE version = 2
  BY <1>4, JobScriptPromises, ScriptBegins
<1> QED
  BY <1>1, <1>2, <1>3, <1>4

\* A file that nobody has written to is what it was.
LEMMA SameFile ==
    ASSUME FileIsTrue, UNCHANGED database, phase' = "open" => version = SchemaVersion
    PROVE  FileIsTrue'
BY DEF FileIsTrue, VersionIsTrue, database

\* Every step keeps the file true.
LEMMA MigrationStep ==
    ASSUME MigrationInv, [MigrationNext]_migrationVars
    PROVE  MigrationInv'
<1>i. FileIsTrue /\ KeepsPromises(todo)
  BY DEF MigrationInv
<1>1. CASE Open
  <2>1. UNCHANGED database
    BY <1>1 DEF Open
  <2>2. phase' = "open" => version = SchemaVersion
    BY <1>1, <1>i DEF Open, Supported, FileIsTrue, SchemaVersion
  <2>3. \/ todo' = todo \/ todo' = <<>>
        \/ version < 3 /\ todo' = Script(version)
    BY <1>1 DEF Open
  <2>4. KeepsPromises(todo)'
    BY <1>i, <2>1, <2>3, NothingPromised, SamePromises, NextScriptPromises DEF database
  <2> QED
    BY <1>i, <2>1, <2>2, <2>4, SameFile DEF MigrationInv
<1>2. CASE Statement
  <2>1. CASE Refuse
    BY <1>i, <2>1, SameFile, NothingPromised DEF MigrationInv, Refuse
  <2>2. CASE Execute(Head(todo)) /\ todo' = Tail(todo) /\ phase' = phase
    BY <1>2, <1>i, <2>2, ExecutedPromises DEF Statement
  <2> QED
    BY <1>2, <2>1, <2>2 DEF Statement
<1>3. CASE NextScript
  BY <1>3, <1>i, SameFile, NextScriptPromises DEF NextScript, MigrationInv
<1>4. CASE AddAutoRun
  <2>1. CASE Refuse
    BY <1>i, <2>1, SameFile, NothingPromised DEF MigrationInv, Refuse
  <2>2. CASE /\ AddColumn /\ version' = SchemaVersion
             /\ UNCHANGED <<eventRows, deliveries, phase, todo>>
    <3>1. version = 3 /\ todo' = <<>> /\ phase' # "open"
      BY <1>4, <2>2 DEF AddAutoRun
    <3>2. objects' = objects \cup AutoRun /\ Schema(3) \subseteq objects
      BY <1>i, <2>2, <3>1 DEF AddColumn, FileIsTrue, VersionIsTrue, Schema, SchemaVersion
    <3>3. Schema(SchemaVersion) = Schema(3) \cup AutoRun
      BY DEF Schema, SchemaVersion
    <3>4. FileIsTrue'
      BY <1>i, <2>2, <3>1, <3>2, <3>3 DEF FileIsTrue, VersionIsTrue, SchemaVersion
    <3> QED
      BY <3>1, <3>4, NothingPromised DEF MigrationInv
  <2> QED
    BY <1>4, <2>1, <2>2 DEF AddAutoRun
<1>5. CASE Finish \/ TryAgain
  <2>1. UNCHANGED <<database, todo>> /\ (phase' = "open" => version = SchemaVersion)
    BY <1>5 DEF Finish, TryAgain
  <2> QED
    BY <1>i, <2>1, SameFile, SamePromises DEF MigrationInv, database
<1>6. CASE Killed
  BY <1>6, <1>i, SameFile, NothingPromised DEF Killed, MigrationInv
<1>7. ASSUME NEW e \in Events, Register(e)
      PROVE  MigrationInv'
  <2>1. /\ version = SchemaVersion /\ deliveries = eventRows
        /\ deliveries' = eventRows' /\ UNCHANGED <<version, objects, phase, todo>>
    BY <1>7, <1>i DEF Register, FileIsTrue, SchemaVersion
  <2>2. FileIsTrue'
    BY <1>i, <2>1 DEF FileIsTrue, VersionIsTrue
  <2> QED
    BY <1>i, <2>1, <2>2, SamePromises DEF MigrationInv
<1>8. CASE UNCHANGED migrationVars
  <2>1. UNCHANGED <<database, todo>> /\ phase' = phase
    BY <1>8 DEF migrationVars
  <2> QED
    BY <1>i, <2>1, SameFile, SamePromises DEF MigrationInv, database, FileIsTrue
<1> QED
  BY <1>1, <1>2, <1>3, <1>4, <1>5, <1>6, <1>7, <1>8 DEF MigrationNext, Migrate

\* What the migrations write is typed.
LEMMA MigrationTypeStep ==
    ASSUME MigrationInv, MigrationTypeOK, [MigrationNext]_migrationVars
    PROVE  MigrationTypeOK'
<1> USE DEF MigrationTypeOK, database
<1>0. todo \in Seq(Statements) /\ objects' \subseteq Schema(SchemaVersion)
      /\ deliveries \subseteq eventRows /\ deliveries' \subseteq eventRows'
  BY MigrationStep DEF MigrationInv, KeepsPromises, FileIsTrue
<1>1. CASE Statement
  <2>1. Head(todo) \in Statements
    BY <1>0, <1>1 DEF Statement
  <2>2. version' \in 0..SchemaVersion \cup Versions
    BY <1>1, <2>1, StatementKinds DEF Statement, Execute, Refuse, SchemaVersion
  <2>3. eventRows' = eventRows
    BY <1>1 DEF Statement, Execute, Refuse
  <2>4. phase' \in {"down", "migrating", "open", "refused"} /\ crashes' \in 0..MaxCrashes
    BY <1>1, MigrationAssumption DEF Statement, Refuse, CanFail
  <2> QED
    BY <1>0, <2>2, <2>3, <2>4
<1>2. CASE AddAutoRun
  BY <1>0, <1>2, MigrationAssumption DEF AddAutoRun, Refuse, CanFail, SchemaVersion
<1>3. CASE Open \/ NextScript \/ Finish \/ TryAgain
  BY <1>0, <1>3 DEF Open, NextScript, Finish, TryAgain
<1>4. CASE Killed
  BY <1>0, <1>4, MigrationAssumption DEF Killed, CanFail
<1>5. ASSUME NEW e \in Events, Register(e) PROVE MigrationTypeOK'
  BY <1>0, <1>5 DEF Register
<1>6. CASE UNCHANGED migrationVars
  BY <1>6 DEF migrationVars
<1> QED
  BY <1>1, <1>2, <1>3, <1>4, <1>5, <1>6 DEF MigrationNext, Migrate

\* The invariant holds of every file that is opened.
LEMMA MigrationAlways == MigrationSpec => [](MigrationInv /\ MigrationTypeOK)
<1>1. ASSUME MigrationInit PROVE MigrationInv
  <2>1. /\ version \in Nat /\ objects = Schema(version) /\ phase = "down" /\ todo = <<>>
        /\ deliveries = (IF version >= 2 THEN eventRows ELSE {})
        /\ version = 0 => eventRows = {}
    BY <1>1, MigrationAssumption DEF MigrationInit
  <2>2. objects \subseteq Schema(SchemaVersion)
    BY <2>1 DEF Schema, SchemaVersion
  <2>3. deliveries \subseteq eventRows /\ (version # 1 => deliveries = eventRows)
    BY <2>1
  <2>4. FileIsTrue
    BY <2>1, <2>2, <2>3 DEF FileIsTrue, VersionIsTrue
  <2>5. <<>> \in Seq(Statements) /\ Len(<<>>) = 0
    OBVIOUS
  <2> QED
    BY <2>1, <2>4, <2>5 DEF MigrationInv, KeepsPromises
<1>2. MigrationInv /\ [MigrationNext]_migrationVars => MigrationInv'
  BY MigrationStep
<1>3. MigrationInit => MigrationTypeOK
  <2> SUFFICES ASSUME MigrationInit PROVE MigrationTypeOK
    OBVIOUS
  <2>1. objects \subseteq Schema(SchemaVersion)
    BY DEF MigrationInit, Schema, SchemaVersion
  <2> QED
    BY <2>1, MigrationAssumption DEF MigrationInit, MigrationTypeOK
<1>4. MigrationInv /\ MigrationTypeOK /\ [MigrationNext]_migrationVars => MigrationTypeOK'
  BY MigrationTypeStep
<1> QED
  BY <1>1, <1>2, <1>3, <1>4, PTL DEF MigrationSpec

\* Database.open and _migrate (database.py): a database that is in use has the whole schema
\* of its version, each of its events has a delivery, and a version in the file is never
\* ahead of what is there, wherever a migration was interrupted.
THEOREM OpenedWhole == MigrationSpec => []OpensWhole
<1>1. MigrationInv => OpensWhole
  BY DEF MigrationInv, FileIsTrue, OpensWhole, OpenIsComplete, VersionIsTrue,
         EveryEventHasDelivery, SchemaVersion
<1> QED
  BY <1>1, MigrationAlways, PTL


-----------------------------------------------------------------------------
(* The parts together.                                                      *)

\* Each part is left alone by the others: a behaviour of the instance is one of each.
LEMMA PartsRun ==
    PartsSpec => /\ ServiceSpec /\ InstallerSpec /\ HookSpec /\ ConfigSpec
                 /\ MigrationSpec /\ DiscordSpec /\ TextSpec /\ ReaderSpec
<1>1. PartsInit => /\ ServiceInit /\ InstallerInit /\ HookInit /\ ConfigInit
                   /\ MigrationInit /\ DiscordInit /\ TextInit /\ ReaderInit
  BY DEF PartsInit
<1>2. ASSUME [PartsNext]_partsVars
      PROVE  /\ [ServiceNext]_serviceVars /\ [InstallerNext]_installerVars
             /\ [HookNext]_hookVars /\ [ConfigNext]_configVars
             /\ [MigrationNext]_migrationVars /\ [DiscordNext]_discordVars
             /\ [TextNext]_textVars /\ [ReaderNext]_readerVars
  BY <1>2 DEF PartsNext, partsVars, InService, InInstall, InHook, InConfig, InMigration,
              InDiscord, InText, InReader
<1> QED
  BY <1>1, <1>2, PTL DEF PartsSpec, ServiceSpec, InstallerSpec, HookSpec, ConfigSpec,
                         MigrationSpec, DiscordSpec, TextSpec, ReaderSpec

\* The types of the parts: of those on the host, whoever reads hooks.json finds a whole
\* document (replace_document), and config.toml is a file Codex can read
\* (configure-codex-notify.sh), whatever runs overlap, are killed or meet an edit.
THEOREM PartsTypes == PartsSpec => []PartsTypeOK
<1>1. ServiceInv /\ InstallerInv => ServiceTypeOK /\ InstallerTypeOK
  BY DEF ServiceInv, InstallerInv
<1>2. KeptInv => ReaderTypeOK
  BY DEF KeptInv
<1>3. InstallerSpec => []InstallerInv
  BY InstallerInductive, PTL DEF InstallerSpec
<1>4. ServiceTypeOK /\ InstallerTypeOK /\ HookTypeOK /\ ConfigTypeOK
      /\ MigrationTypeOK /\ DiscordTypeOK /\ TextTypeOK /\ ReaderTypeOK => PartsTypeOK
  BY DEF PartsTypeOK
<1> QED
  BY <1>1, <1>2, <1>3, <1>4, PartsRun, ServiceInductive, HookAlways, ConfigIsReadable,
     MigrationAlways, TypeCorrect, TextTypeIsInvariant, ReaderInductive, PTL

\* Texts: every prompt that was taken reaches Codex with its lines, unless a start lowers
\* the limit in between, and every text that was cut says so (normalize_prompt, send_text,
\* _read_bounded).
THEOREM TextsAlwaysArrive == PartsSpec => []TextsArrive
<1>1. TakenIsTaken /\ StoredIsGiven /\ LinesKept /\ CompletionFits
      /\ KeepsTheBeginning /\ TruncatedIffCut => TextsArrive
  BY DEF TextsArrive, PromptArrives, CutsAreMarked
<1> QED
  BY <1>1, PartsRun, TakenUnlessLowered, CodexIsGivenTheRow, CodexSeesTheLines,
     CompletionsFit, OutputIsBounded, PTL

\* The other promises of the parts, together: the socket of a service that answers can be
\* reached, a job that failed has no process left, the gates of Discord agree, a database in
\* use is whole, the scripts tell the truth and lose nothing, and hooks.json has one hook.
THEOREM PartsAreSafe ==
    PartsSpec => /\ [](ServingIsReachable /\ FailedHasEnded /\ GatesAgree /\ OpensWhole)
                 /\ InstallsAreTrue /\ NothingOverwritten /\ OneHook
BY PartsRun, Reachable, FailedIsOver, GatesAlwaysAgree, OpenedWhole, InstallsTrue,
   NothingIsOverwritten, HookOnce, PTL

=============================================================================
