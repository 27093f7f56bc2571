----------------------------- MODULE Deployment -----------------------------
(***************************************************************************)
(* The instance every module of the project is about: the Codex threads    *)
(* the service watches, the Discord messages it will be sent and the Codex *)
(* turns that will end with a notify.  Row ids of the jobs table are given *)
(* out in the order the messages are handled, so message k, job k and the  *)
(* Codex turn that answers it share the number k.  OwnTurns are turns the  *)
(* user types into the Codex TUI himself: they have no job.                *)
(***************************************************************************)
EXTENDS Integers

CONSTANTS
    Sessions,   \* Codex thread ids, each already mapped to a Discord thread
    MaxJobs,    \* bound: how many Discord messages arrive
    OwnTurns,   \* bound: turns that no job asked for
    MaxCopies,  \* bound: how often one turn-end is notified (callback, Stop hook)
    MaxFaults,  \* bound: crashes, shutdowns, busy transactions, disabled workspaces
    Modes,      \* bound: the modes the user chooses
    Outcomes,   \* bound: how starting and running a codex process may end
    Thread      \* the session each message and each turn belongs to

Jobs   == 1..MaxJobs
Turns  == Jobs \cup OwnTurns
Copies == 1..MaxCopies

\* The bounds are natural numbers.
ASSUME BoundsAssumption == MaxJobs \in Nat /\ MaxCopies \in Nat /\ MaxFaults \in Nat

Mode    == {"LIVE", "MANAGED"}
\* "rejected": not started at all; "killed": terminated by the service.
Outcome == {"rejected", "ok", "unavailable", "refused", "timeout", "killed"}

ASSUME ChoiceAssumption == Modes \subseteq Mode /\ Outcomes \subseteq Outcome

\* Every message and every turn belongs to one session.
ASSUME ThreadAssumption == Thread \in [Turns -> Sessions]

\* 0 is the id of no job: `None` where the code keeps an optional job or task.
NoJob == 0
=============================================================================
