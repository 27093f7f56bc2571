# Codex Dispatch in TLA+

Codex Dispatch is a service that connects Discord to the Codex CLI. A user's
Discord message becomes a *job* of a Codex session; the service hands its prompt
to Codex, hears through a Unix socket that Codex has finished a turn, closes the
job, reports to Discord and, when auto-run is on, starts the next job. It is one
asyncio process with one SQLite file, supervised by systemd.

This directory models the service and the scripts that install it in TLA+, checks the
models with TLC and proves their safety with TLAPS, for every size: every safety property of
the runs that are to pass, and that the job queue and the outbox implement their abstract
specifications (section 5). Liveness is model-checked.
Source paths below are relative to `src/src/codex_dispatch/`, docs to `src/docs/`,
scripts to `src/scripts/`.

## 1. Inventory

| Component | State | Operations | Talks to | Module |
|---|---|---|---|---|
| `JobManager` (`job_manager.py`) | session locks, background tasks, `_shutting_down` | `handle_message`, `handle_completion`, `resume_auto_run`, `recover`, `shutdown`, `/cancel`, `/auto`, `/mode` | Database, both runners, Discord | `JobManager`, `JobQueue` |
| `Database` (`database.py`): jobs and sessions | SQLite tables | one `BEGIN IMMEDIATE` transaction per method | everybody | `Database` |
| `Database`: workspaces, notify events, deliveries | SQLite tables | `register_notify`, `set_discord_thread`, `begin_` and `mark_discord_delivery` | SessionManager, CompletionNotifier | `SessionMapping`, `Delivery` |
| `Database`: migrations | schema, `user_version` | `open` | SQLite | `Migration` |
| `CodexManagedRunner` (`managed_runner.py`) | `_active` processes by thread, `_cancel_requested`, `_active_lock` | `resume`, `cancel`, `close` | `codex exec resume` | `ManagedRunner`, `ManagedCancel`, `BoundedReader` |
| `CodexQueueRunner` (`codex_runner.py`) | resolved binary | `queue_message`, `verify_capability` | `codex queue` | `JobManager`, `MessageText` (partly) |
| `NotifyServer` (`notify_server.py`) | socket, LRU of seen events | `start`, `_handle_connection`, `close` | notify clients; handler in `main.py` | `NotifyBridge`, `Service` |
| Notify client, Stop hook client | none | send one framed payload | NotifyServer | `NotifyBridge` |
| `SessionManager` (`session_manager.py`) | per-session locks | `handle_notify`: register, create the Discord thread, alert | Database, Discord | `SessionMapping` |
| `CompletionNotifier` (`completion_notifier.py`) | locks by event (the outbox is a table) | `deliver` with retries | Database, Discord | `Delivery`, `Outbox`, `MessageText` |
| Service (`main.py`) | order of start and stop | `run_service`, the notify pipeline | all of the above | `Service`, `JobManager` |
| `DiscordAdapter` (`adapters/discord.py`) | gateway client | messages, commands, threads, `on_ready`, sending | JobManager | `Discord` |
| Configuration (`config.py`) | settings of a start | `require_discord` | all | `Discord` (partly) |
| Installation scripts, systemd unit | files of the deployment | install, configure, upgrade, uninstall | systemd | `Installer`, `Service` |
| `configure-codex-stop-hook.py` | `hooks.json` of the Codex user | merge | Codex, its owner | `StopHook` |
| `configure-codex-notify.sh` | `config.toml` of the Codex user | insert one line | Codex, its owner | `NotifyConfig` |
| Workspace guard, redaction (`security.py`), logging | none | pure functions | all | not modelled |
| `PromptDispatcher` | none | superseded by JobManager, not used by `main.py` | none | not modelled |
| Host acceptance and probe scripts | none | checks an operator runs by hand | the host | not modelled |

How they interact:

- **Calls in one process.** Coroutines interleave only where they suspend. The
  database methods are synchronous, so two of them in a row are not separated by
  another coroutine, but each commits by itself: a crash or a busy database can
  fall between them.
- **A lock per session** (of the JobManager) orders `handle_message`, `handle_completion`,
  `/auto`, `/mode` and `resume_auto_run`. It is held across one suspension only, the
  "queued" feedback of `handle_message`. `/cancel` and the end of a dispatch take
  no lock. The SessionManager has a lock per session of its own, held while the Discord
  thread is made; the CompletionNotifier one per event, held through all retries; the
  managed runner one for all threads, held while a process is created.
- **Background tasks.** A job claimed by a handler that has something else to do
  (a completion, `/auto on`, `on_ready`) is carried out by a task of its own.
- **The notify pipeline** (`main.py:150-153`): `SessionManager.handle_notify`,
  then `JobManager.handle_completion`, then `CompletionNotifier.deliver`.
  The server compares an event with the remembered ones before the pipeline and
  remembers it afterwards.
- **Processes.** `codex queue` returns when the TUI has taken the prompt; the turn
  goes on in the TUI. `codex exec resume` works on the turn itself, and its notify
  comes while it still runs.
- **Files.** A second process of the service meets the first in the socket file and the
  database; the installers meet each other, the operator and Codex in their files.

What is hard: the races to close one job (notify, exit status, timeout, `/cancel`,
shutdown, recovery); the session status, which notifies, claims and exits write
without knowing of each other; crashes between commit and process start, or between a
request to Discord and the row that records it; repeated notifies; a busy database half
way through a handler; a script that ends half way. `PROJECT.json` lists each
hazard at its line under `hazards`, with the properties that cover it.

What makes each component correct:

- *JobManager and the job tables*: a prompt is given to Codex at most once; at most
  one dispatched job per session; the first verdict on a job stands; a failure pauses
  auto-run; recovery leaves no job that nobody works on; auto-run takes the oldest job
  and does not stall; the lock is always passed on.
- *ManagedRunner*: one process per thread, and every process tracked; `cancel` reports on
  the process it terminated; calls, cancels and a stop end; output is bounded.
- *NotifyServer and clients*: who is told ACK or DUPLICATE has an event that was handled;
  the memory is the latest events; nobody hangs.
- *SessionManager*: a session gets one Discord thread and keeps it; registration is atomic;
  one alert per turn.
- *CompletionNotifier*: one sender per event, a budget per event, a second message only
  after a lost answer; an interrupted delivery is not repeated.
- *Migrations*: the service runs on a complete schema only; the version is true; nothing is lost.
- *Service*: it comes back after every stop and crash, reachable, and is not disturbed by a
  second process.
- *DiscordAdapter*: who may prompt may cancel; what is let in can be answered; threads of
  sessions stay usable; the bot does not answer itself.
- *Installation*: what the operator filled in stays; PASS can be believed; no script leaves
  a service running that cannot run; hooks and settings of others stay.

## 2. Modules

| Module | What it is |
|---|---|
| `Deployment` | the constants of the job queue: sessions, messages, turns, bounds; their assumptions |
| `Database` | the transactions on jobs and sessions as operators from database to database |
| `JobManager` | the service around the job queue: coroutines, locks, processes, notifies, faults |
| `JobQueue` | what the queue promises: the abstract specification |
| `Delivery` | the completion outbox: `deliver`, its rows, Discord, crashes |
| `Outbox` | what the outbox promises: the abstract specification |
| `SessionMapping` | registration of notifies and the Discord thread of a session |
| `ManagedRunner` | `resume`, `cancel` and `close` around `_active_lock`, and the processes |
| `ManagedCancel` | `ManagedRunner` composed with the rows of the jobs: which job a `/cancel` hits |
| `BoundedReader` | the reader of a process's output |
| `Migration` | opening a database of any version, statement by statement |
| `NotifyBridge` | senders, connections and the server's memory of events |
| `Service` | processes of the service, the socket file and one MANAGED job |
| `Discord` | gates, messages, threads and texts of the adapter, over restarts with other settings |
| `MessageText` | prompts through both normalisations, results cut to fit a message |
| `Installer` | install, configure, upgrade and uninstall over the files of a deployment |
| `StopHook` | overlapping runs of the hook installer |
| `NotifyConfig` | the script that edits `config.toml`: lines as it sees them, TOML as Codex sees them |
| `MCJobManager`, `MCManagedCancel` | instances of `JobManager` and `ManagedCancel` for TLC |
| `MCNotifyPath` | the way of a turn's end to Discord for TLC: `NotifyBridge`, `SessionMapping`, `Delivery` |
| `MCParts` | the parts beside it for TLC: `Service`, `Installer`, `StopHook`, `NotifyConfig`, `Migration`, `Discord`, `MessageText`, `BoundedReader` |
| `JobManager_proofs`, `JobManager_safety` | the types of the transactions and what they do to the rows of jobs, `TypeCorrect`; the inductive invariant, the safety theorems, the refinement of `JobQueue` |
| `Discord_proofs` | the safety of the gates |
| `Delivery_proofs` | the safety of the outbox, the refinement of `Outbox` |
| `ManagedCancel_proofs` | the managed runner and `/cancel` |
| `NotifyPath_proofs` | the mapping of sessions and the memory of the bridge; the composition of `MCNotifyPath` |
| `Text_proofs` | `config.toml`, prompts and results, the reader of an output |
| `Host_proofs` | the service and its socket, the Stop hook, the installation scripts, the migrations; the composition of `MCParts` |

`JobManager` EXTENDS `Database`, which EXTENDS `Deployment`; `JobManager` instantiates
`JobQueue`, and `Delivery` instantiates `Outbox`, with a refinement mapping; `ManagedCancel`
EXTENDS `ManagedRunner` and adds the job rows to each of its steps. An operator whose comment
begins with "mutant" is not part of a model: it is the next operator with a plausible bug, kept
to see that a property notices.

The modules are separate because their state is: `JobManager` takes from `SessionMapping` that
a handler that got through has a mapped session, and from `NotifyBridge` that an event comes on
several connections; `Delivery` starts where a handler has passed the memory of the server;
`Service` and `ManagedCancel` keep of the job only its row. What one module takes for granted is
a property of another: `AckMeansHandled`, `RegistrationIsAtomic`, `OpensWhole`.

`MCNotifyPath` and `MCParts` put several of these modules into one instance without mixing
them: a variable `part`, chosen at the start, says which module moves, and the others stay in
one initial state. That is the disjoint union of their state graphs, so a property of one module
holds in it exactly if it holds in the module alone; it costs the sum of the graphs, not the
product. The fairness of a module is asked in its own behaviours only.

### State and code: the job queue

`db` is the SQLite file: `job` (row status), `mode`, `status`, `auto` (session row) and
`events` (`notify_events`). Everything else dies with the process except Codex itself
(`turn`) and the ghosts `sent` and `faults`.

| Variable | Code |
|---|---|
| `msg[k]` | `handle_message` of message k: waits for the lock, sends feedback, is done |
| `run[j]`, `via[j]` | `_dispatch_claimed` of job j and the mode it was given |
| `background` | `_background_tasks` |
| `note[<<t,c>>]` | the connection that brought copy c of the end of turn t |
| `holder`, `waiters` | the `asyncio.Lock` of a session: who is suspended inside, who waits, in order |
| `killing[j]` | `/cancel` of job j, suspended in `runner.cancel` for a process |
| `active`, `cancelReq` | `CodexManagedRunner._active`, `_cancel_requested` |
| `closing` | local variables of `shutdown()` and `close()` |
| `seen` | `NotifyServer._seen` |
| `proc[j]` | the child process of job j and how it ended |
| `phase` | the service: up, stopping (`shutdown()` gathers tasks), closing (`runner.close()`), closed, down |

An action is what a coroutine does between two suspensions: all its transactions, its
changes of locks and tables and the start of a task. So `HandleMessage` contains
`create_job`, the lock if it is free, the busy test and `begin_job_dispatch`, and
`AlertSent` contains `complete_dispatched_job` and `_prepare_auto_dispatch`. `MessageSection`,
`CompletionSection`, `ReachLock` and `AutoDispatch` are the stretches shared by several
actions; they take the database as the earlier transactions of the same stretch left it.
A crash may fall between two transactions of one stretch: `HalfDone` is the set of databases
it can leave. A busy database is the disjunct with `Fault` in the actions where an earlier
transaction has been committed or a process has been started; `shutdown()` closes its jobs one
by one, so `FinishShutdown` closes any part of them. A workspace that the operator has removed or
disabled (`WorkspaceDisabled`) counts as a fault of the read that finds it: in `AutoDispatch`
before a claim, in `MessageRefused` before a job is made, in `HandleNotify` at the registration.

Message k, job k and turn k share a number, because job ids are given out in the order of
the messages. `OwnTurns` are turns the user types into the TUI himself.

Sessions start registered and mapped to a Discord thread. What
Codex does (`PromptTaken`, `TurnEnds`, `ChildExits`) is marked external in the map: a process
may exit with success only after the prompt was taken, may fail or time out, and is killed
only when the service terminates it.

### State and code: the other modules

In every module the comments of VARIABLES name the state of the code, ghosts are marked as
such, and an action is again the stretch of a coroutine, or the step of a script, between two
points where something else can happen.

- **`Delivery`**: `row` is the row in `discord_deliveries`, `copy` the coroutine of one
  connection, which holds the event's lock from the start of a request through the back-off.
  `Attempt` contains `begin_discord_delivery`; `Posts` is Discord's decision, apart from its
  answer, which may be lost (`lost`). Each end of a request is a transaction that may find the
  database busy.
- **`SessionMapping`**: `handler` is `handle_notify` of one connection; `queue` the lock of the
  session: for each notify that waits, those ahead of it; `made` counts Discord's threads, `orphans` those nobody uses.
- **`ManagedRunner`**: `queue` says of each that waits for the lock (the entry of `resume`, its
  `finally`, `cancel`) who is ahead of it; `holder` is the call that creates a process under the lock. `proc` and `signal` are the child
  and what it was sent. `phase` follows `shutdown()`, `close()` and the end of `asyncio.run`,
  which cancels foreground calls.
- **`Migration`**: `todo` are the statements left; `executescript` commits each, the last
  migration is one transaction.
- **`NotifyBridge`**: `seen` is the ordered dictionary `_seen`; `task` the server's end of a
  connection, `sender` the client with its exit code; the 0.75 s of a client are a step that
  may come at any time, also when the answer is on its way, or Codex has killed the client.
- **`Service`**: `pc` is the line of `run_service` and of `NotifyServer.start` a process is at;
  a socket is an inode, `path` the file at `notify_socket_path`. `operator` says who starts
  processes beside systemd: nobody, somebody who lets the other finish its start or stop, or
  somebody who does not; what can be promised depends on it.
- **`Discord`**: `conf` are the settings of this start; `inbox` and `texts` are sets, since
  messages do not depend on their number; a thread's parent is where the control channel was
  when it was made.
- **`MessageText`**: one text at a time; texts are sequences over "x", white space, line ends
  and NUL, and limits are the program's in the small. A start of the service may change the limit of
  prompts; `lowered` remembers that one lowered it while the job was queued.
- **`Installer`**: `main`, `secret`, `meta` are the files with what matters of them; `unit` is the
  release of the unit file, `loaded` the one systemd goes by until a daemon-reload; an "old" unit
  has the token from the main file, the "new" one from `secret.env` (`HasToken`). A host is new, or has an
  earlier release or this one, whose service runs or not. `script.todo`
  is what is left to do. The writing of one file is one step; any step may fail, which ends the
  script (`set -e`); an upgrade then starts the service it had stopped (`Recovery`), in vain if
  the files do not fit (`SystemctlStart`, "failing"), or systemctl refuses (`StaysDown`).
  `Restarts` is `Restart=always`: systemd tries again with the files as they are. `cut` remembers
  an install that ended between the removal of an old token and the daemon-reload.
- **`StopHook`**, **`NotifyConfig`**: `at` and `stage` are where a run of the script is; `hooks` and
  `toml` are the files Codex reads; `OwnerEdits` and `OthersWrite` change them meanwhile.

## 3. Runs

| Run (cfg) | Instance | Checks |
|---|---|---|
| `faults` (`Faults`) | 1 session, 2 messages, both modes, 1 notify per turn, 1 fault | `SubmitOnce`, `NoOrphanedManagedJob`, `OneManagedProcess`, `IInv`, `FailurePausesQueue`, `FirstVerdictStands` |
| `queue` (`Queue3`) | 1 LIVE session, 3 messages, 1 fault | `ImplementsJobQueue`, `CancelledInQueueStaysOut` |
| `strays` (`Strays`) | 1 LIVE session, 2 messages, a turn of the user's own, 2 notifies per turn | `ImplementsJobQueue` |
| `two_sessions` (`TwoSessions`) | 2 MANAGED sessions, 1 message each, 1 fault | `ImplementsJobQueue` |
| `progress` (`Progress`) | 1 LIVE session, 3 messages, no faults, fair | `AutoRunDrains`, `DispatchedEnds`, `LockServed` |
| `managed_cancel` (`ManagedCancel`) | 2 jobs on 1 thread, one of them in the background, a `/cancel`, a stop, fair | types, `CancelHitsItsProcess`, `CancelSparesOpenJobs`, `NothingOutlivesTheService`, `CallsEnd` |
| `notify_path` (`NotifyPath`) | bridge: 4 senders, 3 events or 2 and a bad payload, memory of 2; mapping: 3 turns of a session from 2 directories, 2 notifies each, 1 fault; delivery: 3 copies of a completion, 3 attempts, 2 faults; fair | types, `AckMeansHandled`, `SeenIsRecent`; `EveryThreadAccountedFor`, `RegistrationIsAtomic`, `AlertedAtMostOnce`; `DuplicateNeedsLostAnswer`, `ImplementsOutbox`, `SettledStaysSettled`, `Settles`; `NothingHangs` |
| `parts` (`Parts`) | service: 2 processes, 4 faults, every operator, fair; installer: new hosts and running ones of two releases, 2 paths of Codex, 3 failing steps; hooks: 2 overlapping runs of 2 checkouts, 2 edits; `config.toml`: every readable file of up to 4 lines of 10 kinds, 1 edit; migration: versions 0 to 5, 2 events, 2 faults; adapter: 2 channels in 2 guilds, 2 threads, 2 users, every setting; texts: prompts up to 5 characters with limits 3 and 4, results up to 8 with limit 7; reader: limit 3, chunks up to 2, output up to 6 | types; `ServingIsReachable`, `FailedHasEnded`, `ServiceComesBack`; `InstallsAreTrue`, `NothingOverwritten`; `OneHook`; `PassConfigures`; `OpensWhole`; `GatesAgree`; `TextsArrive` |
| the runs that expect a violation | the smallest instance that shows it | one statement of the docs or the code each, see below |

Every property is explained by the comment at its definition. The ones a reader of the code
would look for first:

- `SubmitOnce`: a prompt goes to a codex process at most once.
- `IInv`: the invariant of the proofs. It contains the types, `OneDispatched` (the schema has a
  unique index for it: the handlers never run into it) and `RunnerMatchesMode` (the mode a job
  was claimed under is its session's mode while it is dispatched; `/cancel` and recovery rely on
  it).
- `FailurePausesQueue`: whichever of exit status, timeout, `/cancel`, shutdown and recovery closes
  a running job, it switches auto-run off, and auto-run claims nothing until it is switched on in
  a session that works.
- `NoOrphanedManagedJob`: while the service is up, a dispatched MANAGED job has not lost its
  coroutine.
- `FirstVerdictStands`, `CancelledInQueueStaysOut`: a closed job keeps its status; a job
  cancelled while it waits is never claimed.
- `ImplementsJobQueue`: each step is a step of `JobQueue` or leaves it alone. `JobQueue` says
  that a job moves forward only, that a session has at most one active job, that a handover
  takes the oldest waiting job, and that a prompt is given once, after the claim.
- `ImplementsOutbox`: any number of handlers of an event, lives of the service and busy
  transactions look like one sender with one budget per event.
- `DuplicateNeedsLostAnswer`, `SettledStaysSettled`: neither copies of a notify nor crashes
  repeat a completion; only an answer that was lost does.
- `EveryThreadAccountedFor`: however many notifies of a new session race, one Discord thread is
  made unless a fault cuts its making short.
- `CancelHitsItsProcess`: a mark of a cancellation, set, used up and discarded at three places
  under the lock, is neither lost nor taken by another call.
- `InstallsAreTrue`: an upgrade that fails at any step leaves the service as it found it, also one of
  an earlier release; no script leaves one that systemd starts in vain; PASS is true. An install
  cut between the removal of an old token and the daemon-reload is excepted (finding 16), and so is a
  systemctl that refuses to start the service, of which the script tells.
- `TextsArrive`: a prompt that was taken is refused by the runner only after a start with a lower limit.
- `AckMeansHandled`: an event whose handler raised, or that only another connection is working
  on, is not taken for a duplicate.
- `GatesAgree`: who may prompt may cancel, what is let in can be answered, and the thread of a
  session works after the control channel was changed.
- `ServiceComesBack`: neither a crash nor a start by hand leaves a file behind that keeps the
  service from coming back.
- `OpensWhole`: wherever a migration was interrupted, the version in the file is true, and the
  service runs on a whole schema with a delivery row for every event.

**Bounds.** Two messages are enough for every pair of events that race for one job, and for
one job's events to hit the next; three are needed for a handler to wait for the lock while
another holds it and a job is dispatched (`MessageLocked`), and for a handover to have a
choice. One fault puts a crash, a shutdown or a busy transaction at every point; restarts
after it are not bounded. Two copies of a notify are the callback and the Stop hook. Two
sessions are needed for a step to close two jobs. `Strays`, `Queue3` and `Progress` are LIVE
and `TwoSessions` is MANAGED to keep the state space small; `Faults` mixes the modes. A run
leaves out outcomes of processes that its question does not depend on.

Of the other modules: three copies of an event let one handler send, one wait and one come
late; three attempts are the default of the code, and two faults allow a crash after a busy
transaction. Two turns of a session race as first notifies; the disabled directory and the
moved session are the two reasons to refuse. Two calls on one thread are needed for a
cancellation to meet the wrong one, and each waits for the lock behind the other. Output of
twice the limit passes it in one chunk and in several. Versions 0 to 5 are all there are and
a newer one. A memory of two events, fewer than there are, makes events leave it; four
connections bring one of three events twice, so that its place in the memory is renewed.
Two processes of the service are one of systemd's and one started by hand; there is one more
socket than processes, so that an old file is never mistaken for a new one. Two channels in two
guilds, one of them the control channel, and two threads under different channels meet every
case of the gates; three events caused from outside let a message, its answer and a completion
be under way together. Texts go one character past each limit in the small; headers take every
length that leaves the mark of a cut and one character. Two paths of Codex show a stale one;
three failing scripts in a row cover an upgrade over an install over an import that failed, and a
running earlier release meets each of them.
Two runs and two edits suffice for a hook to be read, changed and overwritten. Four lines hold
an array or a text of three lines and the setting, a fifth is added by an edit. Two limits on prompts
differ by the one character that makes a prompt too long after it was taken.

Deadlock is checked wherever the system goes on for ever; `parts` switches it off because
the scripts come to an end.

### What the code does otherwise than its docs say

1. `duplicate_notify`: `handle_completion` closes the session's dispatched job, whichever turn
   the notify is about. With the callback and the Stop hook both enabled, the second copy of a
   notify can complete the next job while Codex works on it.
2. `stuck_waiting`: if the process of a MANAGED job exits while the alert for its notify is
   being sent, the session becomes WAITING after its notify, and nothing of that turn makes
   it IDLE again.
3. `managed_auto_run`: the notify of a MANAGED turn precedes the exit of its process, so the
   job auto-run claims then is refused by the runner ("already running") and fails untried.
4. `busy_database`: a message answered with "the database is busy, send it again" may have left
   its job in the queue.

These four have a run each, and `PROJECT.json` quotes the lines under `findings`. The modules show
the following ones as well; where a definition heads one it states what the docs say, and no run
checks it because it does not hold.

5. `DeliveredOnce` (`Delivery`): when Discord's answer to a message is lost the retry posts the
   completion a second time, although the docstring at `completion_notifier.py:74` says "once":
   `deliver()` treats every exception of `send_text` as a failure.
6. `CancelledJobHasStopped` (`ManagedCancel`): `/cancel` of a job whose predecessor's process has
   just exited is answered by that process: the job is recorded as cancelled and started
   afterwards (`database.py:1015` has "after its process has stopped").
7. `Migration`: `executescript` commits each statement (`database.py:246`), so a crash in the
   middle of the migration from version 0, 1 or 2 leaves a table that makes every later start
   fail (`Fails`), where `docs/auto-run.md:59` has these databases migrated.
8. `NotifyBridge`: a connection that is closed without an answer is reported as 69 instead of 70
   (`docs/notify-bridge.md:99`): `ConnectionError` is an `OSError`, which is caught first.
9. `Service`: a second process that probes the socket at the wrong moment removes that of the
   first while it serves (`notify_server.py:208`), against `docs/notify-bridge.md:171`; this is
   why `ServingIsReachable` leaves out the careless operator.
10. `Service`: a second process fails the running MANAGED job of the first before its own start is
    refused, because `recover()` comes first (`main.py:138`); this is why `FailedHasEnded` is about
    one process.
11. `TokenKept` (`Installer`): an install that ends between two of its steps has deleted the token
    of an earlier release (`install-service.sh:230`).
12. `OthersStay` (`StopHook`): a hook added while the hook installer runs is lost
    (`configure-codex-stop-hook.py:142`).
13. `MessageText`: a queued prompt that is too long for the limit of the next start raises a
    `PromptValidationError`, which no handler catches (`job_manager.py:372`); its job stays
    DISPATCHED. `TextsArrive` (by `TakenIsTaken`) says that nothing else leaves a job so.
14. `NotifyConfig`: a line of a multi-line text in `config.toml` is taken for a table, and the
    script reports PASS although Codex will not notify (`configure-codex-notify.sh:70`), or for the
    setting itself. `PassConfigures` leaves out the files with such a line (`Misread`) and only those.
15. `AutoRunHealthy` (`JobManager`): a message for a session whose workspace was disabled makes the
    session ERROR and leaves its auto-run on (`job_manager.py:200-203`), where every other path to ERROR
    switches it off and `/auto on` is refused (`docs/auto-run.md:73`). Once the notify of a running job
    has made the session IDLE the queue goes on, without `/auto on`. What holds is
    `FailurePausesQueue`: here no job has failed.
16. `AlwaysRestored` (`Installer`): the upgrade of a running earlier release, with its token in the
    main file, removes the token (`install-service.sh:230`) long before systemd is told of the unit that
    has it from `secret.env` (`install-service.sh:304`). If its install ends in between, the old
    unit is started without a token (`upgrade-service.sh:45`), and systemd starts it in vain until
    another install succeeds, where `docs/systemd-operations.md:314` promises the restart; the script
    reports the service as restored. `UpgradeRestores` and `NeverFailing` except exactly this (`cut`).

## 4. Fairness

Weak fairness everywhere, of single coroutines, processes or scripts, and never of a user: no
message, command, edit or second start ever has to come.

- `JobManager`: each coroutine that can continue (asyncio runs every ready task), each process
  and turn (both runners put their process under a timeout; that Codex ends its turns is an
  assumption about Codex), each notify (that the client reaches the socket). `progress` is
  checked for LIVE sessions without faults: in a MANAGED session findings 2 and 3 stop the queue,
  a lost notify or a busy database may leave it waiting for the user, and the code promises no
  more.
- `Delivery`, `SessionMapping`: each handler; Discord answers or the library raises (it has
  timeouts of its own).
- `ManagedCancel`: each call and each canceller; the timers of the code; SIGKILL ends a process
  and its output (that a grandchild may keep the pipe open is left out). A
  process need not exit by itself nor obey SIGTERM.
- `NotifyBridge`: a waiting sender reads its answer or runs into its timeout, the server's read
  timeout fires, handlers return or raise. The server need not be started again.
- `Service`: each process goes on with its start or stop, and systemd starts the supervised one
  again (`Restart=always`). Faults are bounded by `MaxFaults`: crashes end.

Liveness of a sender, a handler or a waiter that goes through its life once is stated as "in the
end nobody waits" (`<>[]`), which for finitely many of them is the same as "who waits is served".

## 5. Proofs

**The job queue** (`JobManager_proofs`, `JobManager_safety`).
The theorems hold for every set of sessions, every assignment of messages and turns to
sessions and every bound. They use the three assumptions of `Deployment`: the bounds are
naturals, the modes and outcomes of an instance are among those the code knows, and `Thread`
gives every message and turn a session.

`TypeCorrect` is inductive as it stands; its lemmas follow the shared sections, then one
step per action.

For safety, `IInv` adds to the invariants of the runs

- `Unclaimed`: a job that is absent or QUEUED has no coroutine,
- `Unstarted`: a coroutine that has not started its process has given the prompt to nobody,
- `Tracked`: the runner's table holds the process of each coroutine inside `resume()`, and a
  running MANAGED process has such a coroutine.

Without `Unclaimed` a claim could restart a job that has run, without `Unstarted` the start of
a process would not be the first, and without `Tracked` an empty entry of the table would not
mean that the thread has no process. The proof has two halves. `StepKind` sorts the steps by
what they do to the jobs: claim one waiting job of a session that has none dispatched
(`Claims`), set the mode of a session without open jobs (`SetsMode`), or claim nothing
(`ClaimsNothing`, from `NoClaim`, which every other transaction satisfies and which is
transitive); `JobsStep` and `OrphanStep` need no other fact about the actions. `ProcessesStep`
goes through the actions that start, end or lose processes and coroutines. `InvStep` joins
the halves, and each theorem follows from `Inductive` or, for the action properties, from
`StepKind`.

**The gates of the adapter** (`Discord_proofs`). The theorems hold for all channels, guilds,
threads and users and every sequence of settings, from `DiscordAssumption` (the bot and Discord
are no users, a thread is no channel). `TypeCorrect` is inductive. `CommandsWhereMessages` needs
no induction: the two gates are the same condition on a user, a guild and a place that exists.
`ThreadsStayUsable` follows from the types, because a mapped thread was made. For
`AnswersAreAllowed` the invariant `AnswersInv` adds that the place of every event and every text
exists, and that nothing is under way while the client is closed. Without the last part a text
that was about to be sent under one list of channels could meet another; without the first the
guild of a thread that is not made would count. That places last (`PlaceStays`) is a lemma of its
own, since threads are made but never removed. `GatesAlwaysAgree` puts the three together.

**The refinement of the queue** (`JobManager_safety`). `QueueImplemented` maps each job's row to
its stage in `JobQueue`. `TransactionRows` says what each transaction does to the rows: store one
job, close dispatched ones, or nothing. Six lemmas then turn a change of rows into an action
of `JobQueue`, and one lemma per group of actions finds the change. `IInv` is needed three times:
without `Unclaimed` the failure of a coroutine could close a job that still waits, without
`Unstarted` a prompt could be given again, and without `OneDispatched` a handover could leave a
second job active. A crash is a step of the queue like any other, because `HalfDone` has
committed one of these changes or none.

**The outbox** (`Delivery_proofs`). For all events, connections, budgets, crashes and busy
transactions, from `DeliveryAssumption`. The invariant says that one handler is inside the lock of
an event (`OneHolder`), and what the row knows of the messages in Discord (`RowKnows`) and a handler
of the row (`CopyKnows`). The count of messages alone is not inductive: that a retry is
allowed follows only from what the row of a failed attempt says about the last message.
`OutboxImplemented` maps the handlers of an event to one sender; a crash at any point is the abstract
interruption, and a handler that comes late is a stutter.

**The managed runner** (`ManagedCancel_proofs`). For all threads, calls and users, from
`RunnerAssumption`. The proof has two layers. `RunnerInv` is about the runner alone: a call whose
process may live is the one the table names for its thread, a mark has a canceller that chose the
entry, and a chosen call is still tracked or has ended. `JobInv` relates the rows to it. Its part
`Behind` is what `CancelSparesOpenJobs` needs and does not say: when a `/cancel` waits for the lock,
the call of a later job on the thread is behind it in the queue, so that it cannot be in the table
when the cancel gets the lock. This rests on the lock being first come, first served, as
`asyncio.Lock` is.

**Sessions and the memory of events** (`NotifyPath_proofs`). For all sessions, turns, copies, crashes
and sizes of the memory, from `MappingAssumption` and `BridgeAssumption`. `ThreadsOK` counts threads:
those made are the mapped one, the ones orphaned by a fault, and one whose answer is on its way.
`AlertedAtMostOnce` is not inductive with what the handlers know of the row: it needs `FirstIsFirst`,
that the notify which inserted an event is ahead of all others of it in the session's lock.
For `SeenIsRecent`, `MemoryOK` says that what is behind an event in the memory came after it, and
that an event is forgotten only from a full memory of later ones. `StagesRun` shows that a behaviour
of `MCNotifyPath` is one of each of its three modules, since the stages leave each other's variables
alone; so `PathTypeOK` and all that was proved of the modules holds of the path (`PathIsSafe`).

**The host** (`Host_proofs`).

- *Service*, from `ServiceAssumption` (systemd supervises at most one process, there are more sockets
  than processes, all finite). For `ServingIsReachable` two processes are alive at once only while one of
  them has not got beyond the probe of the other (`Apart`), and one that has bound holds the
  path (`Holds`). For `FailedHasEnded` a child belongs to a process that is up.
- *Stop hook*: a run that is about to write has a document with exactly its own hook, whatever has
  happened to the file since (`HookInv`). This is why overlapping runs cannot add a second one.
- *Installation*: `ScriptInv` says how far a script has come, and `Progress` what the steps up to there
  have achieved. Each step then needs only the step before it. `RunningInv` says that a service which
  runs, or ran before the upgrade, has what it needs (`Runnable`) except while an install of an old release
  has its token in hand, or after one that was cut there; from it an upgrade can start what it
  stopped (`RecoveryStarts`). `VerdictInv` makes PASS true when the last step prints it.
- *Migrations*: `KeepsPromises` says of the statements that are left that each version is written after
  everything it stands for. It is kept by doing the first one and by losing all of them in a
  crash, so it holds for a start from any version and any interruption.
- *Together*: `PartsRun` and `PartsAreSafe` are for `MCParts` what `StagesRun` and `PathIsSafe` are for
  the path. `PartsTypeOK` contains that `hooks.json` is always a whole document and `config.toml`
  one that Codex can read. `TextsAlwaysArrive` holds under any sequence of prompt limits.

**Texts and files of lines** (`Text_proofs`). Here the operators do the work and the steps are few, so
the proofs are about what recursive functions and folds compute. `Induct` is induction over
numbers, stated for a set of numbers: a property goes in as the set of those that have it.

- *`config.toml`*, for every set of lines and any number of edits. `ReadingIs` shows that the reader of
  TOML, a recursive function over the lines, is the function its definition says, and
  `ReadingSteps` that it stays within its five pieces of knowledge. A prefix of a readable
  file is readable (`ValidPrefix`); what a line without strings does
  to that knowledge, and what is known after each line of such a file, say `PlainLine` and `PlainFile`.
  From these follow `Replaced` and `Inserted`: the file with the line of `notify` exchanged, or with a
  line before the first bracket, has one setting and all other lines as they were.
  `ConfigIsReadable` needs nothing of it, because the script moves a file into place only when tomllib
  has read it. `PassIsTrue` does; `ScanInv` says what a run knows of a file that
  nobody has touched since it was read. It assumes that there is no multi-line string: with one
  `Inserted` is false (finding 14), and which files are still edited well is left to the run.
- *Prompts and results*, for all messages, results, headers and limits, from `MessageTextAssumption`.
  `FlattenIs` shows what `FlattenSeq` computes, `StripIs` that a stripped text is a part of the text and
  stays as it is when it is stripped again. `LinesCounted` compares the two ways to
  count lines by a bijection from the line ends of a message to the "\n" that are
  left of them. With `NormalizedIs` the second normalisation does nothing, and
  `FormattedIs` adds up a message for Discord: header, result and mark, with nothing at its ends for
  `send_text` to strip. `TextInv` says that the prompt of a row is that of its message and that
  what is sent is made of the turn. `TakenUnlessLowered` is finding 13 the other way round: no prompt that
  was taken is refused by the runner unless a start has lowered the limit since.
- *The output of a process*: `OutputIsBounded` holds for every limit and every cut into chunks.

**The form of the models.** A waiting line is a function from those who wait to those ahead of them
(`SessionMapping`, `ManagedRunner`), which says the same as a sequence and needs no induction;
`Migration` builds its scripts with `Append` and functions for the same reason. The
recursions of `NotifyConfig` and of the community modules are functions, never RECURSIVE operators.

**Assumptions.** The theorems use the named assumptions of the modules and no others: bounds are
naturals, maps of an instance are total, and the marks of nothing (`None`, `NoCall`, `NoWorkspace`,
`NoBin`, `NoChannel`) are no members of the sets they extend.

**Model-checked only.** Liveness (`AutoRunDrains`, `DispatchedEnds`, `LockServed`, `CallsEnd`,
`Settles`, `NothingHangs`, `ServiceComesBack`): fairness and `ENABLED` are out of the prover's reach.
The runs that expect a violation state what does not hold, so there is nothing to prove; what the
theorems assume or except instead is named above (no multi-line string, a careful operator in
`ServingIsReachable`, a lowered limit, an upgrade cut after it removed the token).

## 6. Not modelled, and the plan

Not modelled, and why:

- `security.py` (containment of paths, redaction), `logging.py`, the parsing of single settings
  in `config.py`: functions without state. Their decisions are inputs: a refused payload in
  `NotifyBridge`, a refused workspace in `SessionMapping`, a rejected job in `JobManager`.
- `PromptDispatcher`: not constructed by `main.py`.
- The look-up of the Codex binary and the lock of the capability check in `codex_runner.py`: the
  check has one caller, at the start.
- Texts of replies, the registration of slash commands, the read-only `/status` and `/queue`.
- Owners and modes of installed files; an operator's interrupt of a script; the atomicity of the
  writing of one file by `install` (one step in `Installer`); a daemon-reload or a boot while an
  install is half done; the start limit of the unit (five starts a minute), after which systemd gives
  up where `Restarts` goes on.
- The acceptance and probe scripts: an operator runs them by hand.

Not every hazard has a property: a busy database after `complete_dispatched_job` (a fault of the
model, but the code promises nothing), a LIVE task cancelled by `shutdown()` (its job stays
DISPATCHED until the session's next turn ends), and a grandchild of Codex that keeps a pipe open
(depends on what Codex starts).

Nothing of the safety that the runs check is left to prove. What could be added:

1. That `/cancel` answers with the outcome of the call it chose, as a property of steps of `ManagedCancel`.
2. The guarantees of one module as the assumptions of the next (`AckMeansHandled` for the notifies of
   `JobManager`, `RegistrationIsAtomic` for its sessions), which would need a module that has both.
3. The liveness properties, with a prover that knows `ENABLED`.
