------------------------------ MODULE Migration -----------------------------
(***************************************************************************)
(* Opening the database: Database.open and _migrate                        *)
(* (src/codex_dispatch/database.py), from every schema version an earlier  *)
(* release has left, with a crash or a locked database at any statement.   *)
(*                                                                         *)
(* Each migration but the last runs its statements with executescript,     *)
(* which commits the transaction it was called in: every statement is      *)
(* committed by itself.  The last, from version 3, is one transaction.     *)
(***************************************************************************)
EXTENDS Integers, Sequences

CONSTANTS
    Events,     \* notify events the file may hold
    Versions,   \* bound: the schema versions of the file that is opened
    MaxCrashes  \* bound: crashes and locked statements in a behaviour

SchemaVersion == 4

ASSUME MigrationAssumption == Versions \subseteq Nat /\ MaxCrashes \in Nat

VARIABLES
    version,     \* PRAGMA user_version
    objects,     \* tables, indexes and the added column
    eventRows,   \* rows of notify_events
    deliveries,  \* notify_event_id of the rows of discord_deliveries
    phase,       \* "down", "migrating", "open", "refused"
    todo,        \* statements of the current migration that are left
    crashes      \* ghost

database == <<version, objects, eventRows, deliveries>>
migrationVars == <<database, phase, todo, crashes>>

Core == {"workspaces", "sessions", "notify_events",
         "idx_sessions_workspace_id", "idx_notify_events_thread_id"}
Outbox == {"discord_deliveries", "idx_discord_deliveries_status"}
JobTable == {"jobs", "idx_jobs_thread_status", "idx_jobs_one_dispatched_per_session"}
AutoRun == {"sessions.auto_run"}

\* The schema of a version.
Schema(v) == (IF v >= 1 THEN Core ELSE {}) \cup (IF v >= 2 THEN Outbox ELSE {})
             \cup (IF v >= 3 THEN JobTable ELSE {}) \cup (IF v >= 4 THEN AutoRun ELSE {})

Create(o) == [does |-> "create", object |-> o]
Fill == [does |-> "fill"]
Version(v) == [does |-> "version", to |-> v]

Creates(names) == [i \in DOMAIN names |-> Create(names[i])]

\* A table comes before its indexes.
OutboxScript == Creates(<<"discord_deliveries", "idx_discord_deliveries_status">>)
JobScript == Creates(<<"jobs", "idx_jobs_thread_status", "idx_jobs_one_dispatched_per_session">>)
FreshScript == Creates(<<"workspaces", "sessions", "sessions.auto_run", "notify_events",
                         "discord_deliveries", "idx_sessions_workspace_id",
                         "idx_notify_events_thread_id", "idx_discord_deliveries_status",
                         "jobs", "idx_jobs_thread_status",
                         "idx_jobs_one_dispatched_per_session">>)

\* mutant: the version first, then what it stands for
VersionFirst(v) == CASE v = 0 -> <<Version(SchemaVersion)>> \o FreshScript
                     [] v = 1 -> <<Version(2)>> \o OutboxScript \o <<Fill>>
                     [] v = 2 -> <<Version(3)>> \o JobScript

\* The statements of the migration from version v.
Script(v) == CASE v = 0 -> Append(FreshScript, Version(SchemaVersion))
               [] v = 1 -> Append(Append(OutboxScript, Fill), Version(2))
               [] v = 2 -> Append(JobScript, Version(3))

\* The column of `sessions` comes with the table in a fresh database.
MigrationTypeOK == /\ version \in 0..SchemaVersion \cup Versions
                   /\ objects \subseteq Schema(SchemaVersion)
                   /\ eventRows \subseteq Events /\ deliveries \subseteq Events
                   /\ phase \in {"down", "migrating", "open", "refused"}
                   /\ crashes \in 0..MaxCrashes

MigrationInit == /\ version \in Versions
                 /\ objects = Schema(version)
                 /\ eventRows \in SUBSET (IF version = 0 THEN {} ELSE Events)
                 /\ deliveries = IF version >= 2 THEN eventRows ELSE {}
                 /\ phase = "down" /\ todo = <<>> /\ crashes = 0

CanFail == crashes < MaxCrashes /\ crashes' = crashes + 1

Supported(v) == v <= SchemaVersion

\* open: look at the version and begin the migration it needs.
Open == /\ phase = "down"
        /\ UNCHANGED <<database, crashes>>
        /\ \/ ~Supported(version) /\ phase' = "refused" /\ UNCHANGED todo
           \/ /\ Supported(version)
              /\ phase' = IF version >= SchemaVersion THEN "open" ELSE "migrating"
              /\ todo' = IF version < 3 THEN Script(version) ELSE <<>>

\* A table or index that exists already: after a crash in the middle, every later start
\* fails here.
Fails(s) == s.does = "create" /\ s.object \in objects

\* One statement of a script, committed by itself.
Execute(s) ==
    /\ objects' = IF s.does = "create" THEN objects \cup {s.object} ELSE objects
    /\ deliveries' = IF s.does = "fill" THEN deliveries \cup eventRows ELSE deliveries
    /\ version' = IF s.does = "version" THEN s.to ELSE version
    /\ UNCHANGED eventRows

Refuse == phase' = "refused" /\ todo' = <<>> /\ UNCHANGED database

Statement ==
    /\ phase = "migrating" /\ todo # <<>>
    /\ \/ Fails(Head(todo)) /\ Refuse /\ UNCHANGED crashes
       \/ ~Fails(Head(todo)) /\ Execute(Head(todo)) /\ todo' = Tail(todo)
          /\ UNCHANGED <<phase, crashes>>
       \/ CanFail /\ Refuse          \* the database is locked by somebody else

\* The version reached has a migration of its own.
NextScript == /\ phase = "migrating" /\ todo = <<>> /\ version < 3
              /\ todo' = Script(version)
              /\ UNCHANGED <<database, phase, crashes>>

AddColumn == objects' = objects \cup AutoRun

\* From version 3: one transaction.
AddAutoRun ==
    /\ phase = "migrating" /\ todo = <<>> /\ version = 3
    /\ \/ /\ AddColumn /\ version' = SchemaVersion
          /\ UNCHANGED <<eventRows, deliveries, phase, todo, crashes>>
       \/ CanFail /\ Refuse

Finish == /\ phase = "migrating" /\ todo = <<>> /\ version = SchemaVersion
          /\ phase' = "open"
          /\ UNCHANGED <<database, todo, crashes>>

\* The service is in use: register_notify writes an event with its delivery row.
Register(e) == /\ phase = "open"
               /\ eventRows' = eventRows \cup {e}
               /\ deliveries' = deliveries \cup {e}
               /\ UNCHANGED <<version, objects, phase, todo, crashes>>

Killed == /\ phase \in {"migrating", "open"} /\ CanFail
          /\ phase' = "down" /\ todo' = <<>>
          /\ UNCHANGED database

\* systemd starts a service that could not open its database again, or, beyond its
\* start limit, the operator.
TryAgain == phase = "refused" /\ phase' = "down" /\ UNCHANGED <<database, todo, crashes>>

Migrate == Open \/ Statement \/ NextScript \/ AddAutoRun \/ Finish \/ TryAgain

MigrationNext == Migrate \/ Killed \/ \E e \in Events : Register(e)

MigrationSpec == MigrationInit /\ [][MigrationNext]_migrationVars

-----------------------------------------------------------------------------
(* Properties.                                                              *)

\* The service never runs on a schema that is not complete, and never on a newer
\* one, whatever was interrupted before.
OpenIsComplete == phase = "open" => /\ version = SchemaVersion
                                    /\ objects = Schema(SchemaVersion)

\* The version written in the file can be trusted: what it stands for is there, at
\* every crash.
VersionIsTrue == Schema(version) \cap Schema(SchemaVersion) \subseteq objects

\* A running service has one delivery row for each event, those of older releases
\* included: nothing it has to deliver is unknown to the outbox.
EveryEventHasDelivery == phase = "open" => deliveries = eventRows

\* Wherever it was interrupted: a file is what it says it is, and is used when it is whole.
OpensWhole == OpenIsComplete /\ VersionIsTrue /\ EveryEventHasDelivery
=============================================================================
