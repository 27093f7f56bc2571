------------------------------- MODULE Discord ------------------------------
(***************************************************************************)
(* The adapter between the service and Discord (adapters/discord.py) with  *)
(* the settings it is started with: three gates decide which messages and  *)
(* commands are let in and where texts and threads may go.  What the bot   *)
(* itself writes comes back to it as an event.                             *)
(*                                                                         *)
(* A handler (JobManager.handle_message) answers every message let in, in  *)
(* the place it came from; a completion goes to the thread of its session. *)
(***************************************************************************)
EXTENDS Integers

CONSTANTS
    Channels,     \* channels of the guilds
    Threads,
    NoChannel,
    GuildOf,      \* [Channels -> guilds]
    Users,
    Bot, System,  \* authors that are no user: the bot, Discord itself
    MaxEvents     \* bound: messages and completions that nobody of the service caused

Guilds == {GuildOf[c] : c \in Channels}
Places == Channels \cup Threads
Authors == Users \cup {Bot, System}
Messages == [by : Authors, place : Places]
Configs == [guilds : SUBSET Guilds, channels : SUBSET Channels,
            users : SUBSET Users, control : Channels]

ASSUME DiscordAssumption ==
    /\ NoChannel \notin Places /\ Channels \cap Threads = {}
    /\ Users \cap {Bot, System} = {} /\ MaxEvents \in Nat

VARIABLES
    conf,    \* the settings
    client,  \* connected
    parent,  \* [Threads -> the channel it is under, NoChannel before it is made]
    mapped,  \* threads of sessions
    inbox,   \* messages Discord has for the service
    texts,   \* send_text calls, [reply : to a message, place]
    caused   \* ghost: how many of the MaxEvents

discordVars == <<conf, client, parent, mapped, inbox, texts, caused>>

DiscordTypeOK ==
    /\ conf \in Configs /\ client \in BOOLEAN
    /\ conf.users # {} /\ conf.control \in conf.channels
    /\ parent \in [Threads -> Channels \cup {NoChannel}]
    /\ mapped \subseteq {t \in Threads : parent[t] # NoChannel}
    /\ inbox \subseteq Messages /\ texts \subseteq [reply : BOOLEAN, place : Places]
    /\ caused \in 0..MaxEvents

-----------------------------------------------------------------------------
RequireDiscord(s) ==
    /\ s.guilds # {} /\ s.channels # {} /\ s.users # {}
    /\ s.control \in s.channels

Parent(p) == IF p \in Threads THEN parent[p] ELSE NoChannel
Guild(p) == IF p \in Threads THEN GuildOf[parent[p]] ELSE GuildOf[p]
Exists(p) == p \in Threads => parent[p] # NoChannel

\* A channel of the list, or a thread under one.
Listed(p) == p \in conf.channels \/ Parent(p) \in conf.channels

\* The order of the checks decides on the reason that is logged only.
AuthorizeRaw(m) ==
    /\ m.by \notin {Bot, System}
    /\ Guild(m.place) \in conf.guilds
    /\ m.by \in conf.users
    /\ Listed(m.place)

AuthorizeIdentity(u, p) == Guild(p) \in conf.guilds /\ u \in conf.users /\ Listed(p)

\* mutant: texts go to the channels of the list
ChannelsOnly(p) == Guild(p) \in conf.guilds /\ p \in conf.channels

AuthorizeChannel(p) == Guild(p) \in conf.guilds /\ Listed(p)

-----------------------------------------------------------------------------
DiscordInit ==
    /\ conf \in {s \in Configs : RequireDiscord(s)}
    /\ client = TRUE
    /\ parent = [t \in Threads |-> NoChannel] /\ mapped = {}
    /\ inbox = {} /\ texts = {} /\ caused = 0

StopBot ==
    /\ client /\ client' = FALSE
    /\ inbox' = {} /\ texts' = {}
    /\ UNCHANGED <<conf, parent, mapped, caused>>

\* With the settings of this start.
StartBot(s) ==
    /\ ~client /\ client' = TRUE
    /\ RequireDiscord(s) /\ conf' = s
    /\ UNCHANGED <<parent, mapped, inbox, texts, caused>>

Cause == client /\ caused < MaxEvents /\ caused' = caused + 1

Write(u, p) ==
    /\ Cause /\ Exists(p)
    /\ inbox' = inbox \cup {[by |-> u, place |-> p]}
    /\ UNCHANGED <<conf, client, parent, mapped, texts>>

\* A turn of a session with a thread has ended.
SendCompletion(t) ==
    /\ Cause /\ t \in mapped
    /\ texts' = texts \cup {[reply |-> FALSE, place |-> t]}
    /\ UNCHANGED <<conf, client, parent, mapped, inbox>>

\* create_thread for a new session, then its alert and its completion.  Discord notes the
\* thread in the channel.
CreateThread(t) ==
    /\ Cause /\ parent[t] = NoChannel
    /\ IF AuthorizeChannel(conf.control)
       THEN /\ parent' = [parent EXCEPT ![t] = conf.control]
            /\ UNCHANGED <<conf, client>>
            /\ IF AuthorizeChannel(t)'
               THEN /\ mapped' = mapped \cup {t}
                    /\ texts' = texts \cup [reply : {FALSE}, place : {t, conf.control}]
               ELSE UNCHANGED <<mapped, texts>>
            /\ inbox' = inbox \cup {[by |-> System, place |-> conf.control]}
       ELSE UNCHANGED <<conf, client, parent, mapped, texts, inbox>>

\* handle_message, and the first text of the handler.
HandleMessage(m) ==
    /\ m \in inbox /\ inbox' = inbox \ {m}
    /\ texts' = IF AuthorizeRaw(m) THEN texts \cup {[reply |-> TRUE, place |-> m.place]}
                ELSE texts
    /\ UNCHANGED <<conf, client, parent, mapped, caused>>

\* send_text: refused, sent, or failed at Discord.
SendText(x) ==
    /\ x \in texts /\ texts' = texts \ {x}
    /\ \/ /\ AuthorizeChannel(x.place)
          /\ inbox' = inbox \cup {[by |-> Bot, place |-> x.place]}
       \/ UNCHANGED inbox
    /\ UNCHANGED <<conf, client, parent, mapped, caused>>

DiscordNext ==
    \/ StopBot \/ \E s \in Configs : StartBot(s)
    \/ \E u \in Users, p \in Places : Write(u, p)
    \/ \E t \in Threads : SendCompletion(t) \/ CreateThread(t)
    \/ \E m \in inbox : HandleMessage(m)
    \/ \E x \in texts : SendText(x)

DiscordSpec == DiscordInit /\ [][DiscordNext]_discordVars

-----------------------------------------------------------------------------
(* Properties.                                                              *)

\* A text that answers a message which was let in is never refused: the two gates agree
\* on places, for channels and for threads made under any earlier settings.
AnswersAreAllowed == \A x \in texts : x.reply => AuthorizeChannel(x.place)

\* Where a user may prompt a session there the user may stop it, and nowhere else: the
\* gates of messages and of commands agree (docs/job-queue.md:198).
CommandsWhereMessages ==
    \A u \in Users, p \in Places :
        Exists(p) => (AuthorizeIdentity(u, p) <=> AuthorizeRaw([by |-> u, place |-> p]))

\* docs/discord-setup.md:137: with its channel on the list, a thread of a session can be
\* used by every allowed user and gets its completions, also after restarts that changed
\* the control channel.
ThreadsStayUsable ==
    \A t \in mapped :
        parent[t] \in conf.channels /\ GuildOf[parent[t]] \in conf.guilds =>
            /\ AuthorizeChannel(t)
            /\ \E u \in Users : AuthorizeRaw([by |-> u, place |-> t])

\* The three gates together.
GatesAgree == AnswersAreAllowed /\ CommandsWhereMessages /\ ThreadsStayUsable

=============================================================================
