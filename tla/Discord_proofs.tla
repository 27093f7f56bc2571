--------------------------- MODULE Discord_proofs ---------------------------
(***************************************************************************)
(* The safety properties of Discord, for every set of channels, guilds,    *)
(* users and threads, and every sequence of settings.                      *)
(***************************************************************************)
EXTENDS Discord, TLAPS

\* The types, by induction: a text or an event is about a place, and a session has a
\* thread only after it was made.
THEOREM TypeCorrect == DiscordSpec => []DiscordTypeOK
<1>1. DiscordInit => DiscordTypeOK
  BY DiscordAssumption DEF DiscordInit, DiscordTypeOK, RequireDiscord, Configs
<1>2. DiscordTypeOK /\ [DiscordNext]_discordVars => DiscordTypeOK'
  <2> SUFFICES ASSUME DiscordTypeOK, [DiscordNext]_discordVars
               PROVE  DiscordTypeOK'
    OBVIOUS
  <2> USE DEF DiscordTypeOK
  <2>1. CASE StopBot
    BY <2>1 DEF StopBot
  <2>2. ASSUME NEW s \in Configs, StartBot(s)
        PROVE  DiscordTypeOK'
    BY <2>2 DEF StartBot, RequireDiscord
  <2>3. ASSUME NEW u \in Users, NEW p \in Places, Write(u, p)
        PROVE  DiscordTypeOK'
    <3>1. [by |-> u, place |-> p] \in Messages
      BY DEF Messages, Authors
    <3>2. caused' \in 0..MaxEvents
      BY <2>3, DiscordAssumption DEF Write, Cause
    <3> QED
      BY <2>3, <3>1, <3>2 DEF Write
  <2>4. ASSUME NEW t \in Threads, SendCompletion(t)
        PROVE  DiscordTypeOK'
    <3>1. [reply |-> FALSE, place |-> t] \in [reply : BOOLEAN, place : Places]
      BY DEF Places
    <3>2. caused' \in 0..MaxEvents
      BY <2>4, DiscordAssumption DEF SendCompletion, Cause
    <3> QED
      BY <2>4, <3>1, <3>2 DEF SendCompletion
  <2>5. ASSUME NEW t \in Threads, CreateThread(t)
        PROVE  DiscordTypeOK'
    <3>1. caused' \in 0..MaxEvents
      BY <2>5, DiscordAssumption DEF CreateThread, Cause
    <3>2. CASE AuthorizeChannel(conf.control)
      <4>1. conf.control \in Channels /\ conf.control # NoChannel
        BY DiscordAssumption DEF Configs, Places
      <4>2. /\ UNCHANGED <<conf, client>>
            /\ parent' = [parent EXCEPT ![t] = conf.control]
            /\ inbox' = inbox \cup {[by |-> System, place |-> conf.control]}
            /\ \/ mapped' = mapped \cup {t}
                  /\ texts' = texts \cup [reply : {FALSE}, place : {t, conf.control}]
               \/ UNCHANGED <<mapped, texts>>
        BY <2>5, <3>2 DEF CreateThread
      <4>3. [by |-> System, place |-> conf.control] \in Messages
        BY <4>1 DEF Messages, Authors, Places
      <4>4. [reply : {FALSE}, place : {t, conf.control}] \subseteq [reply : BOOLEAN, place : Places]
        BY <4>1 DEF Places
      <4>5. parent' \in [Threads -> Channels \cup {NoChannel}] /\ parent'[t] # NoChannel
        BY <4>1, <4>2
      <4>6. \A x \in Threads : parent[x] # NoChannel => parent'[x] # NoChannel
        BY <4>1, <4>2
      <4>7. mapped' \subseteq {x \in Threads : parent'[x] # NoChannel}
        BY <4>2, <4>5, <4>6
      <4>8. texts' \subseteq [reply : BOOLEAN, place : Places]
        BY <4>2, <4>4
      <4> QED
        BY <3>1, <4>2, <4>3, <4>5, <4>7, <4>8
    <3>3. CASE ~AuthorizeChannel(conf.control)
      BY <2>5, <3>1, <3>3 DEF CreateThread
    <3> QED
      BY <3>2, <3>3
  <2>6. ASSUME NEW m \in inbox, HandleMessage(m)
        PROVE  DiscordTypeOK'
    <3>1. [reply |-> TRUE, place |-> m.place] \in [reply : BOOLEAN, place : Places]
      BY DEF Messages
    <3> QED
      BY <2>6, <3>1 DEF HandleMessage
  <2>7. ASSUME NEW x \in texts, SendText(x)
        PROVE  DiscordTypeOK'
    <3>1. [by |-> Bot, place |-> x.place] \in Messages
      BY DEF Messages, Authors
    <3> QED
      BY <2>7, <3>1 DEF SendText
  <2>8. CASE UNCHANGED discordVars
    BY <2>8 DEF discordVars
  <2> QED
    BY <2>1, <2>2, <2>3, <2>4, <2>5, <2>6, <2>7, <2>8 DEF DiscordNext
<1> QED
  BY <1>1, <1>2, PTL DEF DiscordSpec

-----------------------------------------------------------------------------
\* The gates of commands and of messages agree in every state.
THEOREM SameGate == DiscordSpec => []CommandsWhereMessages
<1>1. CommandsWhereMessages
  BY DiscordAssumption
  DEF CommandsWhereMessages, AuthorizeIdentity, AuthorizeRaw
<1> QED
  BY <1>1, PTL

\* A thread of a session can be used and written to under all settings that list its
\* channel.
THEOREM SessionThreadsUsable == DiscordSpec => []ThreadsStayUsable
<1>1. DiscordTypeOK => ThreadsStayUsable
  <2> SUFFICES ASSUME DiscordTypeOK, NEW t \in mapped,
                      parent[t] \in conf.channels, GuildOf[parent[t]] \in conf.guilds
               PROVE  /\ AuthorizeChannel(t)
                      /\ \E u \in Users : AuthorizeRaw([by |-> u, place |-> t])
    BY DEF ThreadsStayUsable
  <2>1. t \in Threads
    BY DEF DiscordTypeOK
  <2>2. Guild(t) \in conf.guilds /\ Listed(t)
    BY <2>1 DEF Guild, Listed, Parent
  <2>3. PICK u \in conf.users : TRUE
    BY DEF DiscordTypeOK
  <2>4. u \in Users /\ u \notin {Bot, System}
    BY <2>3, DiscordAssumption DEF DiscordTypeOK, Configs
  <2> QED
    BY <2>2, <2>3, <2>4 DEF AuthorizeChannel, AuthorizeRaw
<1> QED
  BY <1>1, TypeCorrect, PTL

-----------------------------------------------------------------------------
\* A thread does not move, so a place that was let in stays allowed as long as the
\* settings do.
LEMMA PlaceStays ==
    ASSUME DiscordTypeOK, NEW p \in Places, AuthorizeChannel(p), Exists(p),
           UNCHANGED conf,
           \A t \in Threads : parent[t] # NoChannel => parent'[t] = parent[t]
    PROVE  AuthorizeChannel(p)' /\ Exists(p)'
BY DEF AuthorizeChannel, Guild, Listed, Parent, Exists

\* Events and texts are about places that exist, answers about allowed ones, and there
\* are none when the settings change.
AnswersInv ==
    /\ DiscordTypeOK
    /\ ~client => inbox = {} /\ texts = {}
    /\ \A m \in inbox : Exists(m.place)
    /\ \A x \in texts : Exists(x.place) /\ (x.reply => AuthorizeChannel(x.place))

THEOREM NoAnswerRefused == DiscordSpec => []AnswersAreAllowed
<1>1. DiscordInit => AnswersInv
  <2>1. DiscordInit => DiscordTypeOK
    BY DiscordAssumption DEF DiscordInit, DiscordTypeOK, RequireDiscord, Configs
  <2> QED
    BY <2>1 DEF DiscordInit, AnswersInv
<1>2. AnswersInv /\ DiscordTypeOK' /\ [DiscordNext]_discordVars => AnswersInv'
  <2> SUFFICES ASSUME AnswersInv, DiscordTypeOK', [DiscordNext]_discordVars
               PROVE  AnswersInv'
    OBVIOUS
  <2>0. /\ DiscordTypeOK
        /\ ~client => inbox = {} /\ texts = {}
        /\ \A m \in inbox : m \in Messages /\ m.place \in Places /\ Exists(m.place)
        /\ \A x \in texts : /\ x.place \in Places /\ Exists(x.place)
                            /\ x.reply => AuthorizeChannel(x.place)
    BY DEF AnswersInv, DiscordTypeOK, Messages
  <2>1. CASE StopBot
    BY <2>1 DEF StopBot, AnswersInv
  <2>2. ASSUME NEW s \in Configs, StartBot(s)
        PROVE  AnswersInv'
    <3>1. inbox' = {} /\ texts' = {} /\ client'
      BY <2>0, <2>2 DEF StartBot
    <3> QED
      BY <3>1 DEF AnswersInv
  <2>3. ASSUME NEW u \in Users, NEW p \in Places, Write(u, p)
        PROVE  AnswersInv'
    BY <2>0, <2>3 DEF Write, Cause, AnswersInv, Exists, AuthorizeChannel, Guild, Listed, Parent
  <2>4. ASSUME NEW t \in Threads, SendCompletion(t)
        PROVE  AnswersInv'
    <3>1. Exists(t)
      BY <2>0, <2>4 DEF SendCompletion, DiscordTypeOK, Exists
    <3> QED
      BY <2>0, <2>4, <3>1
      DEF SendCompletion, Cause, AnswersInv, Exists, AuthorizeChannel, Guild, Listed, Parent
  <2>5. ASSUME NEW t \in Threads, CreateThread(t)
        PROVE  AnswersInv'
    <3>1. CASE UNCHANGED <<conf, client, parent, mapped, texts, inbox>>
      BY <3>1 DEF AnswersInv, Exists, AuthorizeChannel, Guild, Listed, Parent
    <3>2. CASE AuthorizeChannel(conf.control)
      <4>1. /\ client /\ parent[t] = NoChannel
            /\ UNCHANGED <<conf, client>>
            /\ parent' = [parent EXCEPT ![t] = conf.control]
            /\ inbox' = inbox \cup {[by |-> System, place |-> conf.control]}
            /\ texts' \subseteq texts \cup [reply : {FALSE}, place : {t, conf.control}]
        BY <2>5, <3>2 DEF CreateThread, Cause
      <4>2. conf.control \in Channels /\ conf.control \notin Threads /\ conf.control # NoChannel
        BY <2>0, DiscordAssumption DEF DiscordTypeOK, Configs, Places
      <4>3. /\ \A u \in Threads : parent[u] # NoChannel => parent'[u] = parent[u]
            /\ parent'[t] # NoChannel
        BY <2>0, <4>1, <4>2 DEF DiscordTypeOK
      <4>4. Exists(conf.control)' /\ Exists(t)'
        BY <4>1, <4>2, <4>3 DEF Exists
      <4>5. ASSUME NEW m \in inbox'
            PROVE  Exists(m.place)'
        BY <2>0, <4>1, <4>3, <4>4, <4>5 DEF Exists
      <4>6. ASSUME NEW x \in texts'
            PROVE  Exists(x.place)' /\ (x.reply => AuthorizeChannel(x.place)')
        <5>1. CASE x \in texts
          BY <2>0, <4>1, <4>3, <5>1, PlaceStays DEF Exists
        <5>2. CASE x \in [reply : {FALSE}, place : {t, conf.control}]
          BY <4>1, <4>4, <5>2
        <5> QED
          BY <4>1, <4>6, <5>1, <5>2
      <4> QED
        BY <4>1, <4>5, <4>6 DEF AnswersInv
    <3> QED
      BY <2>5, <3>1, <3>2 DEF CreateThread
  <2>6. ASSUME NEW m \in inbox, HandleMessage(m)
        PROVE  AnswersInv'
    <3>1. AuthorizeRaw(m) => AuthorizeChannel(m.place)
      BY DEF AuthorizeRaw, AuthorizeChannel
    <3> QED
      BY <2>0, <2>6, <3>1
      DEF HandleMessage, AnswersInv, Exists, AuthorizeChannel, Guild, Listed, Parent
  <2>7. ASSUME NEW x \in texts, SendText(x)
        PROVE  AnswersInv'
    BY <2>0, <2>7
    DEF SendText, AnswersInv, Exists, AuthorizeChannel, Guild, Listed, Parent
  <2>8. CASE UNCHANGED discordVars
    BY <2>8 DEF discordVars, AnswersInv, Exists, AuthorizeChannel, Guild, Listed, Parent
  <2> QED
    BY <2>1, <2>2, <2>3, <2>4, <2>5, <2>6, <2>7, <2>8 DEF DiscordNext
<1>3. AnswersInv => AnswersAreAllowed
  BY DEF AnswersInv, AnswersAreAllowed
<1> QED
  BY <1>1, <1>2, <1>3, TypeCorrect, PTL DEF DiscordSpec

-----------------------------------------------------------------------------
\* The three gates agree: what is let in can be answered, what may be prompted may be
\* stopped, and a thread of a session stays usable under all settings with its channel.
THEOREM GatesAlwaysAgree == DiscordSpec => []GatesAgree
<1>1. AnswersAreAllowed /\ CommandsWhereMessages /\ ThreadsStayUsable => GatesAgree
  BY DEF GatesAgree
<1> QED
  BY <1>1, NoAnswerRefused, SameGate, SessionThreadsUsable, PTL
=============================================================================
