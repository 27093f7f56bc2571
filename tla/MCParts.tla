------------------------------- MODULE MCParts ------------------------------
(***************************************************************************)
(* The parts of the system that share no state with the rest while they    *)
(* run, for TLC: processes of the service around their socket (Service),   *)
(* the installation scripts (Installer, StopHook, NotifyConfig), opening   *)
(* the database (Migration), the gates of the Discord adapter (Discord),   *)
(* and texts on their way (MessageText, BoundedReader).  A behaviour is    *)
(* one of one part, with the others at rest.                               *)
(***************************************************************************)
EXTENDS Service, Installer, StopHook, NotifyConfig, Migration, Discord, MessageText,
        BoundedReader

CONSTANTS i1, i2, r1, r2, home, elsewhere, here, there

VARIABLE part

Parts == {"service", "install", "hook", "config", "migration", "discord", "text", "reader"}

\* Two checkouts; two channels, each in a guild of its own; every text up to a length.
MCCommand == [r \in Runs |-> IF r = r1 THEN "here" ELSE "there"]
MCGuildOf == [c \in Channels |-> IF c = home THEN here ELSE there]
MCPrompts == UNION {[1..n -> {"x", " ", "CR", "LF", "NUL"}] : n \in 0..5}
MCResults == UNION {[1..n -> {"x", " "}] : n \in 0..8} \cup {<<"NUL">>, <<"x", "NUL", "x">>}

\* A part at rest has one initial state.
PartsInit ==
    /\ part \in Parts
    /\ ServiceInit /\ (part = "service" \/ operator = "absent")
    /\ InstallerInit /\ (part = "install" \/ ~main.exists)
    /\ HookInit /\ (part = "hook" \/ kind = "none")
    /\ ConfigInit /\ (part = "config" \/ toml = <<>>)
    /\ MigrationInit /\ (part = "migration" \/ version = 0)
    /\ DiscordInit /\ (part = "discord" \/ conf = CHOOSE s \in Configs : RequireDiscord(s))
    /\ TextInit /\ (part = "text" \/ limit = CHOOSE n \in PromptLimits : TRUE)
    /\ ReaderInit

InService == ServiceNext /\ UNCHANGED <<installerVars, hookVars, configVars, migrationVars,
                                        discordVars, textVars, readerVars>>
InInstall == InstallerNext /\ UNCHANGED <<serviceVars, hookVars, configVars, migrationVars,
                                          discordVars, textVars, readerVars>>
InHook == HookNext /\ UNCHANGED <<serviceVars, installerVars, configVars, migrationVars,
                                  discordVars, textVars, readerVars>>
InConfig == ConfigNext /\ UNCHANGED <<serviceVars, installerVars, hookVars, migrationVars,
                                      discordVars, textVars, readerVars>>
InMigration == MigrationNext /\ UNCHANGED <<serviceVars, installerVars, hookVars, configVars,
                                            discordVars, textVars, readerVars>>
InDiscord == DiscordNext /\ UNCHANGED <<serviceVars, installerVars, hookVars, configVars,
                                        migrationVars, textVars, readerVars>>
InText == TextNext /\ UNCHANGED <<serviceVars, installerVars, hookVars, configVars,
                                  migrationVars, discordVars, readerVars>>
InReader == ReaderNext /\ UNCHANGED <<serviceVars, installerVars, hookVars, configVars,
                                      migrationVars, discordVars, textVars>>

PartsNext ==
    /\ \/ part = "service" /\ InService
       \/ part = "install" /\ InInstall
       \/ part = "hook" /\ InHook
       \/ part = "config" /\ InConfig
       \/ part = "migration" /\ InMigration
       \/ part = "discord" /\ InDiscord
       \/ part = "text" /\ InText
       \/ part = "reader" /\ InReader
    /\ UNCHANGED part

partsVars == <<part, serviceVars, installerVars, hookVars, configVars, migrationVars,
               discordVars, textVars, readerVars>>

\* The fairness of Service, in its behaviours.
PartsSpec == /\ PartsInit /\ [][PartsNext]_partsVars
             /\ \A i \in Instances : WF_serviceVars(part = "service" /\ Step(i))
             /\ \A i \in Supervised : WF_serviceVars(part = "service" /\ Start(i))

-----------------------------------------------------------------------------
\* The types of the parts.  Two of them say more: whoever reads hooks.json finds a whole
\* document (HookTypeOK), and config.toml is a file Codex can read (ConfigTypeOK).
PartsTypeOK ==
    /\ ServiceTypeOK /\ InstallerTypeOK /\ HookTypeOK /\ ConfigTypeOK
    /\ MigrationTypeOK /\ DiscordTypeOK /\ TextTypeOK /\ ReaderTypeOK

\* systemd brings the service back, whatever it died of.
ServiceComesBack == <>[](part = "service" => Serving)

\* A prompt that was taken reaches Codex as it was written.
PromptArrives == TakenIsTaken /\ StoredIsGiven /\ LinesKept

\* Whoever reads a text that was shortened, by the reader of an output or for Discord, is
\* told so, and has its beginning; nobody is told so of a whole one.
CutsAreMarked == CompletionFits /\ KeepsTheBeginning /\ TruncatedIffCut

\* Texts come out as they went in, or say that they did not.
TextsArrive == PromptArrives /\ CutsAreMarked
=============================================================================
