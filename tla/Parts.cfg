CONSTANTS
    i1 = i1
    i2 = i2
    r1 = r1
    r2 = r2
    home = home
    elsewhere = elsewhere
    here = here
    there = there
    Instances = {i1, i2}
    Supervised = {i1}
    Sockets = {s1, s2, s3}
    None = None
    MaxFaults = 4
    Bins = {old, new}
    NoBin = NoBin
    MaxFailures = 3
    Runs = {r1, r2}
    Command <- MCCommand
    Others = {a, b}
    MaxEdits = 2
    Lines = {"set", "table", "old", "new", "open", "list", "item", "close", "text", "textend"}
    MaxLines = 4
    MaxChanges = 1
    Events = {e1, e2}
    Versions = {0, 1, 2, 3, 4, 5}
    MaxCrashes = 2
    Channels = {home, elsewhere}
    Threads = {t1, t2}
    NoChannel = NoChannel
    GuildOf <- MCGuildOf
    Users = {ann, bob}
    Bot = Bot
    System = System
    MaxEvents = 3
    Prompts <- MCPrompts
    Results <- MCResults
    Headers = {1, 2, 3}
    Suffix = 2
    MessageLimit = 7
    PromptLimits = {3, 4}
    Byte = {x, y}
    OutputMax = 3
    Chunk = 2
    MaxOutput = 6
SPECIFICATION PartsSpec
INVARIANTS
    PartsTypeOK
    ServingIsReachable
    FailedHasEnded
    GatesAgree
    OpensWhole
    PassConfigures
    TextsArrive
PROPERTIES
    ServiceComesBack
    InstallsAreTrue
    NothingOverwritten
    OneHook
CHECK_DEADLOCK FALSE
