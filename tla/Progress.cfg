CONSTANTS
    s1 = s1
    s2 = s2
    own = own
    Sessions = {s1}
    MaxJobs = 3
    OwnTurns = {}
    MaxCopies = 1
    MaxFaults = 0
    Modes = {"LIVE"}
    Outcomes = {"rejected", "ok", "unavailable", "refused"}
    Thread <- OneThread
SPECIFICATION FairSpec
PROPERTIES
    AutoRunDrains
    DispatchedEnds
    LockServed
