CONSTANTS
    s1 = s1
    s2 = s2
    own = own
    Sessions = {s1}
    MaxJobs = 2
    OwnTurns = {}
    MaxCopies = 2
    MaxFaults = 0
    Modes = {"LIVE"}
    Outcomes = {"ok"}
    Thread <- OneThread
SPECIFICATION Spec
INVARIANTS
    CompletedTurnEnded
