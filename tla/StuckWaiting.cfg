CONSTANTS
    s1 = s1
    s2 = s2
    own = own
    Sessions = {s1}
    MaxJobs = 2
    OwnTurns = {}
    MaxCopies = 1
    MaxFaults = 0
    Modes = {"MANAGED"}
    Outcomes = {"ok"}
    Thread <- OneThread
SPECIFICATION Spec
INVARIANTS
    WaitingHasJob
