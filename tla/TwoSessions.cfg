CONSTANTS
    s1 = s1
    s2 = s2
    own = own
    Sessions = {s1, s2}
    MaxJobs = 2
    OwnTurns = {}
    MaxCopies = 1
    MaxFaults = 1
    Modes = {"MANAGED"}
    Outcomes = {"ok"}
    Thread <- TwoThreads
SPECIFICATION Spec
PROPERTIES
    ImplementsJobQueue
