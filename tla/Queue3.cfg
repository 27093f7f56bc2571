CONSTANTS
    s1 = s1
    s2 = s2
    own = own
    Sessions = {s1}
    MaxJobs = 3
    OwnTurns = {}
    MaxCopies = 1
    MaxFaults = 1
    Modes = {"LIVE"}
    Outcomes = {"ok", "refused"}
    Thread <- OneThread
SPECIFICATION Spec
PROPERTIES
    ImplementsJobQueue
    CancelledInQueueStaysOut
