CONSTANTS
    s1 = s1
    s2 = s2
    own = own
    Sessions = {s1}
    MaxJobs = 2
    OwnTurns = {}
    MaxCopies = 1
    MaxFaults = 1
    Modes = {"LIVE", "MANAGED"}
    Outcomes = {"rejected", "ok", "unavailable", "refused", "timeout", "killed"}
    Thread <- OneThread
SPECIFICATION Spec
INVARIANTS
    SubmitOnce
    NoOrphanedManagedJob
    OneManagedProcess
    IInv
PROPERTIES
    FailurePausesQueue
    FirstVerdictStands
