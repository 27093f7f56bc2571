CONSTANTS
    e1 = e1
    e2 = e2
    e3 = e3
    c1 = c1
    c2 = c2
    c3 = c3
    c4 = c4
    s1 = s1
    w1 = w1
    w2 = w2
    Senders = {c1, c2, c3, c4}
    Events = {e1, e2, e3}
    Bad = Bad
    Contents <- MCContents
    DedupeLimit = 2
    MaxStarts = 1
    Sessions = {s1}
    Workspaces = {w1, w2}
    Turns = {e1, e2, e3}
    Copies = {c1, c2}
    SessionOf <- MCSessionOf
    CwdOf <- MCCwdOf
    Disabled = {w2}
    MaxFaults = 1
    Completions = {e1}
    Connections = {c1, c2, c3}
    RetryAttempts = 3
    MaxTroubles = 2
SPECIFICATION PathSpec
INVARIANTS
    PathTypeOK
    AckMeansHandled
    SeenIsRecent
    EveryThreadAccountedFor
    RegistrationIsAtomic
    AlertedAtMostOnce
    DuplicateNeedsLostAnswer
PROPERTIES
    ImplementsOutbox
    SettledStaysSettled
    NothingHangs
    Settles
