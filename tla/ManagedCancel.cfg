CONSTANTS
    t1 = t1
    Threads = {t1}
    Calls = {r1, r2}
    Users = {u1}
    Background = {r2}
    ThreadOf <- OneThread
SPECIFICATION CancelSpec
INVARIANTS
    CancelTypeOK
    CancelHitsItsProcess
    CancelSparesOpenJobs
    NothingOutlivesTheService
PROPERTIES
    CallsEnd
