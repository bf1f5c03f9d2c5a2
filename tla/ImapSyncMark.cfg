SPECIFICATION Spec
CONSTANTS
    w1 = w1
    w2 = w2
    m1 = m1
    m2 = m2
    Workers <- MCWorkers
    Mails <- MCOneMail
    SyncingTimeout = 1
    FailuresThreshold = 0
    None = None
    MaxFailures = 0
    MaxResets = 0
INVARIANTS
    NoConcurrentSync
