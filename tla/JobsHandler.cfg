SPECIFICATION Spec
CONSTANTS
    imap = imap
    twitter = twitter
    j1 = j1
    j2 = j2
    j3 = j3
    p1 = p1
    p2 = p2
    p3 = p3
    MaxLosses = 2
    NoJob = NoJob
    Workers <- MCWorkers
    Jobs <- MCJobs
    WorkerOf <- MCWorkerOf
    Procs <- MCProcs
    Serves <- MCServes
INVARIANTS
    TypeOK
    QueueMatchesMap
    WorksOnOwnJobs
PROPERTIES
    FirstInFirstOut
    ImplementsPendingJobs
    EverySyncHappens
