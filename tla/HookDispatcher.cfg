SPECIFICATION HooksFairSpec
CONSTANTS
    r1 = r1  b1 = b1  j1 = j1  j2 = j2  w1 = w1  Nobody = Nobody
    Units <- MCUnits
    Schedulers <- MCBackground
    Requests <- MCRequests
    Background <- MCBackground
    Jobs <- MCJobs
    Workers <- MCWorkers
    QueueCap = 1  MaxHooks = 2
    Timeout = 1  Early = 1  MaxGeneration = 2
INVARIANTS TypeOK HandoffNeverDenied NoSendOnClosed
           DependenciesOutliveUse
PROPERTIES WaitersWoken UnusedDaemonStops IdleStopOnlyAtRest GracefulDrain
