\* One worker that falls asleep while the pool is shut down.
CONSTANTS
    owner = owner
    app = app
    w1 = w1
    w2 = w2
    Free = free
    Callers <- MCOwnerOnly
    Owner = owner
    Workers <- MCOneWorker
    MaxTasks = 1
SPECIFICATION FairSpec
PROPERTIES ShutdownReturns
