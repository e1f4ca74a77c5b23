\* Two workers, the owner and one more caller, three tasks or more.
CONSTANTS
    owner = owner
    app = app
    w1 = w1
    w2 = w2
    Free = free
    Callers <- MCTwoCallers
    Owner = owner
    Workers <- MCWorkers
    MaxTasks = 3
SPECIFICATION FairSpec
INVARIANTS
    TypeOK
    PopFindsTask
PROPERTIES
    KeepsOrder
    AwakeDrains
