\* LinkDown by two threads at once.
CONSTANTS
    main = main
    app = app
    w1 = w1
    w2 = w2
    nobody = nobody
    Callers <- MCOneCaller
    Main = main
    Workers <- MCWorkers
    NoThread = nobody
    BufCap = 1
    PacketMax = 1
    PartMax = 1
    QBound = 1

SPECIFICATION Spec
INVARIANT HandleFreedOnce
