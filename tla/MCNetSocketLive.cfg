\* Liveness: the smallest buffer and queue that still block and overflow.
CONSTANTS
    main = main
    app = app
    w1 = w1
    w2 = w2
    nobody = nobody
    Callers <- MCOneCaller
    Main = main
    Workers <- MCOneWorker
    NoThread = nobody
    BufCap = 1
    PacketMax = 1
    PartMax = 1
    QBound = 1

SPECIFICATION FairSpec
PROPERTIES CloseReported HandleReleased
