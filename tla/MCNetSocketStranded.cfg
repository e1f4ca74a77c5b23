\* A second application thread sends while the connection closes.
CONSTANTS
    main = main
    app = app
    w1 = w1
    w2 = w2
    nobody = nobody
    Callers <- MCTwoCallers
    Main = main
    Workers <- MCOneWorker
    NoThread = nobody
    BufCap = 1
    PacketMax = 1
    PartMax = 1
    QBound = 1

SPECIFICATION Spec
INVARIANT NotStranded
