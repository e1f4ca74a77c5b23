\* Safety: the logic thread as the only caller, two workers.
CONSTANTS
    main = main
    app = app
    w1 = w1
    w2 = w2
    nobody = nobody
    Callers <- MCOneCaller
    Main = main
    Workers <- MCWorkers
    NoThread = nobody
    BufCap = 3
    PacketMax = 1
    PartMax = 2
    QBound = 2
SYMMETRY Symmetry
SPECIFICATION Spec
INVARIANTS
    TypeOK
    OpCountExact
    NoDataAfterClose
    CloseOnce
    SingleWriter
    BytesInFlight
    NotStranded
PROPERTIES KeepsPromise
