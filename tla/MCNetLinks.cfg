\* Three sockets share two handles, one io thread; one accept or two; two ways to dial.
CONSTANTS
    s1 = s1
    s2 = s2
    s3 = s3
    None = none
    Sockets <- MCSockets
    Capacity = 2
    Accepts = {1, 2}
    Options <- MCOptions
    MaxDials = 1
    w1 = w1
    Workers = {w1}
    Logic = logic
SPECIFICATION FairSpec
INVARIANTS
    TypeOK
    CountExact
    ServerOutlives
    
    ReportedOnce
PROPERTIES
    AcceptsKept
    CloseServerReturns
    DialReported
CHECK_DEADLOCK FALSE
