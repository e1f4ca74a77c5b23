\* The owner, two escapers, three requests.
CONSTANTS
    c1 = c1
    c2 = c2
    None = none
    Escapers <- MCEscapers
    MaxRequests = 3
SPECIFICATION FairSpec
INVARIANTS TypeOK
PROPERTIES
    KeepsOrder
    RequestServed
    EscapeReturns
    StartReturns
    StopReturns
CHECK_DEADLOCK FALSE
