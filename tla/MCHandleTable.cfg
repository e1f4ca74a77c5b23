\* Two chunks of two slots, a third one when they are full, two rounds.
CONSTANTS
    Slots = 2
    MaxChunks = 3
    FirstChunks = 2
    Rounds = 2
    None = none
    MaxHandles = 9
SPECIFICATION FairSpec
INVARIANTS
    TypeOK
    AllocaExact
    KeptResolves
PROPERTIES NewReturns
CHECK_DEADLOCK FALSE
