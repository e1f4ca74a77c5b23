\* Two events on a wheel of three levels and twelve ticks.
CONSTANTS
    e1 = e1
    e2 = e2
    None = none
    Events = {e1, e2}
    Radix <- MCRadix
    Precision = 2
    Day = 2
    Week = 2
    Month = 2
    Cycles <- MCCycles
    Durations = {0, 11}
    Starts = {0, 3, 7}
    Clocks = {1, 3, 7}
    MaxEntries = 3
SPECIFICATION FairSpec
INVARIANTS
    TypeOK
    Placed
    CycleKept
PROPERTIES
    CalledOnce
    KeepsSchedule
    StepReturns
