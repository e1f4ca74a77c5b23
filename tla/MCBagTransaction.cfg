\* Two bags of two slots that hold up to two of a kind.
CONSTANTS
    Goods = {g1}
    None = none
    Own = own
    Other = other
    Capacity = 2
    Overlap = 2
    MaxLog = 4
SPECIFICATION Spec
INVARIANT RollbackRestores
CHECK_DEADLOCK FALSE
