SPECIFICATION Spec
CONSTANTS
    t1 = t1
    t2 = t2
    Empty = Empty
    Tasks = {t1}
    MaxSaves = 2
INVARIANT SuccessLeavesNothing
