SPECIFICATION Spec
CONSTANTS
    p1 = p1
    None = None
    Proc = {p1}
    MaxLoads = 2
    MaxIfs = 2
    MaxLost = 1
    MaxEdits = 1
    MaxObjects = 1
CHECK_DEADLOCK FALSE
INVARIANTS ServesOwnConfig PinsAreItsOwn
PROPERTIES NoticesRemoval HupHeard
