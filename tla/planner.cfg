SPECIFICATION PlannerSpec
CONSTANTS
    a = a
    b = b
    c = c
    d = d
    e = e
    Key = {a, b, c, d, e}
    MaxVips = 5
    Unset = Unset
    EntryLists <- AllLists
    Baselines <- WideBaselines
CHECK_DEADLOCK FALSE
INVARIANTS AllocTypeOK SafePlan AllocNeverFails StablePreference
PROPERTIES RelocatedOnCycle PlannerTerminates
