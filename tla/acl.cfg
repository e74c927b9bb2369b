SPECIFICATION Spec
CONSTANTS
    a = a
    b = b
    c = c
    d = d
    r1 = r1
    r2 = r2
    r3 = r3
    p1 = p1
    p2 = p2
    p3 = p3
    Key = {a, b}
    MaxVips = 1
    Unset = Unset
    NoConf = NoConf
    Missing = Missing
    Id = {1, 2}
    Rule = {r1, r2, r3}
    Port = {p1, p2, p3}
    MaxAcl = 2
    MaxTxPorts = 2
    MaxFaults = 2
    TableSize = 2
    Score <- MCScore
    Coarse = 1
    Digest <- MCDigest
    EntryLists <- ListsOfConfs
    Baselines <- NoBaselines
    Confs <- AclConfs
INVARIANTS AclBitCovers VipMapFits KeptStays Converged
PROPERTIES ReconcileReturns
