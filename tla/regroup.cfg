SPECIFICATION Spec
CONSTANTS
    a = a
    b = b
    c = c
    d = d
    r1 = r1
    r2 = r2
    r3 = r3
    p1 = p1
    p2 = p2
    p3 = p3
    Key = {a, b, c, d}
    MaxVips = 4
    Unset = Unset
    NoConf = NoConf
    Missing = Missing
    Id = {1, 2, 3}
    Rule = {r1}
    Port = {p1}
    MaxAcl = 1
    MaxTxPorts = 1
    MaxFaults = 2
    TableSize = 2
    Score <- MCScore
    Coarse = 1
    Digest <- MCDigest
    EntryLists <- ListsOfConfs
    Baselines <- NoBaselines
    Confs <- RegroupConfs
INVARIANTS TypeOK NoMisroute RowsPopulated
PROPERTIES ImplementsService
