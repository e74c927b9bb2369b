SPECIFICATION InFlightSpec
CONSTANTS
    a = a
    b = b
    c = c
    Key = {a, b, c}
    MaxVips = 3
    Unset = Unset
    NoConf = NoConf
    NoPacket = NoPacket
    AnyPort <- Ports
    Id = {1, 2, 3}
    Rule = {}
    Port = {}
    MaxAcl = 0
    MaxTxPorts = 0
    MaxFaults = 1
    TableSize = 2
    Score <- MCScore
    Coarse = 1
    Digest <- MCDigest
    EntryLists <- ListsOfConfs
    Baselines <- NoBaselines
    Confs <- FlightConfs
INVARIANTS  InFlightUndisturbed
