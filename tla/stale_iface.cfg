SPECIFICATION Spec
CONSTANTS
    Wrong = Wrong
    NoName = NoName
    Unset = Unset
    NoFile = NoFile
    NoConf = NoConf
    MaxBackends = 4
    MaxVips = 3
    MaxTxPorts = 2
    MaxAcl = 2
    U32Max = 20000000
    ByteBits = 2
    V4Bytes = 2
    V6Bytes = 4
    Files <- MCFile
    Revisions <- MCReweighted
    Host = {"eth0", "eth1"}
    DiagMax = 2
    MaxChanges = 1
INVARIANT NamesItsInterface
