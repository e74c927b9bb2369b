SPECIFICATION Spec
CONSTANTS
    TableSize = 216
    Scale = 3
    MaxWeight = 2
    Coarse = 2
    Digest <- MCDigest
    Score <- MCScore
    MemberLists <- MCMemberLists
PROPERTY MinimalDisruption
