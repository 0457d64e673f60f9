CONSTANTS
    Proc = {p1, p2}
    Id = {i1, i2}
    ResBlock = {a, b}
    QueueBlock = {q, s}
    NoBlock = none
    Modes <- ReaderOrAll
    DescriptorPool = 3
    UserPool = 3
    MaxFd = 1
SYMMETRY ProcSymmetry
VIEW NoOpenings
SPECIFICATION ResSpec
INVARIANTS ResTypeOK DescriptorsPin OpenQueueFinds UsersHaveDescriptors ResourcesKept
CHECK_DEADLOCK FALSE
PROPERTY ImplementsOpenResources
