CONSTANTS
    Proc = {p1, p2}
    Id = {i1, i2}
    ResBlock = {a, b}
    QueueBlock = {q, s}
    NoBlock = none
    Modes <- ReaderOrAll
    DescriptorPool = 3
    UserPool = 3
    MaxFd = 1
SPECIFICATION ResSpec
INVARIANT QueueInitialized
CHECK_DEADLOCK FALSE
