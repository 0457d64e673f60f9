CONSTANTS
    init = init
    clock = clock
    r1 = r1
    r2 = r2
    w1 = w1
    w2 = w2
    rw = rw
    none = none
    Proc <- TwoUsers
    Clock = clock
    Parked = {}
    NoProc = none
    MaxSleep = 0
    Readers <- OneReader
    Writers <- OneWriter
    NonBlock = {}
    MaxMessages = 1
    NewMax = {}
    MsgPool = 2
SPECIFICATION MsgSpec
INVARIANT BlockedNotReady
