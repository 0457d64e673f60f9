CONSTANTS
    init = init
    clock = clock
    r1 = r1
    r2 = r2
    w1 = w1
    w2 = w2
    rw = rw
    none = none
    Proc <- FourUsers
    Clock = clock
    Parked <- InitWaits
    NoProc = none
    MaxSleep = 0
    Readers <- TwoReaders
    Writers <- TwoWriters
    NonBlock = {r1, r2}
    MaxMessages = 1
    NewMax = {}
    MsgPool = 2
SPECIFICATION MsgSpec
INVARIANT NonBlockNeverWaits
