CONSTANTS
    init = init
    clock = clock
    r1 = r1
    r2 = r2
    w1 = w1
    w2 = w2
    rw = rw
    none = none
    Proc <- ThreeUsers
    Clock = clock
    Parked <- InitWaits
    NoProc = none
    MaxSleep = 1
    Readers <- ReaderAndBoth
    Writers <- WriterAndBoth
    NonBlock = {w1}
    MaxMessages = 2
    NewMax = {1}
    MsgPool = 4
SPECIFICATION MsgSpec
INVARIANTS MsgTypeOK OneReasonToWait NobodyLost BlockedNotReady NoLostMessage NoLostRoom
PROPERTIES ReadersServed WritersServed ImplementsMailbox
