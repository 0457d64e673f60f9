CONSTANTS
    init = init
    clock = clock
    u1 = u1
    u2 = u2
    u3 = u3
    u4 = u4
    none = none
    Proc <- MCProc
    Clock = clock
    Parked <- MCParked
    NoProc = none
    MaxSleep = 3
SPECIFICATION TrapSpec
INVARIANTS TypeOK OnePlace SleepersHaveOneTimer TimersSorted StatusAgrees UserUnmasked
PROPERTIES NoStarvation ImplementsProcessor ImplementsScheduler
