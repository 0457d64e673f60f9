CONSTANTS
    Block = {init, clock, p, q, r}
    Init = init
    Clock = clock
    NoBlock = none
    MaxPid = 4
SPECIFICATION ShutSpec
INVARIANT GraveyardReached
CHECK_DEADLOCK FALSE
