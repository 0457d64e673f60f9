CONSTANTS
    Block = {init, clock, p, q, r}
    Init = init
    Clock = clock
    NoBlock = none
    MaxPid = 5
SPECIFICATION ProcSpec
INVARIANTS ProcTypeOK OneHome HasCollector WaiterServed
VIEW WithoutAnswers
