CONSTANTS
    NumItems = 5
    ItemSize = 2
SPECIFICATION PoolSpec
INVARIANTS PoolTypeOK FreeListIntact
PROPERTY ImplementsBlockPool
