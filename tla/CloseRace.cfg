CONSTANTS
    Item = {p, q, r}
    List = {readers}
    Readers = readers
    Null = null
SPECIFICATION CloseSpec
INVARIANT ClosedUsersGone
CHECK_DEADLOCK FALSE
