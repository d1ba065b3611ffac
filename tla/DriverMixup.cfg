SPECIFICATION DriverSpec
CONSTANTS
    a = a  b = b  c = c
    None = None
    Queries = {a, b}
    Threads = 2
    MayClose = FALSE
INVARIANTS OwnResult
CHECK_DEADLOCK FALSE
