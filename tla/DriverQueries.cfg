SPECIFICATION DriverSpec
CONSTANTS
    a = a  b = b  c = c
    None = None
    Queries = {a, b, c}
    Threads = 2
    MayClose = TRUE
INVARIANTS DriverInv SpoolMatchesState
PROPERTIES EveryQuerySettles
CHECK_DEADLOCK FALSE
