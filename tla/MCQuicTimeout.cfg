CONSTANTS
    Users = {u1}
    Threaded = FALSE
    Timed = TRUE
    MaxQueue = 1
SPECIFICATION QuicSpec
INVARIANTS TimeoutKept
CHECK_DEADLOCK FALSE
