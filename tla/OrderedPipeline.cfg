SPECIFICATION FairSpec
CONSTANTS
    N = 4
    Workers = {w1, w2}
    Limit = 3
    MaxActive = 3
    Reservation <- MCReservation
    Sizes = {0, 1, 4}
    Panicking = {4}
INVARIANTS
    Accounting
    WithinLimits
    NoLostWakeup
    OnePlace
PROPERTY ReturnJoins
CHECK_DEADLOCK FALSE
