SPECIFICATION FairBatchSpec
CONSTANTS
    N = 4
    Workers = {w1, w2}
    Limit = 3
    MaxActive = 2
    Reservation <- MCReservation
    Sizes = {0, 1}
    Panicking = {2}
PROPERTY PanicReported
CHECK_DEADLOCK FALSE
