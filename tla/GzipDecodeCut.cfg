SPECIFICATION FairGzipSpec
CONSTANTS
    Grid = 2
    End = 7
    Inputs <- MCInputs
    N = 3
    Workers = {w1, w2}
    Limit = 4
    MaxActive = 8
    Reservation <- MCReservation
    Sizes = {0, 1}
    Panicking = {}
PROPERTY TruncationAnswered
CHECK_DEADLOCK FALSE
