SPECIFICATION AssemblySpec
CONSTANTS
    LastMarker = 6
    Blocks <- MCBlocks
    Inputs <- MCInputs
    Prefetch = TRUE
    N = 3
    Workers = {w1, w2}
    Limit = 3
    MaxActive = 3
    Reservation <- MCReservation
    Sizes = {0, 2}
    Panicking = {}
INVARIANT OnlyRejectedStall
PROPERTY FollowsTheChain
CHECK_DEADLOCK FALSE
