SPECIFICATION FairEncoderSpec
CONSTANTS
    Threads = 2
    MemoryLimit = 6
    Reservations = {2}
    Reservation = 2
    BlockSize = 2
    MaxInput = 5
    MaxWrite = 5
INVARIANTS
    StreamAccounting
    ResultsComing
    NoSilentLoss
PROPERTIES
    IsQueue
    CallsEnd
    PoolQuiesces
CHECK_DEADLOCK FALSE
