SPECIFICATION EncodeSpec
CONSTANTS
    Threads = 2
    MemoryLimit = 4
    Reservations = {2}
    Reservation = 2
    MaxInput = 8
    MaxWrite = 3
    ByteValues = {0, 1}
    Repeats = 2
    MaxRun = 3
    ByteSize = 2
    BlockLimit = 3
    Window = 2
    SegmentSize = 3
INVARIANTS
    SumsCover
    DictionaryIsHistory
CHECK_DEADLOCK FALSE
