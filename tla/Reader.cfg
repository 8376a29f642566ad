SPECIFICATION FairReaderSpec
CONSTANTS
    Streams <- MCStreams
    Buffers = {1, 2, 4}
PROPERTIES
    ReadsTheStream
    CallsReturn
CHECK_DEADLOCK FALSE
