SPECIFICATION FormatsSpec
CONSTANTS
    \* A block of a bzip2 stream
    GroupSize = 2
    TableSteps = {4, 6}
    MaxCodeLen = 3
    LongestCode = 4
    LutBits = 2
    MapWidth = 2
    FieldBits = 4
    BlockSize = 6
    Blocks <- MCBlocks
    Contexts <- MCContexts
    \* The scan
    ByteBits = 2
    MagicBytes = 2
    BlockMagic = 6
    EndMagic = 8
    ChecksumBits = 2
    BlockBits = 3
    Header = 1
    Levels = {1, 2}
    ScanChunk = 2
    Pool = 2
    ScanInputs <- MCScanInputs
    \* Reading by an index
    Records <- MCRecords
    CacheLimit = 3
    MaxRead = 4
    \* The window of DEFLATE segments
    Window = 3
    MaxByte = 1
    OutputChunk = 2
    Compact = 5
    SegmentLimit = 7
    StoredSizes = {2}
    MatchLengths = {2, 5, 7}
    MaxOutput = 8
    \* The bits of DEFLATE blocks
    ByteWidth = 2
    SizeWidth = 2
    LengthBase <- MCLengthBase
    LengthExtra <- MCLengthExtra
    DistanceBase <- MCDistanceBase
    DistanceExtra <- MCDistanceExtra
    FixedRanges <- MCFixedRanges
    FixedDistance = 2
    MaxCodeBits = 4
    PrecodeBits = 3
    PrecodeOrder <- MCPrecodeOrder
    PrecodeRepeats <- MCPrecodeRepeats
    HeaderWidths <- MCHeaderWidths
    Farthest = 4
    MaxMatch = 4
    SegmentLength = 5
    HashSlots = 2
    Efforts <- MCEfforts
    Plains <- MCPlains
    \* Linked LZ4 blocks
    LinkedWindow = 3
    MaxBlock = 5
    LinkedBytes = {0, 1}
    LinkedRuns = {1, 4}
    MaxLinked = 8
    \* The frames of an LZ4 input
    ThreadCounts = {1, 2}
    MaxBatch = 3
    MinParallel = 2
    FrameInputs <- MCFrameInputs
    \* The bytes of an LZ4 block
    NibbleMax = 2
    LengthByte = 3
    LastStart = 6
    EndBytes = 2
    Reach = 4
    SkipEvery = 3
    Hashes = 2
    Chains = {0, 1, 3}
    Texts <- MCTexts
    \* The records of a ZIP archive
    Max16 = 1
    Max32 = 6
    NearMax32 = 4
    SingleThreshold = 1
    MultiThreshold = 2
    WorkingMemory = 1
    MemoryLimits = {2, 20}
    FileSizes = {1, 5, 6, 7}
    LinkSizes = {1, 2}
    ZipInputs <- MCZipInputs
INVARIANTS
    RoundTrip
    SeamlessScan
    CachedReads
    WindowResolves
    InflatesBack
    LinkedHistory
    FramesInOrder
    Unpacks
    ArchiveReads
\* A part ends with what it has to do.
CHECK_DEADLOCK FALSE
