SPECIFICATION FairSpec
CONSTANTS
    Names = {"a", "b", "x", "y", "-"}
    Runs <- MCRuns
    Paths <- MCPaths
    Streams <- MCStreams
    MaxOutput = 3
    Threads = 2
INVARIANTS
    BlameTruthful
    WithinMaxOutput
PROPERTIES
    FoundKept
    OutputsWhole
    RemovedCommitted
    AlwaysEnds
CHECK_DEADLOCK FALSE
