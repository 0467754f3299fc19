\* Every stream of up to five bytes, in every way it can be cut into chunks of up to
\* three: lines within a chunk, across chunks, and ended by a chunk's first byte.
CONSTANTS
    MaxLength = 5
    Streams <- Short
    ChunkSize = 3
SPECIFICATION FairSpec
INVARIANTS
    NothingWaits
PROPERTIES
    ImplementsLines
    EveryLineHandled
\* The transport is quiet after the end of stdin.
CHECK_DEADLOCK FALSE
