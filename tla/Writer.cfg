CONSTANTS
    Systems = {"linux", "macos"}
    Targets = {"File", "Disk", "Partition"}
    BlockSizes = {1, 2}
    MaxSize = 4
    Cell = {0, 1}
    Zero = 0
    NoBlock = NoBlock
    DefaultBlock = 1
    BufBlocks = 2
    MaxBufSize = 4
    CheckpointBytes = 4
SPECIFICATION FairSpec
INVARIANTS
    TypeOK
    VerificationIsSound
    OnlyRepeatsSlipThrough
    NoFalseAlarm
    EndOfOutputMeansTooSmall
    FinishedWritingIsDurable
    VerifiedFileHasImageLength
PROPERTIES
    WritesAreAligned
    ImplementsProtocol
    WriterEnds
\* A thread that ended or panicked takes no further step.
CHECK_DEADLOCK FALSE
