CONSTANTS
    Systems = {"linux"}
    Targets = {"Disk"}
    BlockSizes = {1}
    MaxSize = 3
    Cell = {0, 1}
    Zero = 0
    NoBlock = NoBlock
    DefaultBlock = 1
    BufBlocks = 2
    MaxBufSize = 4
    CheckpointBytes = 4
SPECIFICATION Spec
INVARIANT VerifiedMeansWritten
CHECK_DEADLOCK FALSE
