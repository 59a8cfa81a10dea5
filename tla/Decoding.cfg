CONSTANTS
    Cell = {0, 1, 2, 3, 4, 5, 6}
    Zero = 0
    MaxSize = 6
    BufSize = 2
    Period = 2
    MaxBlocks = 3
    MaxFrames = 2
    MaxWindow = 2
SPECIFICATION DecodingSpec
INVARIANTS
    DecodingTypeOK
    HashIsOfTheStream
PROPERTIES
    ImplementsHashing
\* do_hashing returns.
CHECK_DEADLOCK FALSE
