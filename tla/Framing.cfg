CONSTANTS
    Thread = {t1}
    MaxMessages = 3
    Sizes = {1, 2, 3}
    Limit = 2
    Capacity = 2
SPECIFICATION FairSpec
INVARIANTS
    TypeOK
PROPERTIES
    ImplementsChannel
    ReturnedIsDelivered
\* The daemon dies, or has nothing left to say.
CHECK_DEADLOCK FALSE
