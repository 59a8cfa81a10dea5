CONSTANTS
    MaxBytes = 0
    MaxHerds = 2
    MaxEvents = 4
    Failures = {"PermissionDenied"}
    Mortal = {"std"}
SPECIFICATION FairSpec
INVARIANTS
    TypeOK
    NothingLostOrReordered
    NothingParked
PROPERTY HerdsAreHeardOut
\* Once the calls are used up and the herds are heard out, nothing is left to do.
CHECK_DEADLOCK FALSE
