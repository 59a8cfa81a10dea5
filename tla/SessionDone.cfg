CONSTANTS
    MaxBytes = 1
    MaxInput = 1
    MaxHeard = 6
SPECIFICATION Spec
INVARIANT DoneMeansSuccess
CHECK_DEADLOCK FALSE
