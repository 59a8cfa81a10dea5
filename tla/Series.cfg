CONSTANTS
    MaxLen = 6
    MaxTime = 4
    MaxBytes = 1
SPECIFICATION Spec
INVARIANTS
    TypeOK
    FindsSampleBelow
    UndefinedOnlyAtStart
    EstimatesAreSane
