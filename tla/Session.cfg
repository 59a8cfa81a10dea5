CONSTANTS
    MaxBytes = 2
    MaxInput = 2
    MaxHeard = 6
SPECIFICATION Spec
INVARIANTS
    TypeOK
    EscalationIsConsented
    ResultIsTruthful
    BreaksOnlyOnNothing
\* The program ends.
CHECK_DEADLOCK FALSE
