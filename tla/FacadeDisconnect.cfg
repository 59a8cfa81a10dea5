CONSTANTS
    MaxBytes = 0
    MaxHerds = 1
    MaxEvents = 3
    Failures = {"PermissionDenied"}
    Mortal = {"esc"}
SPECIFICATION FairSpec
PROPERTY DisconnectIsNoticed
CHECK_DEADLOCK FALSE
