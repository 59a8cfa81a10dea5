CONSTANTS
    MaxBytes = 1
    MaxHerds = 2
    MaxEvents = 5
    Failures = {"PermissionDenied"}
    Mortal = {"std", "esc"}
    SelfPaths <- MCSelfPaths
    LogPath <- MCLogPath
SPECIFICATION FairSpec
INVARIANTS
    TypeOK
    TerminalIsRestored
    RootRunsOnlyTheDaemon
PROPERTIES
    ImplementsSession
    QuitIsSafe
    WritersStopWithProgram
    SessionConcludes
\* Once the program and its daemons are gone nothing is left to do.
CHECK_DEADLOCK FALSE
