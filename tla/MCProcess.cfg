CONSTANTS
    Inputs <- MCInputs
    Outputs <- MCOutputs
    Unknown = Unknown
SPECIFICATION ProcessSpec
INVARIANTS
    RestingIsTold
    NeverCrashes
    LibraryIsUp
    EndsClean
PROPERTIES
    QuietAfterUnregister
    TurnsAreTold
    ImplementsIoDriver
    ComesDown
