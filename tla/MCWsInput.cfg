CONSTANTS
    MaxHeader = 400
    MaxBody = 4
    PayloadBasic = 2
    PayloadExtended = 4
    MaxMessage = 6
    Inputs <- MCInputs
SPECIFICATION Spec
CHECK_DEADLOCK FALSE
INVARIANTS
    RequestIsRead
    FramesAreRead
