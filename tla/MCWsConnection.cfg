CONSTANTS
    Senders <- MCSenders
    MaxSends = 2
    MaxFrames = 2
SPECIFICATION Spec
CHECK_DEADLOCK FALSE
INVARIANTS
    OneWriteAtATime
    NothingAfterClose
PROPERTIES
    ImplementsSession
    MessagesAreWritten
