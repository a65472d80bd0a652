CONSTANTS
    Threads <- MCThreads
    Clients = {c1, c2}
    Keys = {mode, input}
    MaxMessages = 2
SPECIFICATION Spec
INVARIANTS
    ClientsAreCurrent
PROPERTIES
    NoStaleMessage
    CallsReturn
