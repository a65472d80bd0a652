CONSTANTS
    Pumps <- MCPumps
    Flows <- MCFlows
    Programs <- MCPrograms
    ProgressPeriod = 2
    MaxClock = 7
SPECIFICATION Spec
INVARIANTS
    NoCommandSleepsAnHour
