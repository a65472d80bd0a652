CONSTANTS
    Pumps <- MCPumps
    Flows <- MCFlows
    Programs <- FewPrograms
    Recipes <- FewRecipes
    ProgressPeriod = 1
    MaxClock = 1
SPECIFICATION Spec
INVARIANTS
    DoneIsOff
PROPERTIES
    ShutdownCompletes
    RequestsAreAnswered
