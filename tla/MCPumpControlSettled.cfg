CONSTANTS
    Pumps <- MCPumps
    Flows <- MCFlows
    Programs <- CleanPrograms
    Recipes <- CleanRecipes
    ProgressPeriod = 1
    MaxClock = 2
SPECIFICATION SettledSpec
INVARIANTS
    BusyIsActive
    DriverFollows
    MapIsNotShared
PROPERTIES
    StartIsTaken
    OwnRecipe
    ActiveEnds
    UsesRunner
