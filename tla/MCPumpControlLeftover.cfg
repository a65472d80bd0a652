CONSTANTS
    Pumps <- MCPumps
    Flows <- MCFlows
    Programs <- BrokenPrograms
    Recipes <- BrokenRecipes
    ProgressPeriod = 1
    MaxClock = 2
SPECIFICATION SettledSpec
PROPERTIES
    OwnRecipe
