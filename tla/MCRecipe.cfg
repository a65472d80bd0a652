CONSTANTS
    Unit = 24
    MinFlow <- MCMinFlow
    MaxFlow <- MCMaxFlow
    Lines <- MCLines
    MaxLines = 2
SPECIFICATION Spec
INVARIANTS
    DosesAreRight
    LinesAreApart
    FlowsArePossible
    EndsOff
    InterpolatedEndTogether
