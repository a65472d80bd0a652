CONSTANTS
    Inputs <- MCInputs
    Outputs <- MCOutputs
    Unknown = Unknown
SPECIFICATION Spec
PROPERTIES
    UnregisterReturns
