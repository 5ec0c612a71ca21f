SPECIFICATION Spec
CONSTANTS
    None = None
    Budgets = {1, 3, 9}
    Absolutes = {2, 8, 30}
    Inputs <- MCInputs
    Outputs <- MCOutputs
    PromptEstimate = 5
    TextEstimate = 1
INVARIANTS
    TypeOK
    TotalsMatchInvoice
    SpendBounded
PROPERTIES
    ClimbsTheLadder
    EveryPacketEnds
CHECK_DEADLOCK FALSE
