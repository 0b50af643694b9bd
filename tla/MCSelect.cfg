SPECIFICATION Spec
CONSTANTS
    Key <- MCKey
    Inputs <- MCInputs
INVARIANTS
    FloorHeld
    WithinBudget
    PushesBounded
PROPERTIES
    ImplementsSelection
CHECK_DEADLOCK FALSE
