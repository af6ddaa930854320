SPECIFICATION Spec
CONSTANTS
    Operators <- MCTwo
    MaxFaults = 1
INVARIANTS
    DisabledOnFailure
