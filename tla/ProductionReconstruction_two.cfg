SPECIFICATION Spec
CONSTANTS
    Operators <- MCTwo
    MaxFaults = 3
INVARIANTS
    OneAtATime
    PassIsServing
PROPERTIES
    FailuresExplained
    SerialBlankUnderMaintenance
