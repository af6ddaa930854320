SPECIFICATION Spec
CONSTANTS
    Admins = {a1, a2}
SYMMETRY MCSymmetry
INVARIANTS
    UpgradeSucceeds
    OneSchema
    DigestsFollowRows
PROPERTIES
    MigrationsKeepData
