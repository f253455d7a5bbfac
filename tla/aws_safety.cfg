SPECIFICATION Spec
CHECK_DEADLOCK FALSE
INVARIANTS TypeOK SettledKeyWorks BoundToOwnBucket
PROPERTIES KeysOnlyWhenProtected GuardrailStays
SYMMETRY KeySymmetry
CONSTANTS
    c1 = c1
    k1 = k1  k2 = k2  k3 = k3  k4 = k4
    NoKey = NoKey  NoClaim = NoClaim
    Users = {"u1"}
    Names = {"b1", "b2", "theirs"}
    Claims = {c1}
    UserOf <- OwnUsers
    KeyIds = {k1, k2, k3, k4}
    Specs <- SafetySpecs
    Statements = {"AllowTeam"}
    Params <- SomeParams
    InitParams <- SomeParams
    ForeignNames = {"theirs"}
    DeletionPolicy = "Delete"
    FailAt <- Everywhere
    MaxFailures = 2
    MaxGen = 2
    MaxUid = 1
